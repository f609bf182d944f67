SPECIFICATION Spec
CONSTANTS
  cut = cut  massage = massage
  Requests = {r1, r2}
  Customers = {c1, c2}
  Guest = Guest
  Services = {cut, massage}
  Carts <- MCCarts
  Offers <- MCOffers
  NoOffer = NoOffer
  Terms <- FixedTerms
  UsageLimit = 2
  PerUserLimit = 1
  NoLimit = NoLimit
  Nobody = Nobody
  Managers = {}
INVARIANT WalkInBillsAddUp
CHECK_DEADLOCK FALSE
