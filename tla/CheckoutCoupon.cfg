SPECIFICATION Spec
CONSTANTS
  cut = cut  massage = massage
  Requests = {r1, r2, r3}
  Customers = {c1, c2, c3}
  Guest = Guest
  Services = {cut, massage}
  Carts <- MCCarts
  Offers <- OneOffer
  NoOffer = NoOffer
  Terms <- FixedTerms
  UsageLimit = 2
  PerUserLimit = 1
  NoLimit = NoLimit
  Nobody = Nobody
  Managers = {m1}
SYMMETRY Interchangeable
INVARIANTS TypeOK CouponAccounts CustomerBillsAddUp
PROPERTY NoUseOnceDisabled
CHECK_DEADLOCK FALSE
