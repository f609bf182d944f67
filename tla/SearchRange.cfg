SPECIFICATION Spec
CONSTANTS
  r1 = r1 r2 = r2 p1 = p1 p2 = p2 i1 = i1 i2 = i2
  clerk = clerk shopAverage = shopAverage
  StoreReqs = {r1, r2}
  MaxPapers = 1
  CatReqs = {r1, r2}
  Services = {1, 2}
  Names <- SomeNames
  Fold <- SomeFold
  Pictures = {p1, p2}
  Changes <- SomeChanges
  Offers = {TRUE}
  MaxCalls = 3
  PromoReqs = {r1, r2}
  Promos = {p1, p2}
  Times = {1, 2}
  Values = {50}
  Scopes <- SomeScopes
  Price <- SomePrices
  RevReqs = {r1, r2}
  Items = {i1, i2}
  StaffOf <- OneClerk
  Store = shopAverage
  Ratings = {4}
  Found = {1, 2, 3}
  RowKinds <- SomeRows
  Questions <- SomeQuestions
  PageSize = 2
INVARIANT RangeIsOfTheCheapest
SYMMETRY Alike
CHECK_DEADLOCK FALSE
