\* Any three requests on the carts of two users, with one mishap.
CONSTANTS
  Reqs = {r1, r2, r3}
  MaxMishaps = 1
  Users = {ann, bob}
  Products = {rod, reel}
  Quantities <- SomeQuantities
  InitialStock = 5
SYMMETRY AnyRequest
SPECIFICATION Spec
INVARIANTS
  LimitKept
  StockAccounted
  OneOfEach
  GoneStaysGone
PROPERTIES
  ClearedAsOrdered
