\* Any three requests of a choice of seven, in any order and overlapping, with
\* reviewers one after the other and a mishap anywhere; those that race for a token keep to
\* themselves. Numbers of one ternary digit are padded.
CONSTANTS
  r1 = r1
  r2 = r2
  r3 = r3
  ann = ann
  bob = bob
  mosaic = mosaic
  red = red
  coupon = coupon
  CodeAsMember = CodeAsMember
  Unset = Unset
  NoRow = NoRow
  NoAsk = NoAsk
  NoLure = NoLure
  Requests = {r1, r2, r3}
  Asks <- Everything
  Members = {ann, bob}
  Types = {mosaic}
  Colors = {red}
  Tokens = {coupon}
  DigitalType = mosaic
  LastPadded = 2
  Radix = 3
  MaxQuantity = 2
  MaxMishaps = 1
SPECIFICATION Spec
ACTION_CONSTRAINTS OneReviewer RedeemApart
SYMMETRY Alternation
INVARIANTS NumbersDistinct PurchaseOnce LureHasReview ApprovedCanBeMinted ApprovedAsReviewed TokenOnce
CHECK_DEADLOCK FALSE
