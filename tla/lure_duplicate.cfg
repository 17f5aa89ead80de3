\* Two members register a lure with the same code; nothing fails.
CONSTANTS
  r1 = r1
  r2 = r2
  r3 = r3
  ann = ann
  bob = bob
  mosaic = mosaic
  red = red
  coupon = coupon
  CodeAsMember = CodeAsMember
  Unset = Unset
  NoRow = NoRow
  NoAsk = NoAsk
  NoLure = NoLure
  Requests = {r1, r2}
  Asks <- SameCode
  Members = {ann, bob}
  Types = {mosaic}
  Colors = {red}
  Tokens = {coupon}
  DigitalType = mosaic
  LastPadded = 2
  Radix = 3
  MaxQuantity = 1
  MaxMishaps = 0
SPECIFICATION Spec
PROPERTIES UniqueChecked
CHECK_DEADLOCK FALSE
