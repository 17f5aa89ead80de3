\* Two members; two requests of the same or of different members, for the same or
\* different orders of either, with the same signed transfer (a second click, a
\* retry); pages of one order; two units with coupons.
CONSTANTS
  Members = {m1, m2}
  Unit = {u1, u2}
  CouponUnit = {u1, u2}
  Order = {1, 2}
  PageSize = 1
  Transfer = {s1}
  Checkouts = {c1, c2}
  MaxUsed = 1
  MaxCrashes = 1
  DbMayFail = TRUE
SPECIFICATION Spec
INVARIANTS CompletedIsWhole ChargedIsReported MailedIsShown
PROPERTIES KeepsPromise
CONSTRAINT NamedFirst
ACTION_CONSTRAINT StepsThatMatter
SYMMETRY Symmetric
CHECK_DEADLOCK FALSE
