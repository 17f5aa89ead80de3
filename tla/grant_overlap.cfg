\* Two runs of fixToken that overlap; nothing else goes wrong.
CONSTANTS
  t1 = t1
  t2 = t2
  d1 = d1
  m1 = m1
  m2 = m2
  NoTx = NoTx
  Tx = {t1, t2, d1}
  DirectTx = {d1}
  Member = {m1, m2}
  Runs = {r1, r2}
  Callers = {c1}
  MaxRetries = 3
  MaxCrashes = 0
  Fates = {"lost"}
  Verdicts = {"executed"}
  DbMayFail = FALSE
  Receiver <- TwoReceivers
SPECIFICATION Spec
INVARIANTS PaidAtMostOnce
CHECK_DEADLOCK FALSE
CONSTRAINT StartsApart
