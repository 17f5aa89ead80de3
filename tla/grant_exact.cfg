\* One run of fixToken at a time, no crash, no failing statement, and a chain
\* that includes a transfer at once or never.
CONSTANTS
  t1 = t1
  t2 = t2
  d1 = d1
  m1 = m1
  m2 = m2
  NoTx = NoTx
  Tx = {t1, t2, d1}
  DirectTx = {d1}
  Member = {m1, m2}
  Runs = {r1}
  Callers = {c1}
  MaxRetries = 3
  MaxCrashes = 0
  Fates = {"lost"}
  Verdicts = {"executed", "reverted"}
  DbMayFail = FALSE
  Receiver <- TwoReceivers
SPECIFICATION FairSpec
INVARIANTS ExactGrant
PROPERTIES EventuallySettled
CHECK_DEADLOCK FALSE
