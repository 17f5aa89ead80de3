\* Two runs of fixToken that may overlap, a call of giveToken, one crash of
\* the process, failing statements, and transfers that are included late.
CONSTANTS
  t1 = t1
  t2 = t2
  d1 = d1
  m1 = m1
  m2 = m2
  NoTx = NoTx
  Tx = {t1, t2, d1}
  DirectTx = {d1}
  Member = {m1}
  Runs = {r1, r2}
  Callers = {c1}
  MaxRetries = 0
  MaxCrashes = 1
  Fates = {"floating"}
  Verdicts = {"executed"}
  DbMayFail = TRUE
  Receiver <- OneReceiver
SPECIFICATION Spec
INVARIANTS NothingSentWhileReady NoticesBacked
PROPERTIES KeepsPromise
SYMMETRY Symmetric
CHECK_DEADLOCK FALSE
