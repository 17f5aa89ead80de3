\* Four comments, two of a member that waits for its answers and two of one that
\* does not, a crash and failing statements; the pool is larger than the number
\* of requests under way, so none waits for another one.
CONSTANTS
  alice = alice
  bob = bob
  k1 = k1
  k2 = k2
  k3 = k3
  k4 = k4
  Nobody = Nobody
  Member = {alice, bob}
  Comments = {k1, k2, k3, k4}
  Author <- AuthorOf
  Owner <- OwnerOf
  Quantity <- OneIsFree
  ReplyTo <- Thread
  PoolSize = 4
  Patient = {alice}
  MaxGranted = 1
  MaxTaken <- TakenFromAlice
  MaxCrashes = 1
  DbMayFail = TRUE
SPECIFICATION FairSpec
INVARIANTS PatientNeverOverdrawn AllOrNothing ThreadsOneLevel NoticeOfAccepted
PROPERTIES KeepsLedger EveryRequestEnds
CHECK_DEADLOCK FALSE
