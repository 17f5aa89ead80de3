\* A member that sends its second comment before the first one is answered;
\* nothing fails and nothing is taken back.
CONSTANTS
  alice = alice
  bob = bob
  k1 = k1
  k2 = k2
  k3 = k3
  k4 = k4
  Nobody = Nobody
  Member = {alice, bob}
  Comments = {k1, k2, k3}
  Author <- AuthorOf
  Owner <- OwnerOf
  Quantity <- Affordable
  ReplyTo <- NoReply
  PoolSize = 10
  Patient = {}
  MaxGranted = 2
  MaxTaken <- NothingTaken
  MaxCrashes = 0
  DbMayFail = FALSE
SPECIFICATION Spec
INVARIANTS NoOverspend
CHECK_DEADLOCK FALSE
