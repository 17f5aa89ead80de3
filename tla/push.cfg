\* Two runs that may overlap, two members with a notice each, a device that
\* passes from one to the other, and a mishap anywhere.
CONSTANTS
  n1 = n1
  n2 = n2
  ann = ann
  bob = bob
  d1 = d1
  d2 = d2
  NoMember = NoMember
  NoDevice = NoDevice
  Notices = {n1, n2}
  Members = {ann, bob}
  To <- OneEach
  Devices = {d1, d2}
  Registered <- First
  Runs = {r1, r2}
  MaxMoves = 1
  MaxMishaps = 1
SPECIFICATION FairSpec
INVARIANTS StatusTruthful PushedOnce NoStrangers
PROPERTIES NeverBack EventuallySettled
CHECK_DEADLOCK FALSE
