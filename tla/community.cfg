\* Any three requests of ann and bob out of one of five mixes, with one mishap.
CONSTANTS
  ann = ann
  bob = bob
  p1 = p1
  p2 = p2
  oldFollow = oldFollow
  oldResult = oldResult
  Reqs = {oldFollow, oldResult, r1, r2, r3}
  MaxMishaps = 1
  Member = {ann, bob}
  Post = {p1, p2}
  Author <- Authors
  OldPost = {p1}
  Dates <- SomeDates
  OldRow = {oldFollow}
  OldResult = {oldResult}
  OldCall <- Past
  Mixes <- SomeMixes
SYMMETRY AnyRequest
SPECIFICATION Spec
INVARIANTS
  SavesStand
  ForeignEditEndsServer
  NoticesMatchRows
  LastWordCounts
  ReviewHolds
PROPERTIES
  MarksWhatItShows
