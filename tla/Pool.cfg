SPECIFICATION FairSpec
CONSTANTS
  a = a
  b = b
  k1 = k1
  k2 = k2
  Members = {a, b}
  Changing = {b}
  Names = {a, b}
  Keys = {k1, k2}
  Score <- Scores
  MaxEvents = 2
INVARIANTS TrackedExact SourceFollowed RouterFollows
PROPERTY Converges
CHECK_DEADLOCK FALSE
