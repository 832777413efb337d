SPECIFICATION FairSpec
CONSTANTS
  p1 = p1
  p2 = p2
  p3 = p3
  k1 = k1
  k2 = k2
  s1 = s1
  s2 = s2
  i1 = i1
  NoPut = NoPut
  NoSha = NoSha
  Puts = {p1, p2}
  Keys = {k1, k2}
  Shas = {s1}
  InlineShas = {}
  KeyOf <- TwoKeys
  ShaOf <- TwoSame
  SizeOf <- TwoSizes
  Movers = {m1, m2}
  InlineCap = 1
  CountCap = 2
  SpoolCap = 4
  CopyRetries = 2
  FlushRetries = 2
  FlushBatchCap = 2
  IntentDelCap = 1
  IntentDelay = 1
  Limited = FALSE
  ReadKeys = {}
  MaxTime = 2
  MaxCrashes = 1
INVARIANT OrphansHaveIntents
PROPERTY OrphansSwept
CHECK_DEADLOCK FALSE
