SPECIFICATION FairSpec
CONSTANTS
  a = a
  b = b
  p1 = p1
  p2 = p2
  g = g
  global = global
  extra = extra
  tiny = tiny
  small = small
  large = large
  NoItem = NoItem
  Failed = Failed
  Unread = Unread
  Hosts = {a, b}
  Puts = {p1, p2}
  Gets = {g}
  Keys = {global, extra}
  GlobalKey = global
  Contents = {tiny, small, large}
  SizeOf <- Sizes
  Loads <- SomeLoads
  InlineMax = 0
  MemBudget = 1
  SpoolCap = 1
  KnownBlobs = 1
  ATimeQueueLen = 1
  ATimeWorkers = 1
  Retention = 2
  Relatime = 1
INVARIANT StoredIsReadable
PROPERTIES ReadActionsLive AllSettles
CHECK_DEADLOCK FALSE
