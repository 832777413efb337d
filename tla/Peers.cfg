SPECIFICATION FairSpec
CONSTANTS
  a = a
  b = b
  p1 = p1
  NoServer = NoServer
  NoObject = NoObject
  Servers = {a, b}
  Keys = {k}
  Puts = {p1, p2}
  Gets = {g}
  KeyOf <- TheKeys
  HomeOf <- TheHomes
  LaneCap = 1
INVARIANTS AckedFindable StoredWhole RoomReturned
PROPERTY AllAnswered
CHECK_DEADLOCK FALSE
