SPECIFICATION ServerSpec
CONSTANTS
  Keys = {k1, k2}
  NoKey = NoKey
  NoConn = NoConn
  Conns = {c1, c2}
  MaxIdleBase = 1
  MaxGets = 4
INVARIANTS RefcountExact InUseIsOpen IdleBounded NoBaseLeaks
CHECK_DEADLOCK FALSE
