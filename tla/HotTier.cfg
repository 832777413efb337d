SPECIFICATION Spec
CONSTANTS
  NoName = NoName
  Names = {n1, n2}
  SizeOf <- Sizes
  HotCap = 3
  Readers = {r1}
  Promoters = {g1, g2}
SYMMETRY Alike
INVARIANTS UsageExact PromotionsPaired OverCapIsEvicted
 
CHECK_DEADLOCK FALSE
