SPECIFICATION FairSpec
CONSTANTS
  a1 = a1
  a2 = a2
  a3 = a3
  b1 = b1
  b2 = b2
  s1 = s1
  Actions = {a1, a2, a3}
  Blobs = {b1, b2}
  BlobOf <- Contents
  SizeOf <- TwoSizes
  Shards = {s1}
  ShardOf <- OneShard
  RelAtime = 1
  MaxBatches = 1
  MaxUnknown = 1
  MaxRestarts = 1
  Setups <- AllLimits
PROPERTIES KeepsBooks  EstimateCatchesUp SizeReclaimed AgedReclaimed
