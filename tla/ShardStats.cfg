SPECIFICATION Spec
CONSTANTS
  Shards = {s1}
  MaxUsage = 2
  MaxUnknown = 2
  MaxRestarts = 1
PROPERTY OnlyRestartDrifts
