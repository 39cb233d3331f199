SPECIFICATION FairSpec
CONSTANTS
  Keys = {k1, k2}
  Workers = {w1}
  BatchSize = 1
  MaxBatches = 2
  MaxAttempts = 2
  BlurEnabled = TRUE
  NoClaim = NoClaim
  MaxGen = 2
  MaxFaults = 0
  MaxCrashes = 0
PROPERTY EventuallySettled
CHECK_DEADLOCK FALSE
