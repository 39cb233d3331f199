SPECIFICATION Spec
CONSTANTS
  Keys = {k1}
  Workers = {w1, w2}
  BatchSize = 1
  MaxBatches = 2
  MaxAttempts = 2
  BlurEnabled = FALSE
  NoClaim = NoClaim
  MaxGen = 3
  MaxFaults = 2
  MaxCrashes = 1
SYMMETRY Symmetry
INVARIANTS TypeOK NoLostConfirmation FailureIsEarned OutboxInv
PROPERTY KeepsPromise
CHECK_DEADLOCK FALSE
