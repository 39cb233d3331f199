SPECIFICATION Spec
CONSTANTS
  r1 = r1  r2 = r2  f1 = f1  f2 = f2  f3 = f3
  Runs = {r1, r2}
  Wanted <- OneFile
  Stages = 2
  None = None
  MaxCancels = 2  MaxSilences = 1  MaxCrashes = 1
INVARIANTS TypeOK WorkerKeepsFile LockHasOwner CancelHonoured
CHECK_DEADLOCK FALSE
