SPECIFICATION FairSpec
CONSTANTS
  r1 = r1  r2 = r2  f1 = f1  f2 = f2  f3 = f3
  Runs = {r1, r2}
  Wanted <- TwoRuns
  Stages = 1
  None = None
  MaxCancels = 1  MaxSilences = 0  MaxCrashes = 0
INVARIANTS FinalMeansConvergedUndisturbed
 
CHECK_DEADLOCK FALSE
