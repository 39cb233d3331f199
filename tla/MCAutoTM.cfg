SPECIFICATION Spec
CONSTANTS
  Segments = {a, b}
  Texts = {x, y}
  Users = {u, v}
  Slots = {p, q}
  Backends = {"thread", "arq"}
  Batch = 1
  MaxBatches = 2
  MaxAttempts = 2
  None = None
  MaxConfirms = 2  MaxEdits = 1  MaxFaults = 1  MaxCrashes = 1
SYMMETRY Symmetry
INVARIANTS TypeOK CompletedArrived StaleMatchIsRegistered
CHECK_DEADLOCK FALSE
