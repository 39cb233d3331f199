SPECIFICATION Spec
CONSTANTS
  Clients = {c1, c2, c3}
  None = None
  Overlap = FALSE
  MaxTokens = 4
SYMMETRY Symmetry
INVARIANTS TypeOK LiveLockStands NoForeignWrite
CHECK_DEADLOCK FALSE
