SPECIFICATION Spec
CONSTANTS
  Users = {u1, u2}
  Document <- OneSentence
  Writings <- Typed
  None = None
  MaxRows = 3  MaxWrites = 1
SYMMETRY Symmetry
INVARIANTS TypeOK SentenceIdsUnique 
PROPERTIES DocumentIsKept OrderIsRebuilt
CHECK_DEADLOCK FALSE
