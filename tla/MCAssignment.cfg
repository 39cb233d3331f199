SPECIFICATION Spec
CONSTANTS
  Translators = {u, v}
  Managers = {m, n}
  Documents <- TwoBlocks
  Steps = 3
  None = None
  MaxRows = 4  MaxSaves = 2  MaxChanges = 1
SYMMETRY Symmetry
INVARIANTS TypeOK OneTranslatorPerSegment 
PROPERTIES SaveReplacesItsBase 
CHECK_DEADLOCK FALSE
