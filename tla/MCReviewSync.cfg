SPECIFICATION Spec
CONSTANTS
  Segments = {a, b}
  Editors = {u, v}
  Reviewers = {w}
  Texts = {t0, t1, t2}
  Baseline = t0
  None = None
  MaxSaves = 2  MaxOthers = 1  MaxAsks = 1
SYMMETRY Symmetry
INVARIANTS TypeOK OneGroupPerSegment PendingTaskIsCurrent RevisionsShowTheGroup
PROPERTIES IndependentTextSurvives
CHECK_DEADLOCK FALSE
