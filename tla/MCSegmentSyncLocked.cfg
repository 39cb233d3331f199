SPECIFICATION Spec
CONSTANTS
  Segments = {1, 2}
  Texts = {a, b}
  Users = {u1}
  Operations = {"save", "protect", "release", "blur"}
  Stamps = {1}
  None = None
  MaxVersions = 4
SYMMETRY Symmetry
INVARIANTS TypeOK VersionNamesOneText BlurSpreadsWhatWasSeen
CHECK_DEADLOCK FALSE
