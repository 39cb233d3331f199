SPECIFICATION Spec
CONSTANTS
  Segments = {1, 2}
  Texts = {a}
  Users = {u1}
  Operations = {"save", "batch", "disable", "enable", "protect", "release"}
  Stamps = {1}
  None = None
  MaxVersions = 5
VIEW WithoutShown
SYMMETRY Symmetry
PROPERTIES ConvergenceAgrees SettingsStay
CHECK_DEADLOCK FALSE
