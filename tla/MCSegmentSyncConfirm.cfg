SPECIFICATION Spec
CONSTANTS
  Segments = {1, 2}
  Texts = {a, b}
  Users = {u1}
  Operations = {"save", "confirm", "unconfirm", "protect"}
  Stamps = {1}
  None = None
  MaxVersions = 5
VIEW WithoutShown
SYMMETRY Symmetry
INVARIANTS ConfirmationHasTime
PROPERTIES HumanTextStays
CHECK_DEADLOCK FALSE
