\* Two commands, one after the other or at a time, while the user edits; for
\* one environment or for two.
SPECIFICATION Spec
CONSTANTS
  c1 = c1
  c2 = c2
  e1 = e1
  e2 = e2
  Cli = {c1, c2}
  Env = {e1, e2}
  Build = {"none", "load", "push"}
  None = None
  Own = Own
  MaxUps = 2
  MaxEdits = 1
  MaxTime = 1
  MaxAttempts = 1
\* The instance stops when its commands and edits are used up.
CHECK_DEADLOCK FALSE
SYMMETRY Symmetry
INVARIANTS
  UploadedBeforeUp
  OwnModel
  FreshImage
