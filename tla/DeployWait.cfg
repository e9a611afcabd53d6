\* A command that waits for the tunnels of its environment.
SPECIFICATION Spec
CONSTANTS
  c1 = c1
  c2 = c2
  e1 = e1
  e2 = e2
  Cli = {c1}
  Env = {e1}
  Build = {"load", "push"}
  None = None
  Own = Own
  MaxUps = 1
  MaxEdits = 1
  MaxTime = 1
  MaxAttempts = 1
\* The instance stops when its commands and edits are used up.
CHECK_DEADLOCK FALSE
INVARIANT WaitsForTunnels
