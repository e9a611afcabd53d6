\* Two commands at a time, on two environments.
SPECIFICATION Spec
CONSTANTS
  c1 = c1
  c2 = c2
  e1 = e1
  e2 = e2
  Cli = {c1, c2}
  Env = {e1, e2}
  Bundle = {1, 2}
  DefaultBundle = 2
  Wanted = {1, None}
  None = None
  MaxMachines = 3
  MaxKeys = 2
  MaxCommands = 3
  MaxFaults = 0
\* The instance stops when no more commands may be started.
CHECK_DEADLOCK FALSE
SYMMETRY Symmetry
INVARIANTS
  OneMachinePerEnv
