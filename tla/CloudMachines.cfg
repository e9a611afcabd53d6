\* Two commands at a time, on either provider.
SPECIFICATION Spec
CONSTANTS
  c1 = c1
  c2 = c2
  e1 = e1
  Cli = {c1, c2}
  Env = {e1}
  Size = {1, 2}
  DefaultSize = 1
  Wanted = {2, None}
  None = None
  MaxMachines = 4
  MaxCommands = 2
  MaxFaults = 1
\* The instance stops when MaxCommands have been started.
CHECK_DEADLOCK FALSE
SYMMETRY Symmetry
INVARIANTS
  OneMachinePerEnv
  ReadyAsAsked
  PurgeLeavesNothing
PROPERTIES
  LivesOnce
