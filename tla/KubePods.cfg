\* Two commands at a time on an environment.
SPECIFICATION Spec
CONSTANTS
  c1 = c1
  c2 = c2
  e1 = e1
  Cli = {c1, c2}
  Env = {e1}
  Template <- TwoTemplates
  Legacy = {"Deployment"}
  None = None
  Retries = 1
  MaxInstances = 2
  MaxCommands = 2
  MaxFaults = 1
\* The instance stops when MaxCommands have been started.
CHECK_DEADLOCK FALSE
SYMMETRY Symmetry
INVARIANTS
  OrphansExplained
  OneInstancePerEnv
  ReadyAsAsked
  WaitsEnd
