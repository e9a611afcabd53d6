\* Two commands at a time, killed anywhere.
SPECIFICATION Spec
CONSTANTS
  a1 = a1
  a2 = a2
  s3 = s3
  c1 = c1
  c2 = c2
  h1 = h1
  h2 = h2
  f1 = f1
  f2 = f2
  Alias = {a1, a2}
  Remote = {s3}
  Cmd = {c1, c2}
  Flags = {f1}
  HostKey = {h1, h2}
  None = None
  MaxFresh = 3
  MaxCommands = 4
\* The instance stops when its commands are used up.
CHECK_DEADLOCK FALSE
SYMMETRY Symmetry
INVARIANTS
  CurrentListed
  KnownKept
PROPERTIES
  KeyKept
