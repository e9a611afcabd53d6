\* One run of the CLI that captures events; two processes that log in and link; two jobs for the
\* pull requests of branches with equal and with different environments; the commands
\* that ask a tunnel server, and then an agent, for what runs; and those that work
\* with a machine, and the flags of its driver.
SPECIFICATION Spec
CONSTANTS
  u1 = u1
  u2 = u2
  p1 = p1
  p2 = p2
  main = main
  fix = fix
  plain = plain
  upper = upper
  j1 = j1
  j2 = j2
  MaxEvents = 3
  User = {u1, u2}
  Process = {p1, p2}
  NoOne = NoOne
  MaxLogins = 4
  Name = {main, fix}
  Spelling = {plain, upper}
  Job = {j1, j2}
  Nothing = Nothing
  MaxJobs = 3
  key1 = key1
  key2 = key2
  HostKey = {key1, key2}
  NoKey = NoKey
  MaxRetries = 2
  d1 = d1
  d2 = d2
  DockerClient = {d1, d2}
  MaxTries = 2
  FlagValue = {BuiltIn, v1}
  BuiltIn = BuiltIn
  v1 = v1
  NoFlag = NoFlag
  Driver = {"lightsail", "kube-pod"}
  MaxUpdates = 1
  MaxRuns = 1
\* Processes end, and commands are used up.
CHECK_DEADLOCK FALSE
INVARIANTS
  EventsTried
  LoginsJoin
  CommentTells
  Vouched
  LeavesNothing
  AsAsked
