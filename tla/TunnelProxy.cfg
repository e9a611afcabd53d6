\* One tab at a time; all kinds of credentials; a tunnel
\* of one owner and memberships of two.  Pages of up to six pieces in two versions; two connections
\* of the process; two callers of the agent.
SPECIFICATION PartsSpec
CONSTANTS
  mine = mine
  theirs = theirs
  o1 = o1
  o2 = o2
  Key = {mine}
  Owner = {o1, o2}
  OwnerOf <- Owners
  t1 = t1
  t2 = t2
  Tab = {t1}
  Header <- AllHeaders
  None = None
  Saas = TRUE
  MaxTargets = 2
  MaxVisits = 2
  MaxChanges = 3
  Script = {s1, s2}
  NoScript = NoScript
  MaxPieces = 6
  MaxVersions = 2
  Conn = {conn1, conn2}
  MaxSignals = 3
  here = here
  elsewhere = elsewhere
  Caller = {caller1, caller2}
  Container = {here, elsewhere}
  NoContainer = NoContainer
  ProjectOf <- Projects
  ComposeProject = "project"
\* The instance stops when its visits are used up.
CHECK_DEADLOCK FALSE
INVARIANTS
  ServedProperly
  InjectedAlike
  CachedFresh
  CutExplained
  StreamsClosed
PROPERTIES
  VisitsSettle
  MemberServed
