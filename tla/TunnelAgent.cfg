\* Everything that can happen to the agent: listings that overtake each
\* other, API requests, refusals, stuck calls, lost connections.
SPECIFICATION Spec
CONSTANTS
  api = api
  agent = agent
  webPublic = webPublic
  webPrivate = webPrivate
  web = web
  Request = {api, webPublic, webPrivate}
  Path = {agent, web}
  PathOf <- Paths
  Api = api
  None = None
  MaxChanges = 2
  MaxFaults = 2
  MaxListings = 2
  MaxQueue = 2
\* An agent at rest waits for docker for ever.
CHECK_DEADLOCK FALSE
INVARIANTS
  AsksOnce
  AnswersExact
PROPERTIES
  Converges
