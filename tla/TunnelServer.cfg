\* Two connections of one client compete for one path, asked for in two ways.
SPECIFICATION Spec
CONSTANTS
  c1 = c1
  c2 = c2
  c3 = c3
  public = public
  private = private
  second = second
  cl = cl
  Conn = {c1, c2}
  Request = {public, private}
  Handler = {h1, h2}
  Client = {cl}
  Key = {"path"}
  ClientOf <- OneClient
  KeyOf <- PathKeys
  Value <- Tunnels
  Thumbprint = {cl}
  ThumbprintOf <- TunnelClient
  None = None
  MaxTx = 3
\* The instance stops when both connections are closed: they are used once.
CHECK_DEADLOCK FALSE
INVARIANTS
  OwnerExact
  SocketServersExact
  HelloExact
  IndexExact
PROPERTIES
  NoSteal
  ImplementsRouting
  DeadTunnelsReclaimed
