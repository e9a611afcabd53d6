---------------------------- MODULE TunnelServer ----------------------------
(****************************************************************************)
(* The SSH side of the tunnel server: the connections of base-server.ts,    *)
(* the forward requests that ssh/index.ts turns into stored tunnels, and    *)
(* the takeover of a tunnel whose owner no longer answers.                  *)
(*                                                                          *)
(* Every forward request runs as a handler, an async function that is       *)
(* suspended at its awaits; pc[h] says where.  Node runs a callback and the *)
(* microtasks it queues to completion before the next I/O event or timer,   *)
(* so those are guarded by Drained.                                         *)
(****************************************************************************)
EXTENDS TunnelStore, Integers

CONSTANTS
  Conn,        \* SSH connections; a client that reconnects is a new one
  Request,     \* forward request strings
  Handler,     \* slots for forward requests being handled
  Client,      \* client ids, one per public key
  ClientOf,    \* the client of a connection
  KeyOf        \* activeTunnelStoreKey(clientId, path)

\* A stored tunnel names the connection that serves it and the handler whose
\* socket server is its target.  A key ends with the client id, so clients
\* never share one.
ASSUME ServerAssumption ==
  /\ ClientOf \in [Conn -> Client]
  /\ KeyOf \in [Client -> [Request -> Key]]
  /\ \A a, b \in Client : \A q, r \in Request : KeyOf[a][q] = KeyOf[b][r] => a = b
  /\ None \notin Conn \cup Handler \cup Request \cup Key
  /\ Value = [client : Conn, target : Handler]
  /\ Thumbprint = Client
  /\ ThumbprintOf = [t \in Value |-> ClientOf[t.client]]

VARIABLES
  conn,               \* phase of a connection
  hangup,             \* connections on which the server called client.end()
  ping,               \* the memoized ping of a connection
  pc, by, req, rival, tx,   \* the handlers
  socketServers,      \* per connection: request -> its listening handler
  tunnels,            \* per connection: the requests hello lists
  tunnelsGauge, sshConnectionsGauge

connVars == <<conn, hangup, ping, sshConnectionsGauge>>
handlerVars == <<pc, by, req, rival, tx>>
tunnelVars == <<socketServers, tunnels, tunnelsGauge>>
vars == <<storeVars, connVars, handlerVars, tunnelVars>>

-----------------------------------------------------------------------------
(* Handlers *)

\* Suspended in the takeover of a key that another connection holds.
Waiting == {"ping", "awaitDelete", "retry"}

\* The store entry is the handler's: from set until its socket server closes.
Owning == {"accept", "serving", "cancelling", "destroyed"}

\* Listed by hello.
Listed == {"serving", "cancelling", "destroyed"}

\* The socket server of the handler has not closed yet.
Open == Listed \cup {"failed"}

\* The slot can take a request; the last one ended this way.
Free == {"idle", "rejected", "dropped", "released"}

KeyAt(h) == KeyOf[ClientOf[by[h]]][req[h]]

HandlersOf(c) == {h \in Handler : by[h] = c}

\* Microtasks and nextTick callbacks are pending: no I/O event or timer runs.
Drained ==
  /\ adding = {} /\ deleting = {}
  /\ \A h \in Handler : pc[h] \notin {"retry", "accept"}

\* One chunk of data may hold several requests of a connection.  They are
\* emitted together, before the continuations of the first one run.
SameChunk(c) ==
  /\ deleting = {}
  /\ \A h \in Handler : pc[h] # "retry" /\ (pc[h] = "accept" => by[h] = c)

TypeOK ==
  /\ StoreTypeOK
  /\ conn \in [Conn -> {"none", "live", "mute", "errored", "ended", "closed"}]
  /\ hangup \subseteq Conn
  /\ ping \in [Conn -> {"none", "pending", "pong", "error"}]
  /\ pc \in [Handler -> Waiting \cup Owning \cup Open \cup Free]
  /\ by \in [Handler -> Conn \cup {None}]
  /\ req \in [Handler -> Request \cup {None}]
  /\ rival \in [Handler -> Conn \cup {None}]
  /\ tx \in [Handler -> Nat]
  /\ socketServers \in [Conn -> [Request -> Handler \cup {None}]]
  /\ tunnels \in [Conn -> SUBSET Request]
  /\ tunnelsGauge \in [Client -> Int]
  /\ sshConnectionsGauge \in [Client -> Int]

Init ==
  /\ StoreInit
  /\ conn = [c \in Conn |-> "none"]
  /\ hangup = {}
  /\ ping = [c \in Conn |-> "none"]
  /\ pc = [h \in Handler |-> "idle"]
  /\ by = [h \in Handler |-> None]
  /\ req = [h \in Handler |-> None]
  /\ rival = [h \in Handler |-> None]
  /\ tx = [h \in Handler |-> 0]
  /\ socketServers = [c \in Conn |-> [r \in Request |-> None]]
  /\ tunnels = [c \in Conn |-> {}]
  /\ tunnelsGauge = [k \in Client |-> 0]
  /\ sshConnectionsGauge = [k \in Client |-> 0]

-----------------------------------------------------------------------------
(* Setting the tunnel's key, and taking it over *)

\* The handler's request ends as `how`; its slot is free again.
Settle(h, how) ==
  /\ pc' = [pc EXCEPT ![h] = how]
  /\ by' = [by EXCEPT ![h] = None]
  /\ req' = [req EXCEPT ![h] = None]
  /\ rival' = [rival EXCEPT ![h] = None]
  /\ tx' = [tx EXCEPT ![h] = 0]

\* The handler, running request r of connection c, is suspended at `at`.
Suspend(h, c, r, at, other, t) ==
  /\ pc' = [pc EXCEPT ![h] = at]
  /\ by' = [by EXCEPT ![h] = c]
  /\ req' = [req EXCEPT ![h] = r]
  /\ rival' = [rival EXCEPT ![h] = other]
  /\ tx' = [tx EXCEPT ![h] = t]

\* end() of a connection, a no-op after 'end' was emitted; on a closed
\* connection client.end() has no effect.
HangUp(c) ==
  hangup' = IF conn[c] \in {"ended", "closed"} THEN hangup ELSE hangup \cup {c}

\* Mutant of TrySet: the entry that is in the way is overwritten.
TrySetOver(h, c, r) ==
  LET k == KeyOf[ClientOf[c]][r]
      e == [tx |-> nextTx, value |-> [client |-> c, target |-> h]] IN
  /\ map' = [map EXCEPT ![k] = e]
  /\ nextTx' = nextTx + 1
  /\ adding' = adding \cup {RefOf(k, e)}
  /\ Suspend(h, c, r, "accept", None, nextTx)
  /\ UNCHANGED <<index, deleting, hangup, ping>>

\* Store the tunnel, or decide on the entry that is in the way: a tunnel of
\* the same connection rejects the request, and so does one of another
\* connection that answers a ping.  ping() returns its memoized promise for
\* REKEY_TIMEOUT, also when that has resolved.
TrySet(h, c, r) ==
  LET k == KeyOf[ClientOf[c]][r]
      other == map[k].value.client IN
  \/ /\ ~Stored(k)
     /\ StoreSet(k, [client |-> c, target |-> h])
     /\ Suspend(h, c, r, "accept", None, nextTx)
     /\ UNCHANGED <<hangup, ping>>
  \/ /\ Stored(k)
     /\ UNCHANGED storeVars
     /\ \/ /\ other = c \/ ping[other] = "pong"
           /\ Settle(h, "rejected")
           /\ UNCHANGED <<hangup, ping>>
        \/ /\ other # c /\ ping[other] \in {"none", "pending"}
           /\ Suspend(h, c, r, "ping", other, map[k].tx)
           /\ ping' = [ping EXCEPT ![other] = "pending"]
           /\ UNCHANGED hangup
        \/ /\ other # c /\ ping[other] = "error"
           /\ Suspend(h, c, r, "awaitDelete", other, map[k].tx)
           /\ HangUp(other)
           /\ UNCHANGED ping

\* The bound on transactions leaves room for the handlers that wait.
TxRoom == nextTx + Cardinality({h \in Handler : pc[h] \in Waiting}) < MaxTx

\* Mutant of Forward: no check for a socket server of the same request.
ForwardUnchecked(c, r, h) ==
  /\ SameChunk(c)
  /\ conn[c] = "live"
  /\ pc[h] \in Free
  /\ TxRoom
  /\ TrySet(h, c, r)
  /\ UNCHANGED <<conn, sshConnectionsGauge, tunnelVars>>

\* A streamlocal-forward request.  A request that already has a socket
\* server is rejected at once.
Forward(c, r, h) ==
  /\ SameChunk(c)
  /\ conn[c] = "live"
  /\ pc[h] \in Free
  /\ \/ /\ socketServers[c][r] # None
        /\ Settle(h, "rejected")
        /\ UNCHANGED <<storeVars, hangup, ping>>
     \/ /\ socketServers[c][r] = None
        /\ TxRoom
        /\ TrySet(h, c, r)
  /\ UNCHANGED <<conn, sshConnectionsGauge, tunnelVars>>

\* The 'delete' event resumes the handlers that wait for it.
DeleteEvent(r) ==
  /\ EmitDelete(r)
  /\ pc' = [h \in Handler |->
       IF pc[h] = "awaitDelete" /\ tx[h] = r.tx THEN "retry" ELSE pc[h]]
  /\ UNCHANGED <<by, req, rival, tx, connVars, tunnelVars>>

\* The continuation of the store's set.
Indexed(r) ==
  /\ AddToIndex(r)
  /\ UNCHANGED <<connVars, handlerVars, tunnelVars>>

Retry(h) ==
  /\ pc[h] = "retry"
  /\ TrySet(h, by[h], req[h])
  /\ UNCHANGED <<conn, sshConnectionsGauge, tunnelVars>>

\* The watcher's 'delete' did not come within two seconds.
DeleteTimeout(h) ==
  /\ Drained
  /\ pc[h] = "awaitDelete"
  /\ Settle(h, "rejected")
  /\ UNCHANGED <<storeVars, connVars, tunnelVars>>

-----------------------------------------------------------------------------
(* Socket servers *)

\* The socket server listens.  The connection may have ended or closed while
\* the handler waited; accept() does not look.
Listening(h) ==
  /\ pc[h] = "accept"
  /\ \A r \in adding : r.tx # tx[h]
  /\ pc' = [pc EXCEPT ![h] = "serving"]
  /\ socketServers' = [socketServers EXCEPT ![by[h]][req[h]] = h]
  /\ tunnels' = [tunnels EXCEPT ![by[h]] = @ \cup {req[h]}]
  /\ tunnelsGauge' = [tunnelsGauge EXCEPT ![ClientOf[by[h]]] = @ + 1]
  /\ UNCHANGED <<storeVars, connVars, by, req, rival, tx>>

\* Mutant of ListenFails: the tunnel that was set is left in the store.
ListenFailsUnstored(h) ==
  /\ pc[h] = "accept"
  /\ \A r \in adding : r.tx # tx[h]
  /\ Settle(h, "dropped")
  /\ UNCHANGED <<storeVars, connVars, tunnelVars>>

\* The socket server fails to listen: the tunnel is deleted again, and the
\* request is neither accepted nor rejected.
ListenFails(h) ==
  /\ pc[h] = "accept"
  /\ \A r \in adding : r.tx # tx[h]
  /\ StoreDelete(KeyAt(h), tx[h])
  /\ Settle(h, "dropped")
  /\ UNCHANGED <<connVars, tunnelVars>>

\* Mutant of CleanupTunnel: the tunnel stays in the hello map.
CleanupTunnelKeepListed(h) ==
  /\ StoreDelete(KeyAt(h), tx[h])
  /\ tunnelsGauge' = [tunnelsGauge EXCEPT ![ClientOf[by[h]]] = @ - 1]
  /\ UNCHANGED tunnels

\* cleanupTunnel, which runs once per tunnel.
CleanupTunnel(h) ==
  /\ tunnels' = [tunnels EXCEPT ![by[h]] = @ \ {req[h]}]
  /\ StoreDelete(KeyAt(h), tx[h])
  /\ tunnelsGauge' = [tunnelsGauge EXCEPT ![ClientOf[by[h]]] = @ - 1]

\* cancel-streamlocal-forward closes the socket server; its open streams
\* hold up the 'close' event.  Without a socket server it is rejected.
Cancel(c, r) ==
  /\ SameChunk(c)
  /\ conn[c] = "live"
  /\ socketServers[c][r] # None
  /\ pc[socketServers[c][r]] = "serving"
  /\ pc' = [pc EXCEPT ![socketServers[c][r]] = "cancelling"]
  /\ UNCHANGED <<storeVars, connVars, by, req, rival, tx, tunnelVars>>

\* A listening socket server emits 'error': it is destroyed, and the tunnel
\* is cleaned up before the server has closed.
SocketError(h) ==
  /\ Drained
  /\ pc[h] = "serving"
  /\ pc' = [pc EXCEPT ![h] = "failed"]
  /\ CleanupTunnel(h)
  /\ UNCHANGED <<connVars, by, req, rival, tx, socketServers>>

\* 'close' of a socket server: base-server.ts forgets it, and ssh/index.ts
\* cleans the tunnel up unless 'error' did.
SocketClose(h) ==
  /\ Drained
  /\ pc[h] \in Open \ {"serving"}
  /\ socketServers' = [socketServers EXCEPT ![by[h]][req[h]] = None]
  /\ IF pc[h] = "failed"
     THEN UNCHANGED <<storeVars, tunnels, tunnelsGauge>>
     ELSE CleanupTunnel(h)
  /\ Settle(h, "released")
  /\ UNCHANGED connVars

-----------------------------------------------------------------------------
(* Connections *)

\* 'ready': the client is announced and counted.
Connect(c) ==
  /\ Drained
  /\ conn[c] = "none"
  /\ conn' = [conn EXCEPT ![c] = "live"]
  /\ sshConnectionsGauge' = [sshConnectionsGauge EXCEPT ![ClientOf[c]] = @ + 1]
  /\ UNCHANGED <<storeVars, hangup, ping, handlerVars, tunnelVars>>

\* The other side disappears without a word.
GoMute(c) ==
  /\ Drained
  /\ conn[c] = "live"
  /\ conn' = [conn EXCEPT ![c] = "mute"]
  /\ UNCHANGED <<storeVars, hangup, ping, sshConnectionsGauge, handlerVars, tunnelVars>>

Pinging(h, c) == pc[h] = "ping" /\ rival[h] = c

\* The rekey completes: whoever waits for the ping gives up its request.
PingAnswered(c) ==
  /\ Drained
  /\ conn[c] = "live" /\ ping[c] = "pending"
  /\ ping' = [ping EXCEPT ![c] = "pong"]
  /\ pc' = [h \in Handler |-> IF Pinging(h, c) THEN "rejected" ELSE pc[h]]
  /\ by' = [h \in Handler |-> IF Pinging(h, c) THEN None ELSE by[h]]
  /\ req' = [h \in Handler |-> IF Pinging(h, c) THEN None ELSE req[h]]
  /\ rival' = [h \in Handler |-> IF Pinging(h, c) THEN None ELSE rival[h]]
  /\ tx' = [h \in Handler |-> IF Pinging(h, c) THEN 0 ELSE tx[h]]
  /\ UNCHANGED <<storeVars, conn, hangup, sshConnectionsGauge, tunnelVars>>

\* The ping fails: whoever waits for it tells the connection to end and
\* waits for the entry it saw to be deleted, which it may have been already.
PingFails(c) ==
  /\ ping' = [ping EXCEPT ![c] = "error"]
  /\ pc' = [h \in Handler |-> IF Pinging(h, c) THEN "awaitDelete" ELSE pc[h]]
  /\ UNCHANGED <<by, req, rival, tx>>

\* Mutant of PingTimeout: the tunnels of the connection are deleted at once,
\* before its socket servers have closed.
PingTimeoutDeletes(c) ==
  LET lost == {k \in Key : Stored(k) /\ map[k].value.client = c} IN
  /\ Drained
  /\ ping[c] = "pending"
  /\ PingFails(c)
  /\ HangUp(c)
  /\ map' = [k \in Key |-> IF k \in lost THEN None ELSE map[k]]
  /\ deleting' = {RefOf(k, map[k]) : k \in lost}
  /\ UNCHANGED <<nextTx, index, adding, conn, sshConnectionsGauge, tunnelVars>>

\* No answer within REKEY_TIMEOUT, from a dead peer or from a slow one.
PingTimeout(c) ==
  /\ Drained
  /\ ping[c] = "pending"
  /\ PingFails(c)
  /\ HangUp(c)
  /\ UNCHANGED <<storeVars, conn, sshConnectionsGauge, tunnelVars>>

\* The memoized ping is older than REKEY_TIMEOUT.
PingExpires(c) ==
  /\ Drained
  /\ ping[c] \in {"pong", "error"}
  /\ ping' = [ping EXCEPT ![c] = "none"]
  /\ UNCHANGED <<storeVars, conn, hangup, sshConnectionsGauge, handlerVars, tunnelVars>>

\* cleanupClient, on the first of 'error' and 'end'.
CleanupClient(c) ==
  sshConnectionsGauge' = IF conn[c] \in {"live", "mute"}
    THEN [sshConnectionsGauge EXCEPT ![ClientOf[c]] = @ - 1]
    ELSE sshConnectionsGauge

\* 'error', which the keepalive also emits when the peer stops answering.
\* It fails a ping under way too, and the server ends the connection.
ClientError(c) ==
  /\ Drained
  /\ conn[c] \in {"live", "mute"}
  /\ conn' = [conn EXCEPT ![c] = "errored"]
  /\ HangUp(c)
  /\ CleanupClient(c)
  /\ IF ping[c] = "pending" THEN PingFails(c) ELSE UNCHANGED <<ping, handlerVars>>
  /\ UNCHANGED <<storeVars, tunnelVars>>

\* destroySocketServer of every socket server of the connection.
DestroySocketServers(c) ==
  pc' = [h \in Handler |->
    IF by[h] = c /\ pc[h] \in {"serving", "cancelling"} THEN "destroyed" ELSE pc[h]]

ClientEnd(c) ==
  /\ Drained
  /\ conn[c] \in {"live", "errored"}
  /\ conn' = [conn EXCEPT ![c] = "ended"]
  /\ CleanupClient(c)
  /\ DestroySocketServers(c)
  /\ UNCHANGED <<storeVars, hangup, ping, by, req, rival, tx, tunnelVars>>

\* Mutant of ClientClose: the socket servers watch for 'end' only.
ClientCloseKeeps(c) ==
  /\ Drained
  /\ conn[c] \in {"errored", "ended"}
  /\ conn' = [conn EXCEPT ![c] = "closed"]
  /\ UNCHANGED <<storeVars, hangup, ping, sshConnectionsGauge, handlerVars, tunnelVars>>

ClientClose(c) ==
  /\ Drained
  /\ conn[c] \in {"errored", "ended"}
  /\ conn' = [conn EXCEPT ![c] = "closed"]
  /\ DestroySocketServers(c)
  /\ UNCHANGED <<storeVars, hangup, ping, sshConnectionsGauge, by, req, rival, tx, tunnelVars>>

-----------------------------------------------------------------------------
Microtask ==
  \/ \E r \in adding : Indexed(r)
  \/ \E r \in deleting : DeleteEvent(r)
  \/ \E h \in Handler : Retry(h) \/ Listening(h) \/ ListenFails(h)

Next ==
  \/ Microtask
  \/ \E c \in Conn, r \in Request, h \in Handler : Forward(c, r, h)
  \/ \E c \in Conn, r \in Request : Cancel(c, r)
  \/ \E h \in Handler : DeleteTimeout(h) \/ SocketError(h) \/ SocketClose(h)
  \/ \E c \in Conn :
       \/ Connect(c) \/ GoMute(c)
       \/ PingAnswered(c) \/ PingTimeout(c) \/ PingExpires(c)
       \/ ClientError(c) \/ ClientEnd(c) \/ ClientClose(c)

\* The event loop runs what is queued; timers fire; a destroyed server
\* closes; the keepalive reports a mute peer; a connection that is told to
\* end, or has errored, ends and closes.  Nothing else is promised: peers
\* need not send, answer or disconnect, and a cancelled socket server may
\* wait for its streams for ever.
Fairness ==
  /\ WF_vars(Microtask)
  /\ \A h \in Handler :
       /\ WF_vars(DeleteTimeout(h))
       /\ WF_vars(pc[h] \in {"failed", "destroyed"} /\ SocketClose(h))
  /\ \A c \in Conn :
       /\ WF_vars(PingTimeout(c))
       /\ WF_vars(conn[c] = "mute" /\ ClientError(c))
       /\ WF_vars(c \in hangup /\ conn[c] = "live" /\ ClientEnd(c))
       /\ WF_vars(ClientClose(c))

Spec == Init /\ [][Next]_vars /\ Fairness

-----------------------------------------------------------------------------
(* Properties *)

\* What the handlers and the store amount to: the routes of TunnelRouting.
route == [k \in Key |-> IF Stored(k) THEN map[k].value.target ELSE None]
asking == [h \in Handler |-> IF pc[h] \in Waiting THEN KeyAt(h) ELSE None]

Routing == INSTANCE TunnelRouting
  WITH Key <- Key, Handler <- Handler, None <- None, route <- route, asking <- asking

\* Through every takeover, failure and disconnection the server implements
\* its routing promise: a free key is granted to a request that asks for it,
\* and a granted one is released before another request has it; a request
\* waits for one key and has none meanwhile (sshServer in ssh/index.ts).
ImplementsRouting == Routing!RoutingSafety

\* A stored tunnel always points at a handler that has set it and whose
\* socket server has not closed, and such a handler's tunnel is always
\* stored: the proxy never routes to a closed socket, no listening socket
\* is unreachable, and a late cleanup never removes a successor's tunnel.
Owns(h, k) ==
  /\ pc[h] \in Owning
  /\ by[h] = map[k].value.client
  /\ KeyAt(h) = k
  /\ tx[h] = map[k].tx

OwnerExact ==
  /\ \A k \in Key : Stored(k) => Owns(map[k].value.target, k)
  /\ \A h \in Handler : pc[h] \in Owning =>
       Stored(KeyAt(h)) /\ map[KeyAt(h)].value.target = h

\* The registry of socket servers, which cancel and the check for duplicate
\* requests use, holds exactly the servers that have not closed: the
\* unconditional set and delete of base-server.ts never hit another's.
Serves(h, c, r) == pc[h] \in Open /\ by[h] = c /\ req[h] = r

SocketServersExact ==
  /\ \A c \in Conn, r \in Request :
       socketServers[c][r] # None => Serves(socketServers[c][r], c, r)
  /\ \A h \in Handler : pc[h] \in Open => socketServers[by[h]][req[h]] = h

\* hello lists exactly the requests of the connection whose tunnels are
\* stored and listening.
HelloExact ==
  \A c \in Conn :
    tunnels[c] = {req[h] : h \in {g \in HandlersOf(c) : pc[g] \in Listed}}

\* A tunnel is never taken from a socket server that goes on listening: its
\* entry changes only by its removal, when its server failed or closed.
NoSteal ==
  [][\A k \in Key : (Stored(k) /\ map'[k] # map[k]) =>
       /\ map'[k] = None
       /\ pc'[map[k].value.target] \in {"dropped", "failed", "released"}]_vars

\* The tunnels a connection has when its peer disappears are removed: its
\* keys become free although no one says goodbye.
DeadTunnelsReclaimed ==
  \A c \in Conn, h \in Handler :
    (conn[c] = "mute" /\ pc[h] \in Open /\ by[h] = c) ~> (pc[h] \in Free)
=============================================================================
