----------------------------- MODULE TunnelAgent -----------------------------
(****************************************************************************)
(* The compose tunnel agent: it follows the containers that docker lists    *)
(* and keeps the forwards of its SSH connection in line with them, one      *)
(* update at a time, and it tells the CLI which tunnels there are.          *)
(*                                                                          *)
(* Docker and the tunnel server are external.  The server answers a forward *)
(* with a refusal when another connection holds the path, or not at all     *)
(* when its socket does not listen (TunnelServer: Forward, ListenFails).  A *)
(* cancel it answers when the socket server has closed, and open streams    *)
(* hold that off for as long as they last (TunnelServer: Cancel).  The      *)
(* replies of one connection arrive in the order of its calls.              *)
(****************************************************************************)
EXTENDS Naturals, FiniteSets, SequencesExt

CONSTANTS
  Request,      \* forward request strings
  Path,         \* tunnel names
  PathOf,       \* the tunnel of a request
  Api,          \* the request of the agent's own service
  None,         \* no state yet
  MaxChanges, MaxFaults, MaxListings, MaxQueue   \* bounds

ASSUME AgentAssumption ==
  /\ Api \in Request
  /\ PathOf \in [Request -> Path]
  /\ MaxChanges \in Nat /\ MaxFaults \in Nat
  /\ MaxListings \in Nat \ {0} /\ MaxQueue \in Nat \ {0}
  /\ \A S \in SUBSET Request : None # S

\* A service is public or private, never both: one request per tunnel.  The
\* agent is one of the services, and docker lists finitely many.
Services == {S \in SUBSET Request :
  /\ Api \in S /\ IsFiniteSet(S)
  /\ \A q, r \in S : PathOf[q] = PathOf[r] => q = r}

VARIABLES
  services,     \* the requests of the containers that exist
  event,        \* the throttled event handler is due
  listings,     \* listContainers calls in flight
  overtaken,    \* docker has answered a listing after a later one
  up,           \* the agent's process runs and is connected
  queue,        \* plimit(1): updates that wait, the running one first
  stage,        \* where the running update is suspended
  inserts,      \* what it creates when its deletes are done
  haveChanges,
  calls,        \* forward and unforward calls without a reply
  forwards,     \* currentForwards
  state,        \* the tunnels of the last hello
  absorbed,     \* an update failed and only an API request noticed
  answer,       \* the last result /tunnels could give
  listening,    \* the server: requests with a socket server of this connection
  changes, faults   \* counters of the bounds

docker == <<services, changes>>
lists == <<event, listings, overtaken>>
update == <<queue, stage, inserts, haveChanges, answer>>
tunnels == <<calls, forwards, state, absorbed, listening>>
vars == <<docker, lists, up, update, tunnels, faults>>

Call == [op : {"forward", "unforward"}, req : Request, mine : BOOLEAN,
         reply : {"none", "waiting", "closing", "ok", "fail", "never"}]

TypeOK ==
  /\ services \in Services
  /\ event \in BOOLEAN /\ overtaken \in BOOLEAN /\ up \in BOOLEAN
  /\ Len(listings) <= MaxListings /\ Len(queue) <= MaxQueue
  /\ \A i \in DOMAIN listings : listings[i] \in [done : BOOLEAN, found : Services]
  /\ \A i \in DOMAIN queue : queue[i] \in [want : Services, awaited : BOOLEAN]
  /\ stage \in {"idle", "deletes", "creates", "hello"}
  /\ inserts \subseteq Request
  /\ haveChanges \in BOOLEAN
  /\ \A i \in DOMAIN calls : calls[i] \in Call
  /\ forwards \subseteq Request
  /\ state = None \/ state \subseteq Request
  /\ absorbed \in BOOLEAN
  /\ answer = None \/ answer \in [want : Services, tunnels : SUBSET Request]
  /\ listening \subseteq Request
  /\ changes \in 0 .. MaxChanges /\ faults \in 0 .. MaxFaults

Asked == [done |-> FALSE, found |-> {Api}]

\* What main() sets up when the process starts: a first listing for the
\* initial state, and the call that startListening makes to the handler.
Init ==
  /\ services \in Services
  /\ event = TRUE
  /\ listings = <<Asked>> /\ overtaken = FALSE
  /\ up = TRUE
  /\ queue = <<>> /\ stage = "idle" /\ inserts = {} /\ haveChanges = FALSE
  /\ calls = <<>> /\ forwards = {} /\ state = None
  /\ absorbed = FALSE /\ answer = None
  /\ listening = {}
  /\ changes = 0 /\ faults = 0

-----------------------------------------------------------------------------
(* The process *)

\* The process exits, and its connection with it; the server forgets what
\* the connection served.
Exit ==
  /\ up' = FALSE
  /\ event' = FALSE /\ listings' = <<>> /\ overtaken' = FALSE
  /\ queue' = <<>> /\ stage' = "idle" /\ inserts' = {} /\ haveChanges' = FALSE
  /\ calls' = <<>> /\ forwards' = {} /\ state' = None
  /\ absorbed' = FALSE /\ answer' = None
  /\ listening' = {}

\* restart: always
Restart ==
  /\ ~up
  /\ up' = TRUE
  /\ event' = TRUE /\ listings' = <<Asked>>
  /\ UNCHANGED <<docker, overtaken, update, tunnels, faults>>

Stuck == calls # <<>> /\ Head(calls).reply \in {"never", "closing"}

\* 'close' of the SSH client.  As long as a call is not answered the replies to
\* the keepalives queue up behind it, and they give up.
ConnectionLost ==
  /\ up
  /\ \/ Stuck /\ UNCHANGED faults
     \/ faults < MaxFaults /\ faults' = faults + 1
  /\ Exit
  /\ UNCHANGED docker

-----------------------------------------------------------------------------
(* Docker *)

\* A container event; create and start of a container are two, and the
\* second changes nothing that the agent sees.
Change(S) ==
  /\ changes < MaxChanges
  /\ services' = S
  /\ changes' = changes + 1
  /\ event' = up
  /\ UNCHANGED <<listings, overtaken, up, update, tunnels, faults>>

\* Mutant of ListServices: an event during a listing is dropped.
ListNoTrailing ==
  /\ event
  /\ event' = FALSE
  /\ listings' = IF listings = <<>> THEN <<Asked>> ELSE listings
  /\ UNCHANGED <<docker, overtaken, up, update, tunnels, faults>>

\* The throttled handler asks docker for the containers.
ListServices ==
  /\ event
  /\ Len(listings) < MaxListings
  /\ event' = FALSE
  /\ listings' = Append(listings, Asked)
  /\ UNCHANGED <<docker, overtaken, up, update, tunnels, faults>>

\* Docker need not answer in turn.
Overtakes(i) == overtaken' = (overtaken \/ i # 1)

DockerLists(i) ==
  /\ ~listings[i].done
  /\ Overtakes(i)
  /\ listings' = [listings EXCEPT ![i] = [done |-> TRUE, found |-> services]]
  /\ UNCHANGED <<docker, event, up, update, tunnels, faults>>

\* The listing arrives: onChange starts an update, which becomes the
\* current state.
OnChange(i) ==
  /\ listings[i].done
  /\ Overtakes(i)
  /\ Len(queue) < MaxQueue
  /\ listings' = RemoveAt(listings, i)
  /\ queue' = Append(queue, [want |-> listings[i].found, awaited |-> FALSE])
  /\ UNCHANGED <<docker, event, up, stage, inserts, haveChanges, answer, tunnels, faults>>

\* An API request, which comes through the agent's own tunnel, awaits the
\* current state, the last update that was started.
Read ==
  /\ Api \in listening
  /\ queue # <<>> /\ ~Last(queue).awaited
  /\ queue' = [queue EXCEPT ![Len(queue)].awaited = TRUE]
  /\ UNCHANGED <<docker, lists, up, stage, inserts, haveChanges, answer, tunnels, faults>>

-----------------------------------------------------------------------------
(* updateTunnels *)

\* The calls for a set of requests, made in the order of docker's list.
Make(op, S) ==
  \E order \in SetToSeqs(S) :
    calls' = calls \o [i \in DOMAIN order |->
      [op |-> op, req |-> order[i], mine |-> TRUE, reply |-> "none"]]

\* All calls that the running update made have their reply.
Awaited == \A i \in DOMAIN calls : ~calls[i].mine

\* Mutant of Changed: only new requests count.
ChangedInserts(ins, deletes) == ins # {}

Changed(ins, deletes) == ins # {} \/ deletes # {}

\* The update computes its differences and calls for the deletes.
Begin ==
  LET want == Head(queue).want
      deletes == forwards \ want IN
  /\ queue # <<>> /\ stage = "idle"
  /\ stage' = "deletes"
  /\ inserts' = want \ forwards
  /\ haveChanges' = Changed(want \ forwards, deletes)
  /\ Make("unforward", deletes)
  /\ UNCHANGED <<docker, lists, up, queue, answer, forwards, state, absorbed,
                 listening, faults>>

\* Mutant of DeletesDone: the deletes are not awaited.
DeletesNotAwaited ==
  /\ stage = "deletes"
  /\ stage' = "creates"
  /\ Make("forward", inserts)
  /\ UNCHANGED <<docker, lists, up, queue, inserts, haveChanges, answer,
                 forwards, state, absorbed, listening, faults>>

DeletesDone ==
  /\ stage = "deletes" /\ Awaited
  /\ stage' = "creates"
  /\ Make("forward", inserts)
  /\ UNCHANGED <<docker, lists, up, queue, inserts, haveChanges, answer,
                 forwards, state, absorbed, listening, faults>>

\* The update resolves with the tunnels of the last hello.
Resolve(found) ==
  /\ stage' = "idle" /\ inserts' = {} /\ haveChanges' = FALSE
  /\ answer' = [want |-> Head(queue).want, tunnels |-> found]
  /\ queue' = Tail(queue)

CreatesDone ==
  /\ stage = "creates" /\ Awaited
  /\ IF haveChanges \/ state = None
     THEN stage' = "hello" /\ UNCHANGED <<queue, inserts, haveChanges, answer>>
     ELSE Resolve(state)
  /\ UNCHANGED <<docker, lists, up, tunnels, faults>>

\* The update rejects.  An API request that awaits it answers with an error;
\* with no one to handle the rejection the process exits.  Calls that are
\* still without a reply are no longer awaited.
Reject(rest, known) ==
  IF Head(queue).awaited
  THEN /\ queue' = Tail(queue)
       /\ stage' = "idle" /\ inserts' = {} /\ haveChanges' = FALSE
       /\ calls' = [i \in DOMAIN rest |-> [rest[i] EXCEPT !.mine = FALSE]]
       /\ forwards' = known
       /\ absorbed' = TRUE
       /\ UNCHANGED <<lists, up, state, answer, listening>>
  ELSE Exit

\* hello lists what the server serves; a request that is not among the
\* forwards makes the update fail.
Hello ==
  /\ stage = "hello"
  /\ IF listening \subseteq forwards
     THEN /\ state' = listening
          /\ Resolve(listening)
          /\ UNCHANGED <<lists, up, calls, forwards, absorbed, listening>>
     ELSE Reject(calls, forwards)
  /\ UNCHANGED <<docker, faults>>

\* currentForwards after the reply to a call; a forward that failed is
\* recorded nevertheless.
Known(c) ==
  IF c.op = "forward" THEN forwards \cup {c.req} ELSE forwards \ {c.req}

\* The reply makes the running update reject.
Fails(c) == c.op = "forward" /\ c.reply = "fail" /\ c.mine

\* The callback of a call.
Replied ==
  LET c == Head(calls) IN
  /\ calls # <<>> /\ c.reply \in {"ok", "fail"}
  /\ IF Fails(c)
     THEN Reject(Tail(calls), Known(c))
     ELSE /\ calls' = Tail(calls)
          /\ forwards' = Known(c)
          /\ UNCHANGED <<lists, up, update, state, absorbed, listening>>
  /\ UNCHANGED <<docker, faults>>

-----------------------------------------------------------------------------
(* The tunnel server *)

Answer(i, reply) ==
  /\ calls' = [calls EXCEPT ![i].reply = reply]
  /\ UNCHANGED <<docker, lists, up, update, forwards, state, absorbed>>

\* The server reads the calls of a connection in order.
Received(i) ==
  /\ calls[i].reply = "none"
  /\ \A j \in 1 .. (i - 1) : calls[j].reply # "none"

ServesPath(p) == \E r \in listening : PathOf[r] = p

\* A path that the connection serves already is refused.
ServerForwards(i) ==
  LET r == calls[i].req IN
  /\ calls[i].op = "forward"
  /\ Received(i) \/ calls[i].reply = "waiting"
  /\ IF ServesPath(PathOf[r])
     THEN Answer(i, "fail") /\ UNCHANGED listening
     ELSE Answer(i, "ok") /\ listening' = listening \cup {r}
  /\ UNCHANGED faults

\* Another connection has the path, and keeps it or is asked for it, or the
\* socket does not listen.
ServerFaults(i) ==
  /\ faults < MaxFaults
  /\ faults' = faults + 1
  /\ calls[i].op = "forward" /\ Received(i) /\ ~ServesPath(PathOf[calls[i].req])
  /\ \E reply \in {"fail", "waiting", "never"} : Answer(i, reply)
  /\ UNCHANGED listening

\* The other connection turns out to keep the path.
ServerRefuses(i) ==
  /\ calls[i].reply = "waiting"
  /\ Answer(i, "fail")
  /\ UNCHANGED <<listening, faults>>

\* A cancel closes the socket server, which stays registered, and listed by
\* hello, until its streams have ended.  The reply waits for that.
ServerUnforwards(i) ==
  /\ calls[i].op = "unforward" /\ Received(i)
  /\ Answer(i, IF calls[i].req \in listening THEN "closing" ELSE "fail")
  /\ UNCHANGED <<listening, faults>>

\* The last of the streams has ended, if they ever do: 'close' of the socket
\* server.
SocketServerCloses(i) ==
  /\ calls[i].reply = "closing"
  /\ Answer(i, "ok")
  /\ listening' = listening \ {calls[i].req}
  /\ UNCHANGED faults

-----------------------------------------------------------------------------
Server == \E i \in DOMAIN calls :
  ServerForwards(i) \/ ServerRefuses(i) \/ ServerUnforwards(i)

Docker == \E i \in DOMAIN listings : DockerLists(i) \/ OnChange(i)

UpdateStep == Begin \/ DeletesDone \/ CreatesDone \/ Hello \/ Replied

Next ==
  \/ \E S \in Services : Change(S)
  \/ ListServices \/ Docker \/ Read
  \/ UpdateStep
  \/ Server
  \/ \E i \in DOMAIN calls : ServerFaults(i) \/ SocketServerCloses(i)
  \/ ConnectionLost \/ Restart

\* Docker and the server answer, timers fire and the agent's callbacks run,
\* keepalives give up on a stuck connection, and docker restarts the agent.
\* Nothing ends the streams of a socket server that is closing.
Fairness ==
  /\ WF_vars(ListServices) /\ WF_vars(Docker)
  /\ WF_vars(UpdateStep) /\ WF_vars(Server)
  /\ WF_vars(Stuck /\ ConnectionLost) /\ WF_vars(Restart)

Spec == Init /\ [][Next]_vars /\ Fairness

-----------------------------------------------------------------------------
(* Properties *)

\* tunnel-client.ts deletes first: a service that moves between public and
\* private never has its new request refused because of its own old one.
AsksOnce ==
  ~absorbed => \A i \in DOMAIN calls :
    (calls[i].op = "forward" /\ calls[i].reply \in {"none", "waiting"}) =>
      /\ ~ServesPath(PathOf[calls[i].req])
      /\ \A j \in DOMAIN calls \ {i} : PathOf[calls[j].req] # PathOf[calls[i].req]

\* /tunnels never answers with tunnels of another listing than the one whose
\* services it reports as running.
AnswersExact ==
  (answer # None /\ ~absorbed) => answer.tunnels = answer.want

\* When containers stop changing and paths stop being refused, the server
\* serves what docker lists, after lost connections and restarts too, unless
\* listings have overtaken each other or only an API request has noticed that
\* an update failed.  A delete that open streams hold off for ever holds off the
\* updates behind it only until the keepalives give up on the connection.
Converges == <>[](up /\ (listening = services \/ overtaken \/ absorbed))
=============================================================================
