------------------------------ MODULE AgentApi -------------------------------
(****************************************************************************)
(* The API of the compose tunnel agent for the containers of its project:   *)
(* who may be inspected, stopped and started, the logs and the commands     *)
(* that are streamed over web sockets, and the status of the machine.       *)
(* Docker is external.  A call is a member of Caller with its connection.   *)
(****************************************************************************)
EXTENDS Naturals, FiniteSets

CONSTANTS
  Caller,
  Container,
  NoContainer,
  ProjectOf,        \* the Compose project of a container, or "none"
  ComposeProject    \* the one the agent is for, or "any"

VARIABLES
  running,          \* the containers that run
  image,            \* the machine has the image of the status command
  call,             \* per caller
  stream,           \* per caller: its stream with Docker, or its container
  early             \* history: callers that left before anybody listened for it

apiVars == <<running, image, call, stream, early>>

NoCall == [at |-> "idle", kind |-> "none", container |-> NoContainer, connected |-> FALSE]

ApiInit ==
  /\ running \in SUBSET Container
  /\ image \in BOOLEAN
  /\ call = [c \in Caller |-> NoCall]
  /\ stream = [c \in Caller |-> NoContainer]
  /\ early = {}

-----------------------------------------------------------------------------
(* Calls *)

Calls(c, stages) == call[c].at \in stages

Comes(c, stage) == call' = [call EXCEPT ![c].at = stage]

Still == UNCHANGED <<running, image>>

adhocFilter(k) ==
  IF ComposeProject = "any" THEN ProjectOf[k] # "none" ELSE ProjectOf[k] = ComposeProject

Call(c, kind, k) ==
  /\ Calls(c, {"idle"})
  /\ call' = [call EXCEPT ![c] =
       [at |-> "asked", kind |-> kind, container |-> k, connected |-> TRUE]]
  /\ early' = early \ {c}
  /\ UNCHANGED stream /\ Still

\* An error of a handler closes the web socket; for other calls it is the answer.
Refused(c) ==
  /\ call' = [call EXCEPT ![c] = NoCall]
  /\ UNCHANGED <<stream, early>> /\ Still

inspectFilteredContainer(c) ==
  /\ Calls(c, {"asked"})
  /\ IF adhocFilter(call[c].container)
     THEN Comes(c, "checked") /\ UNCHANGED <<stream, early>> /\ Still
     ELSE Refused(c)

\* POST /containers/:containerId/stop, start and restart.
Act(c) ==
  /\ Calls(c, {"checked"}) /\ call[c].kind \in {"stop", "start", "restart"}
  /\ running' = IF call[c].kind = "stop" THEN running \ {call[c].container}
                ELSE running \cup {call[c].container}
  /\ call' = [call EXCEPT ![c] = NoCall]
  \* stop and restart end what streams from the container
  /\ stream' = [d \in Caller |->
       IF call[c].kind # "start" /\ stream[d] = call[c].container THEN NoContainer
       ELSE stream[d]]
  /\ UNCHANGED <<image, early>>

createExec(c) ==
  /\ Calls(c, {"checked"}) /\ call[c].kind = "exec"
  /\ IF call[c].container \in running
     THEN Comes(c, "created") /\ UNCHANGED <<stream, early>> /\ Still
     ELSE Refused(c)

\* Whoever listens from now on for the end of the connection.
Listens(c, stage) ==
  /\ stream' = [stream EXCEPT ![c] = call[c].container]
  /\ Comes(c, stage)
  /\ early' = IF call[c].connected THEN early ELSE early \cup {c}
  /\ Still

\* Mutant of startExec: listens once the command has been inspected.
startExecLate(c) ==
  /\ Calls(c, {"created"})
  /\ IF call[c].container \in running
     THEN /\ stream' = [stream EXCEPT ![c] = call[c].container]
          /\ Comes(c, "unheard")
          /\ early' = IF call[c].connected THEN early ELSE early \cup {c}
          /\ Still
     ELSE Refused(c)

startExec(c) ==
  /\ Calls(c, {"created"})
  /\ IF call[c].container \in running THEN Listens(c, "started") ELSE Refused(c)

\* What the caller sent until now has gone nowhere.
Piped(c) ==
  /\ Calls(c, {"started", "unheard"})
  /\ Comes(c, "piped")
  /\ UNCHANGED <<stream, early>> /\ Still

logs(c) ==
  /\ Calls(c, {"checked"}) /\ call[c].kind = "logs"
  /\ Listens(c, "piped")

\* The container is gone, or Docker fails: the socket is closed, and with it the
\* stream, unless it was closed before.
Fails(c) ==
  /\ \/ Calls(c, {"asked", "checked", "created"})
     \/ Calls(c, {"started"}) /\ call[c].connected
  /\ call' = [call EXCEPT ![c] = NoCall]
  /\ stream' = [stream EXCEPT ![c] = NoContainer]
  /\ UNCHANGED early /\ Still

\* The caller leaves.  The close of its socket comes once; when nobody listens
\* yet, the stream that is made later stays.
Hangs(c) ==
  /\ call[c].connected
  /\ IF Calls(c, {"started", "piped"})
     THEN /\ call' = [call EXCEPT ![c] = NoCall]
          /\ stream' = [stream EXCEPT ![c] = NoContainer]
     ELSE /\ call' = [call EXCEPT ![c].connected = FALSE]
          /\ UNCHANGED stream
  /\ UNCHANGED early /\ Still

\* The end of a stream closes the socket of its caller.
StreamEnds(c) ==
  /\ Calls(c, {"piped"}) /\ stream[c] = NoContainer
  /\ call' = [call EXCEPT ![c] = NoCall]
  /\ UNCHANGED <<stream, early>> /\ Still

\* A command, or a container, comes to its end.
ContainerStops(k) ==
  /\ k \in running
  /\ running' = running \ {k}
  /\ stream' = [c \in Caller |-> IF stream[c] = k THEN NoContainer ELSE stream[c]]
  /\ UNCHANGED <<image, call, early>>

-----------------------------------------------------------------------------
(* The status of the machine *)

\* The command runs in a container of its own; without its image, that is pulled.
MachineStatus(c) ==
  /\ Calls(c, {"asked", "again"}) /\ call[c].kind = "status"
  /\ IF image \/ Calls(c, {"again"}) THEN call' = [call EXCEPT ![c] = NoCall]
     ELSE Comes(c, "pull")
  /\ UNCHANGED <<stream, early>> /\ Still

\* Whether or not the pull succeeds, the command is run again, once.
Pull(c) ==
  /\ Calls(c, {"pull"})
  /\ image' \in {image, TRUE}
  /\ Comes(c, "again")
  /\ UNCHANGED <<running, stream, early>>

\* The agent ends, after 5 seconds at the most, and is started again.
Restart ==
  /\ call' = [c \in Caller |-> NoCall]
  /\ stream' = [c \in Caller |-> NoContainer]
  /\ early' = {}
  /\ Still

ApiNext ==
  \/ \E c \in Caller :
       \/ \E kind \in {"exec", "logs", "stop", "start", "restart"}, k \in Container :
            Call(c, kind, k)
       \/ Call(c, "status", NoContainer)
       \/ call[c].kind # "status" /\ inspectFilteredContainer(c)
       \/ Act(c) \/ createExec(c) \/ startExec(c) \/ Piped(c) \/ logs(c)
       \/ Fails(c) \/ Hangs(c) \/ StreamEnds(c)
       \/ MachineStatus(c) \/ Pull(c)
  \/ \E k \in Container : ContainerStops(k)
  \/ Restart

-----------------------------------------------------------------------------
(* Properties *)

\* The agent keeps no stream to Docker for a caller that is gone, in whatever
\* order the steps of the call, the container and the caller come to their ends,
\* but for callers that left while the stream was still being made (the
\* listeners of exec and logs).
StreamsClosed == \A c \in Caller :
  stream[c] # NoContainer => call[c].connected \/ c \in early
=============================================================================
