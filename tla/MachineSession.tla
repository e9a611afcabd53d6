--------------------------- MODULE MachineSession ----------------------------
(****************************************************************************)
(* What a command of the CLI holds while it works with the machine of an    *)
(* environment: connections, the local server that forwards to the Docker   *)
(* of the machine, and the file with the private key for ssh.  The commands *)
(* are up, logs, env metadata and shell, one at a time; the machine is      *)
(* reached over SSH, or is a pod.  What up does with the machine is in      *)
(* MachineLifecycle and Deploy.                                             *)
(****************************************************************************)
EXTENDS Naturals

CONSTANTS
  DockerClient,    \* connections of docker compose to the local server
  MaxTries         \* retries: of connecting to a new machine, and of its first container

VARIABLES
  session,         \* the command
  open,            \* SSH connections that are open, by their number
  forwarder,       \* the connection that the local server is for; 0: there is no server
  wire,            \* the connections of docker compose
  keyFile          \* the file with the private key

machineVars == <<session, open, forwarder, wire, keyFile>>

NoSession == [at |-> "idle", job |-> "none", driver |-> "ssh", conn |-> 0, last |-> 0,
              tries |-> 0, new |-> FALSE, build |-> FALSE]

NoWires == [d \in DockerClient |-> "none"]

MachineInit ==
  /\ session = NoSession
  /\ open = {} /\ forwarder = 0 /\ wire = NoWires
  /\ keyFile = "none"

-----------------------------------------------------------------------------
(* The process *)

Doing(stages) == session.at \in stages

Goes(stage) == session' = [session EXCEPT !.at = stage]

\* An up may find its machine, or create it, and builds images or not.
Runs(job, driver, new, build) ==
  /\ Doing({"idle"})
  /\ job # "up" => ~new /\ ~build
  /\ session' = [NoSession EXCEPT !.at = IF job = "shell" THEN "spawn" ELSE "connect",
                      !.job = job, !.driver = driver, !.new = new, !.build = build,
                      !.tries = MaxTries]
  /\ keyFile' = "none"    \* the directory is a new one
  /\ UNCHANGED <<open, forwarder, wire>>

\* process.exit, or a signal: what the process holds is gone, files are not.
Gone ==
  /\ session' = NoSession
  /\ open' = {} /\ forwarder' = 0 /\ wire' = NoWires
  /\ keyFile' = IF keyFile = "removing" THEN "left" ELSE keyFile

\* Errors of a command end in process.exit.
Breaks ==
  /\ Goes("failed")
  /\ UNCHANGED <<open, forwarder, wire, keyFile>>

ErrorExits == Doing({"failed"}) /\ Gone

Killed == ~Doing({"idle"}) /\ Gone

\* A command that has returned ends when nothing keeps its process alive.
LoopEmpties ==
  /\ Doing({"returned"})
  /\ open = {} /\ forwarder = 0
  /\ Gone

-----------------------------------------------------------------------------
(* Connections *)

\* The connection to a pod is the name of the pod.
Holding(c) == IF session.driver = "ssh" THEN {c} ELSE {}

Usable == Holding(session.conn) \subseteq open

AfterConnect ==
  CASE session.new -> "first container"
    [] session.job = "logs" -> "socket"
    [] OTHER -> "exec"

\* The retry after the last failure comes to nothing, connected or not.
Connects ==
  /\ Doing({"connect", "reconnect"})
  /\ LET c == session.last + 1 IN
     /\ open' = open \cup Holding(c)
     /\ session' = [session EXCEPT !.conn = c, !.last = c,
          !.at = IF Doing({"connect"}) THEN AfterConnect
                 ELSE IF session.tries = 0 THEN "failed" ELSE "first container",
          !.tries = IF Doing({"connect"}) THEN MaxTries ELSE IF @ = 0 THEN 0 ELSE @ - 1]
  /\ UNCHANGED <<forwarder, wire, keyFile>>

\* Only a machine that has just been created is tried again.
Unreached ==
  /\ Doing({"connect", "reconnect"})
  /\ IF Doing({"connect"}) /\ session.new /\ session.tries > 0
     THEN /\ session' = [session EXCEPT !.tries = @ - 1]
          /\ UNCHANGED <<open, forwarder, wire, keyFile>>
     ELSE Breaks

\* The connection ends by itself.  The command is not told; its local server is
\* closed, and with the channels the connections of docker compose.
ConnectionLost(c) ==
  /\ c \in open
  /\ open' = open \ {c}
  /\ IF forwarder = c THEN forwarder' = 0 /\ wire' = NoWires
     ELSE UNCHANGED <<forwarder, wire>>
  /\ UNCHANGED <<session, keyFile>>

\* docker run hello-world, on a new machine.
FirstContainer ==
  /\ Doing({"first container"}) /\ Usable
  /\ Goes("exec")
  /\ UNCHANGED <<open, forwarder, wire, keyFile>>

\* Mutant of FirstContainerFails: connected again, and the old connection kept.
FirstContainerFailsKeeps ==
  /\ Doing({"first container"})
  /\ Goes("reconnect")
  /\ UNCHANGED <<open, forwarder, wire, keyFile>>

FirstContainerFails ==
  /\ Doing({"first container"})
  /\ open' = open \ {session.conn}
  /\ Goes("reconnect")
  /\ UNCHANGED <<forwarder, wire, keyFile>>

-----------------------------------------------------------------------------
(* Commands on the machine *)

\* A channel that closes without the status 0, or without any, is an error.
\* env metadata is done, and its connection is closed.
ExecSucceeds ==
  /\ Doing({"exec"}) /\ Usable
  /\ IF session.job = "metadata" THEN Goes("returned") /\ open' = open \ {session.conn}
     ELSE Goes("socket") /\ UNCHANGED open
  /\ UNCHANGED <<forwarder, wire, keyFile>>

ExecFails == Doing({"exec"}) /\ Breaks

-----------------------------------------------------------------------------
(* Docker *)

\* A server on a free port: it listens whether or not the connection is there.
dockerEnvContext ==
  /\ Doing({"socket"})
  /\ \/ forwarder' = session.conn /\ Goes("compose") /\ UNCHANGED <<open, wire, keyFile>>
     \/ Breaks

\* Without the connection the request for a channel is thrown where nobody catches
\* it, and the client stays connected to nothing.
DockerConnects(d) ==
  /\ forwarder # 0 /\ wire[d] = "none"
  /\ wire' = [wire EXCEPT ![d] = IF Usable THEN "asked" ELSE "stuck"]
  /\ UNCHANGED <<session, open, forwarder, keyFile>>

\* The channel is there, or refused: then the client's connection is ended.
Forwarded(d) ==
  /\ wire[d] = "asked"
  /\ \E w \in {"piped", "none"} : wire' = [wire EXCEPT ![d] = w]
  /\ UNCHANGED <<session, open, forwarder, keyFile>>

Answered(d) ==
  /\ wire[d] = "piped"
  /\ wire' = [wire EXCEPT ![d] = "none"]
  /\ UNCHANGED <<session, open, forwarder, keyFile>>

\* docker compose exits with 0: the server is closed where its context ends, after
\* a build before the files are uploaded.
ComposeEnds ==
  /\ Doing({"compose"})
  /\ \A d \in DockerClient : wire[d] # "stuck"
  /\ forwarder' = 0 /\ wire' = NoWires
  /\ session' = [session EXCEPT !.build = FALSE,
       !.at = CASE session.job = "logs" -> "returned"
                [] session.build -> "exec"
                [] OTHER -> "urls"]
  /\ UNCHANGED <<open, keyFile>>

ComposeFails ==
  /\ Doing({"compose"})
  /\ \A d \in DockerClient : wire[d] # "stuck"
  /\ Breaks

\* The end of up, when its URLs are known: its connection is closed.
UpReturns ==
  /\ Doing({"urls"})
  /\ Goes("returned")
  /\ open' = open \ {session.conn}
  /\ UNCHANGED <<forwarder, wire, keyFile>>

UrlsFail == Doing({"urls"}) /\ Breaks

-----------------------------------------------------------------------------
(* shell *)

\* ssh reads the private key from a file; for a pod there is none.
spawnRemoteCommand ==
  /\ Doing({"spawn"})
  /\ Goes("shell")
  /\ keyFile' = IF session.driver = "ssh" THEN "there" ELSE "none"
  /\ UNCHANGED <<open, forwarder, wire>>

\* There is no ssh on this machine: nobody removes the file.
ShellFails == Doing({"spawn", "shell"}) /\ Breaks

\* The removal of the file is begun, and not waited for.
ShellEnds ==
  /\ Doing({"shell"})
  /\ Goes("shell exits")
  /\ keyFile' = IF keyFile = "there" THEN "removing" ELSE keyFile
  /\ UNCHANGED <<open, forwarder, wire>>

KeyRemoved ==
  /\ keyFile = "removing"
  /\ keyFile' = "none"
  /\ UNCHANGED <<session, open, forwarder, wire>>

\* shell ends with the status or the signal of its command.
ShellExits == Doing({"shell exits"}) /\ Gone

MachineNext ==
  \/ \E job \in {"up", "logs", "metadata", "shell"}, driver \in {"ssh", "pod"},
        new, build \in BOOLEAN : Runs(job, driver, new, build)
  \/ ErrorExits \/ Killed \/ LoopEmpties
  \/ Connects \/ Unreached \/ FirstContainer \/ FirstContainerFails
  \/ \E c \in open : ConnectionLost(c)
  \/ ExecSucceeds \/ ExecFails
  \/ dockerEnvContext \/ ComposeEnds \/ ComposeFails \/ UpReturns \/ UrlsFail
  \/ \E d \in DockerClient : DockerConnects(d) \/ Forwarded(d) \/ Answered(d)
  \/ spawnRemoteCommand \/ ShellFails \/ ShellEnds \/ KeyRemoved \/ ShellExits

-----------------------------------------------------------------------------
(* Properties *)

\* A command that is done leaves nothing open that keeps its process alive, however
\* often it had to connect, but for logs, which never closes its connection
\* (customizeNewMachine, withConnection, the scopes of up).  The local server, which
\* anybody can connect to, is there only while docker compose runs; it outlives its
\* connection only if that was lost before (forwardOutStreamLocal).
LeavesNothing ==
  /\ Doing({"returned"}) => forwarder = 0 /\ (session.job = "logs" \/ open = {})
  /\ forwarder # 0 => /\ Doing({"compose", "failed"})
                      /\ Usable \/ \A d \in DockerClient : wire[d] \in {"none", "stuck"}
=============================================================================
