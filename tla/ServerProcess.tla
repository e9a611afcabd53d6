---------------------------- MODULE ServerProcess ----------------------------
(****************************************************************************)
(* The process of the tunnel server: how it starts to listen, port after    *)
(* port, to whom it hands the connections of the TLS port, and how it ends. *)
(* What the servers do with the connections is in TunnelServer, TunnelProxy *)
(* and Injection.  A connection of a client is a member of Conn.            *)
(****************************************************************************)
EXTENDS Naturals, FiniteSets, Sequences

CONSTANTS
  Conn,         \* connections
  MaxSignals    \* bound

VARIABLES
  process,      \* "runs", "exit 0", "exit 1", "killed" or "uncaught"
  tls,          \* there is a certificate
  listening,    \* the servers that listen
  next,         \* the server to listen next; the last one is followed by the handlers
  conns,        \* the open connections
  handled,      \* the signals that were handled: each of them is once only
  signals       \* history: how many signals came

processVars == <<process, tls, listening, next, conns, handled, signals>>

Signals == {"SIGTERM", "SIGINT"}

\* The port that a connection came in through, the server that handles it, and
\* whether that has anything to do for it: the SSH server always has.
NoConn == [port |-> "none", handler |-> "none", active |-> FALSE]

Servers == IF tls THEN <<"app", "ssh", "tls", "metrics">> ELSE <<"app", "ssh", "metrics">>

\* Mutant of allServers: without the TLS server, which came to the list later.
allServersPlain == {"app", "ssh", "metrics"}

\* The servers that are closed in the end.
allServers == {Servers[i] : i \in DOMAIN Servers}

ProcessInit ==
  /\ process = "runs" /\ tls \in BOOLEAN
  /\ listening = {} /\ next = 1
  /\ conns = [c \in Conn |-> NoConn]
  /\ handled = {} /\ signals = 0

OpenConns == {c \in Conn : conns[c].port # "none"}

Started == next > Len(Servers)

-----------------------------------------------------------------------------
(* Start *)

listen ==
  /\ process = "runs" /\ ~Started /\ next > 0
  /\ listening' = listening \cup {Servers[next]}
  /\ next' = next + 1
  /\ UNCHANGED <<process, tls, conns, handled, signals>>

\* The port is taken.  Only the servers of Fastify tell the callback of listen;
\* those of SSH and TLS log the error, and the start is never done.
listenFails ==
  /\ process = "runs" /\ ~Started /\ next > 0
  /\ IF Servers[next] \in {"app", "metrics"}
     THEN process' = "exit 1" /\ UNCHANGED next
     ELSE next' = 0 /\ UNCHANGED process
  /\ UNCHANGED <<tls, listening, conns, handled, signals>>

-----------------------------------------------------------------------------
(* Connections *)

\* On the TLS port, by the name or the protocol that the client asks for.
secureConnection(servername, alpn) ==
  IF servername = "base" \/ alpn = "ssh" THEN "ssh" ELSE "app"

Connects(c, port, handler) ==
  /\ process = "runs"
  /\ c \notin OpenConns /\ port \in listening
  /\ conns' = [conns EXCEPT ![c] = [port |-> port, handler |-> handler, active |-> TRUE]]
  /\ UNCHANGED <<process, tls, listening, next, handled, signals>>

ConnectsTls(c) ==
  \E servername \in {"base", "other"}, alpn \in {"ssh", "http"} :
    Connects(c, "tls", secureConnection(servername, alpn))

\* The request of an HTTP connection is answered; the connection is kept.
Answered(c) ==
  /\ process = "runs"
  /\ c \in OpenConns /\ conns[c].handler # "ssh" /\ conns[c].active
  /\ conns' = [conns EXCEPT ![c].active = FALSE]
  /\ UNCHANGED <<process, tls, listening, next, handled, signals>>

Requests(c) ==
  /\ process = "runs"
  /\ c \in OpenConns /\ ~conns[c].active
  /\ conns' = [conns EXCEPT ![c].active = TRUE]
  /\ UNCHANGED <<process, tls, listening, next, handled, signals>>

\* The client leaves.  The agents do not, as long as the server is there.
Leaves(c) ==
  /\ process = "runs" /\ c \in OpenConns
  /\ conns' = [conns EXCEPT ![c] = NoConn]
  /\ UNCHANGED <<process, tls, listening, next, handled, signals>>

\* An error that nobody catches or listens for, while a request is handled, ends
\* the process.
Uncaught(c) ==
  /\ process = "runs"
  /\ c \in OpenConns /\ conns[c].handler = "app" /\ conns[c].active
  /\ process' = "uncaught"
  /\ UNCHANGED <<tls, listening, next, conns, handled, signals>>

\* The request was an upgrade to TCP, and the socket of its tunnel is gone, or
\* fails later.
UpgradeFails(c) == Uncaught(c)

\* The answer should get scripts, and its content type does not parse, or its
\* coding or charset is unknown, or its body is not of its coding (Injection:
\* Crashes).
AnswerFails(c) == Uncaught(c)

-----------------------------------------------------------------------------
(* The end *)

\* Every server stops to listen; those of HTTP close their idle connections.
close ==
  /\ listening' = listening \ allServers
  /\ conns' = [c \in Conn |-> IF conns[c].active THEN conns[c] ELSE NoConn]

\* A signal without a handler kills: the second one of a kind, and any before
\* the start is done.
Signal(signal) ==
  /\ process = "runs" /\ signals < MaxSignals
  /\ signals' = signals + 1
  /\ IF signal \in handled \/ ~Started
     THEN process' = "killed" /\ UNCHANGED <<listening, conns, handled>>
     ELSE handled' = handled \cup {signal} /\ close /\ UNCHANGED process
  /\ UNCHANGED <<tls, next>>

\* A server is closed when the last of the connections it accepted is.
Closed(server) == \A c \in OpenConns : conns[c].port # server

\* The first shutdown is over.
Exit ==
  /\ process = "runs" /\ Cardinality(handled) = 1
  /\ \A server \in allServers : Closed(server)
  /\ process' = "exit 0"
  /\ UNCHANGED <<tls, listening, next, conns, handled, signals>>

\* The second one closes servers that are closed already: those of SSH and TLS
\* tell it so when their connections are gone, whatever others there are.
ExitFails ==
  /\ process = "runs" /\ Cardinality(handled) > 1
  /\ \E server \in allServers \cap {"ssh", "tls"} : Closed(server)
  /\ process' = "exit 1"
  /\ UNCHANGED <<tls, listening, next, conns, handled, signals>>

ProcessNext ==
  \/ listen \/ listenFails \/ Exit \/ ExitFails
  \/ \E signal \in Signals : Signal(signal)
  \/ \E c \in Conn :
       \/ \E s \in {"app", "ssh", "metrics"} : Connects(c, s, s)
       \/ ConnectsTls(c)
       \/ Answered(c) \/ Requests(c) \/ Leaves(c) \/ UpgradeFails(c) \/ AnswerFails(c)
-----------------------------------------------------------------------------
(* Properties *)

\* A process that ends by itself or is asked to cuts no connection, unless it
\* never came to its handlers or was asked more than once: one signal is waited
\* out until the last client has left, an agent behind the TLS port included (the
\* handlers of the exit signals).  This says nothing of errors that nobody
\* catches, of which UpgradeFails and AnswerFails are the ones known.
CutExplained ==
  process # "runs" /\ OpenConns # {} => ~Started \/ signals > 1 \/ process = "uncaught"
=============================================================================
