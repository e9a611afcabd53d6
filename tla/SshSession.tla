----------------------------- MODULE SshSession ------------------------------
(****************************************************************************)
(* The commands of the CLI that ask the tunnel server for the URLs of an    *)
(* environment over SSH, and then the agent of the environment at its own   *)
(* URL: up, urls, env metadata and proxy connect.  One command runs at a    *)
(* time; the profile keeps the host keys between them (what several         *)
(* commands do to a profile at a time is in Profiles).                      *)
(****************************************************************************)
EXTENDS Naturals

CONSTANTS
  HostKey,
  NoKey,
  MaxRetries    \* of queries to the agent: 2, or 10 with --wait

VARIABLES
  known,        \* the host keys in the profile
  hostKey,      \* the one of the server
  me,           \* the command
  channel,      \* its channels: none, open or answered
  vouched       \* history: keys that were known at first, that a user confirmed, or
                \* that came on a connection that did not check them

sessionVars == <<known, hostKey, me, channel, vouched>>

Command == {"hello", "tunnel-url"}

NoChannels == [q \in Command |-> "none"]

NoOneAsks == [at |-> "idle", job |-> "none", tls |-> FALSE, insecureSkipVerify |-> FALSE,
              known |-> {}, trusted |-> {}, host |-> NoKey, retries |-> 0]

SessionInit ==
  /\ known \in SUBSET HostKey
  /\ vouched = known
  /\ hostKey \in HostKey
  /\ me = NoOneAsks
  /\ channel = NoChannels

-----------------------------------------------------------------------------
(* The connection *)

Stage(stages) == me.at \in stages

Moves(stage) == me' = [me EXCEPT !.at = stage]

Kept == UNCHANGED <<known, hostKey, vouched>>

\* env metadata turns to the driver, whatever ends its attempt with the agent.
Fails == Moves(IF me.job = "metadata" THEN "driver" ELSE "idle")

Begin(job, isTls, skip) ==
  /\ Stage({"idle"})
  /\ me' = [NoOneAsks EXCEPT !.at = "connecting", !.job = job, !.tls = isTls,
                 !.insecureSkipVerify = skip, !.known = known, !.trusted = known]
  /\ channel' = NoChannels
  /\ Kept

Unchecked == me.tls \/ me.insecureSkipVerify

\* Mutant of hostVerifier: one confirmation is taken for all.
hostVerifierOnce(key) == Unchecked \/ key \in me.trusted \/ me.trusted # me.known

hostVerifier(key) == Unchecked \/ key \in me.trusted

\* An unverified key ends the connection, and the user is asked for the next.
Handshake ==
  /\ Stage({"connecting"})
  /\ me' = [me EXCEPT !.host = hostKey,
                      !.at = IF hostVerifier(hostKey) THEN "auth" ELSE "unverified"]
  /\ vouched' = IF Unchecked THEN vouched \cup {hostKey} ELSE vouched
  /\ UNCHANGED <<known, hostKey, channel>>

ConnectFails ==
  /\ Stage({"connecting", "auth"})
  /\ Fails
  /\ UNCHANGED channel /\ Kept

confirmHostFingerprint ==
  /\ Stage({"unverified"})
  /\ me' = [me EXCEPT !.at = "connecting", !.trusted = @ \cup {me.host}]
  /\ vouched' = vouched \cup {me.host}
  /\ UNCHANGED <<known, hostKey, channel>>

\* The exit of the command is thrown as well, and caught with the rest.
Declined ==
  /\ Stage({"unverified"})
  /\ Fails
  /\ UNCHANGED channel /\ Kept

\* The server takes any key that signs: the key is who the client is.
Authenticated ==
  /\ Stage({"auth"})
  /\ Moves("save")
  /\ UNCHANGED channel /\ Kept

\* The key of the server is added to those of the profile, however it came to
\* be trusted; proxy connect gives it to its agent as the only one.
SaveHostKey ==
  /\ Stage({"save"})
  /\ known' = known \cup me.known \cup {me.host}
  /\ Moves("asks")
  /\ UNCHANGED <<hostKey, channel, vouched>>

-----------------------------------------------------------------------------
(* Commands to the server *)

Asked == IF me.job = "up" THEN Command ELSE {"tunnel-url"}

Exec(q) ==
  /\ Stage({"asks"}) /\ q \in Asked /\ channel[q] = "none"
  /\ channel' = [channel EXCEPT ![q] = "open"]
  /\ UNCHANGED me /\ Kept

\* tryParseJsonChunks: what has arrived on the channel is the answer as soon as it
\* is JSON, wherever it was cut.
Data(q) ==
  /\ Stage({"asks"}) /\ channel[q] = "open"
  /\ channel' = [channel EXCEPT ![q] = "answered"]
  /\ UNCHANGED me /\ Kept

\* A channel that is open tells nobody that it ends: the command waits on, or
\* its process ends for lack of anything else to do.
Lost ==
  /\ Stage({"asks"})
  /\ \E q \in Asked : channel[q] # "answered"
  /\ IF \A q \in Asked : channel[q] # "none" THEN Moves("waits") ELSE Fails
  /\ UNCHANGED channel /\ Kept

\* All of the answers are there.  Nobody waits for the end of the connection.
Answers ==
  /\ Stage({"asks"})
  /\ \A q \in Asked : channel[q] = "answered"
  /\ me' = [me EXCEPT !.at = CASE me.job = "up" -> "idle"
                               [] me.job = "connect" -> "inspect"
                               [] OTHER -> "query",
                      !.retries = MaxRetries]
  /\ UNCHANGED channel /\ Kept

\* An error of the connection that is being ended is nobody's: the process ends.
EndFails ==
  /\ Stage({"inspect", "start", "query"})
  /\ Moves("idle")
  /\ UNCHANGED channel /\ Kept

-----------------------------------------------------------------------------
(* The agent *)

\* proxy connect looks at the Compose application that runs on this machine, and
\* writes the model of an agent for its networks.
InspectProject ==
  /\ Stage({"inspect"})
  /\ \/ Moves("start")
     \/ Moves("idle")    \* no Docker
  /\ UNCHANGED channel /\ Kept

\* A status of docker compose other than 0 ends the command.
StartAgent ==
  /\ Stage({"start"})
  /\ \/ Moves("query")
     \/ Moves("idle")
  /\ UNCHANGED channel /\ Kept

Queried ==
  /\ Stage({"query"})
  /\ Moves("idle")
  /\ UNCHANGED channel /\ Kept

\* The fetch is tried again.
QueryFails ==
  /\ Stage({"query"})
  /\ IF me.retries > 0 THEN me' = [me EXCEPT !.retries = @ - 1]
     ELSE Fails
  /\ UNCHANGED channel /\ Kept

\* readMetadata finds what is in the machine, or fails.
ReadMetadata ==
  /\ Stage({"driver"})
  /\ Moves("idle")
  /\ UNCHANGED channel /\ Kept

\* The server is replaced by one with another key.
ServerReplaced ==
  /\ \E k \in HostKey \ {hostKey} : hostKey' = k
  /\ UNCHANGED <<known, me, channel, vouched>>

\* The user ends a command that waits.
GivenUp ==
  /\ Stage({"waits"})
  /\ Moves("idle")
  /\ UNCHANGED channel /\ Kept

SessionNext ==
  \/ \E job \in {"up", "urls", "metadata", "connect"}, isTls, skip \in BOOLEAN :
       Begin(job, isTls, skip)
  \/ Handshake \/ ConnectFails \/ confirmHostFingerprint \/ Declined
  \/ Authenticated \/ SaveHostKey
  \/ \E q \in Command : Exec(q) \/ Data(q)
  \/ Lost \/ Answers \/ EndFails
  \/ InspectProject \/ StartAgent \/ Queried \/ QueryFails \/ ReadMetadata
  \/ ServerReplaced \/ GivenUp

-----------------------------------------------------------------------------
(* Properties *)

\* A command authenticates to, and asks, only a server whose key was known, was
\* confirmed by a user, that very key, or came on a connection that does not
\* check it; and only such keys get into the profile, whatever key the server
\* shows at the next attempt (hostVerifier, connectToTunnelServerSsh).
Vouched ==
  /\ known \subseteq vouched
  /\ me.at \in {"auth", "save", "asks"} => me.host \in vouched
=============================================================================
