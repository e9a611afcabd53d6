------------------------------ MODULE Telemetry ------------------------------
(****************************************************************************)
(* Telemetry: the events that one run of the CLI captures, from its hooks,  *)
(* its command and the ways in which its process ends, and the batches in   *)
(* which they are sent.                                                     *)
(*                                                                          *)
(* Steps are turns of the event loop.  A flush that nothing holds up begins *)
(* in the same turn (FlushBegins): other steps wait for it.                 *)
(****************************************************************************)
EXTENDS Naturals, Sequences, SequencesExt

CONSTANT MaxEvents   \* bound: events of the command itself end here

VARIABLES
  process,       \* where the run is
  pendingEvents, \* captured, and not in a batch yet
  debounced,     \* the timer of debouncedFlush is set
  debounceDisabled,
  flushLimit,    \* the flushes that wait for one another, by who asked for them
  sending,       \* the flush that sends a batch: who asked for it, and the batch; or none
  exitCaptured,
  listeners,     \* listeners of the process that have not been called yet
  raised,        \* signals that are sent again on the next turn
  captured,      \* all events so far
  batched        \* all events that have been put into a batch

emitter == <<pendingEvents, debounced, debounceDisabled, flushLimit, sending>>
record == <<captured, batched>>
telemetryVars == <<process, emitter, exitCaptured, listeners, raised, record>>

Signal == {"SIGINT", "SIGTERM"}
Fault == {"uncaughtException", "unhandledRejection"}
Ended == {"exited", "left", "killed"}

NoBatch == [by |-> "nobody", batch |-> <<>>]

TelemetryInit ==
  /\ process = "init"
  /\ pendingEvents = <<>> /\ debounced = FALSE /\ debounceDisabled = FALSE
  /\ flushLimit = <<>> /\ sending = NoBatch
  /\ exitCaptured = FALSE
  /\ listeners = Signal \cup Fault \cup {"beforeExit"}
  /\ raised = {}
  /\ captured = <<>> /\ batched = <<>>

-----------------------------------------------------------------------------
(* The emitter *)

Sends == sending # NoBatch

\* A turn of the event loop: the process lives, and no flush is about to begin.
Turn == process \notin Ended /\ (Sends \/ flushLimit = <<>>)

Captures(events) ==
  /\ pendingEvents' = pendingEvents \o events
  /\ captured' = captured \o events

\* The flushes that pushing asks for when nothing is to hold the process any more.
PushFlushes(events) ==
  IF debounceDisabled THEN flushLimit \o [i \in 1 .. Len(events) |-> "push"] ELSE flushLimit

Push(events) ==
  /\ Captures(events)
  /\ flushLimit' = PushFlushes(events)
  /\ debounced' = (debounced \/ ~debounceDisabled)
  /\ UNCHANGED <<debounceDisabled, sending, batched>>

PushAndFlush(events, by) ==
  /\ Captures(events)
  /\ flushLimit' = Append(PushFlushes(events), by)
  /\ debounced' = FALSE
  /\ UNCHANGED <<sending, batched>>

TimerFires ==
  /\ Turn /\ debounced
  /\ debounced' = FALSE /\ flushLimit' = Append(flushLimit, "timer")
  /\ UNCHANGED <<process, pendingEvents, debounceDisabled, sending, exitCaptured, listeners,
                 raised, record>>

\* Whoever has awaited the flush goes on.
Resumes(by) ==
  /\ process' = CASE by = "catch" -> "caught" [] by = "initHook" -> "initFailed"
                  [] OTHER -> process
  /\ raised' = IF by \in Signal THEN raised \cup {by} ELSE raised

FlushBegins ==
  /\ process \notin Ended /\ ~Sends /\ flushLimit # <<>>
  /\ flushLimit' = Tail(flushLimit)
  /\ IF pendingEvents = <<>>
     THEN Resumes(Head(flushLimit)) /\ UNCHANGED <<pendingEvents, sending, batched>>
     ELSE /\ sending' = [by |-> Head(flushLimit), batch |-> pendingEvents]
          /\ pendingEvents' = <<>> /\ batched' = batched \o pendingEvents
          /\ UNCHANGED <<process, raised>>
  /\ UNCHANGED <<debounced, debounceDisabled, exitCaptured, listeners, captured>>

\* Answered, refused or timed out: nothing of it is looked at.
FlushEnds ==
  /\ process \notin Ended /\ Sends
  /\ sending' = NoBatch /\ Resumes(sending.by)
  /\ UNCHANGED <<pendingEvents, debounced, debounceDisabled, flushLimit, exitCaptured, listeners,
                 record>>

-----------------------------------------------------------------------------
(* The hooks and the command *)

LoadPluginsFails ==
  /\ Turn /\ process = "init" /\ process' = "initFailing"
  /\ PushAndFlush(<<"plugin-init-error">>, "initHook")
  /\ UNCHANGED <<debounceDisabled, exitCaptured, listeners, raised>>

Prerun ==
  /\ Turn /\ process = "init" /\ process' = "run"
  /\ Push(<<"run">>)
  /\ UNCHANGED <<exitCaptured, listeners, raised>>

OnProfileChange ==
  /\ Turn /\ process = "run" /\ Len(captured) < MaxEvents
  /\ \E identify \in {<<>>, <<"$identify">>} : Push(Append(identify, "$groupidentify"))
  /\ UNCHANGED <<process, exitCaptured, listeners, raised>>

CommandCaptures ==
  /\ Turn /\ process = "run" /\ Len(captured) < MaxEvents
  /\ Push(<<"command">>)
  /\ UNCHANGED <<process, exitCaptured, listeners, raised>>

\* unref: the flush that may be waiting is given up, and is not made up for.
Postrun ==
  /\ Turn /\ process = "run" /\ process' = "ran"
  /\ Captures(<<"postrun">>)
  /\ debounceDisabled' = TRUE /\ debounced' = FALSE
  /\ UNCHANGED <<flushLimit, sending, exitCaptured, listeners, raised, batched>>

\* The plausible error of not awaiting the flush.
CommandFailsUnawaited ==
  /\ Turn /\ process = "run" /\ process' = "caught"
  /\ debounceDisabled' = TRUE
  /\ PushAndFlush(<<"error">>, "catch")
  /\ UNCHANGED <<exitCaptured, listeners, raised>>

CommandFails ==
  /\ Turn /\ process = "run" /\ process' = "catching"
  /\ debounceDisabled' = TRUE
  /\ PushAndFlush(<<"error">>, "catch")
  /\ UNCHANGED <<exitCaptured, listeners, raised>>

-----------------------------------------------------------------------------
(* The ends of the process *)

ExitEvents == IF exitCaptured THEN <<>> ELSE <<"exit">>

CaptureExit(by) ==
  /\ exitCaptured' = TRUE
  /\ PushAndFlush(ExitEvents, by)
  /\ UNCHANGED debounceDisabled

\* The default action of a signal ends the process.
Interrupted(s) ==
  /\ Turn
  /\ IF s \in listeners
     THEN /\ listeners' = listeners \ {s}
          /\ CaptureExit(s) /\ UNCHANGED <<process, raised>>
     ELSE /\ process' = "killed"
          /\ UNCHANGED <<emitter, exitCaptured, listeners, raised, record>>

RaisedAgain ==
  /\ Turn /\ raised # {}
  /\ process' = "killed"
  /\ UNCHANGED <<emitter, exitCaptured, listeners, raised, record>>

\* Flushing needs further turns, which a process that exits does not have.
Exits ==
  /\ exitCaptured' = TRUE
  /\ Captures(ExitEvents)
  /\ process' = "exited"
  /\ UNCHANGED <<debounced, debounceDisabled, flushLimit, sending, listeners, raised, batched>>

\* An error that nobody handles: a rejection without a listener is an exception.
Stray(fault) ==
  LET heard == {fault, "uncaughtException"} \cap listeners
  IN /\ Turn /\ process \in {"run", "ran"}
     /\ IF heard = {}
        THEN Exits
        ELSE /\ listeners' = listeners \ {IF fault \in heard THEN fault ELSE "uncaughtException"}
             /\ PushAndFlush(<<"uncaughtException">>, "fault")
             /\ UNCHANGED <<process, debounceDisabled, exitCaptured, raised>>

HandleExits == Turn /\ process \in {"caught", "initFailed"} /\ Exits

\* Nothing is left to wait for.
LoopEmpty == Turn /\ process = "ran" /\ ~debounced /\ ~Sends /\ raised = {}

BeforeExit ==
  /\ LoopEmpty /\ "beforeExit" \in listeners
  /\ listeners' = listeners \ {"beforeExit"}
  /\ CaptureExit("beforeExit")
  /\ UNCHANGED <<process, raised>>

Leaves ==
  /\ LoopEmpty /\ "beforeExit" \notin listeners
  /\ process' = "left"
  /\ UNCHANGED <<emitter, exitCaptured, listeners, raised, record>>

TelemetryNext ==
  \/ TimerFires \/ FlushBegins \/ FlushEnds
  \/ LoadPluginsFails \/ Prerun \/ OnProfileChange \/ CommandCaptures \/ Postrun \/ CommandFails
  \/ \E s \in Signal : Interrupted(s)
  \/ RaisedAgain
  \/ \E f \in Fault : Stray(f)
  \/ HandleExits \/ BeforeExit \/ Leaves

-----------------------------------------------------------------------------
(* Properties *)

\* The request with the event has been made, and has ended.
Tried(event) == Contains(batched, event) /\ ~Contains(sending.batch, event)

\* Every event is put into exactly one batch, in the order of the events, whatever is captured
\* while a batch is being sent (emitter.ts:46).  A process that ends of itself has tried to send
\* all of them; one that a signal ends, its exit; one whose command has failed waits for the
\* request with the error before it exits.
EventsTried ==
  /\ batched \o pendingEvents = captured
  /\ process = "left" => pendingEvents = <<>> /\ ~Sends /\ Tried("exit")
  /\ raised # {} => Tried("exit")
  /\ process = "caught" => Tried("error")
  /\ process = "initFailed" => Tried("plugin-init-error")
=============================================================================
