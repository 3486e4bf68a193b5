------------------------------- MODULE Telemetry -------------------------------
(***************************************************************************)
(* The telemetry bus of an API process: request handlers publish without   *)
(* blocking into a bounded channel, a pool of workers delivers every event *)
(* to every sink with retries, and the process shuts down: it drains the   *)
(* HTTP server and then the bus, under one deadline.                       *)
(***************************************************************************)
EXTENDS Integers, Sequences, FiniteSets

CONSTANTS
  Event,        \* events; each has a request handler of its own to publish it
  Worker,       \* goroutines of the pool
  NoEvent,      \* what an idle worker holds
  Buffer,       \* capacity of the channel
  NumSinks,     \* sinks, in the order of the slice
  MaxAttempts   \* attempts per sink

ASSUME TelemetryAssumption ==
  /\ IsFiniteSet(Event) /\ NoEvent \notin Event
  /\ Worker # {}
  /\ Buffer \in Nat \ {0} /\ NumSinks \in Nat \ {0} /\ MaxAttempts \in Nat \ {0}

Sink == 1..NumSinks

VARIABLES
  ch,           \* the channel
  closed,       \* Bus.closed
  chClosed,     \* close(b.ch) was called
  stage,        \* stage[e]: where the handler of event e stands
  worker,       \* worker[w]: its event, the sink and the attempt; or it is done
  delivered,    \* <<e, s>>: sink s has handled event e
  failed,       \* <<e, s>>: the bus gave up
  stats,        \* the counters
  server,       \* where run, the main goroutine, stands
  late          \* shutdownTimeout has passed

busVars == <<ch, closed, chClosed, worker, delivered, failed, stats>>
teleVars == <<busVars, stage, server, late>>

Idle == [pc |-> "idle", event |-> NoEvent, sink |-> 1, attempt |-> 1]
Busy(e) == [pc |-> "busy", event |-> e, sink |-> 1, attempt |-> 1]

TelemetryInit ==
  /\ ch = <<>>
  /\ closed = FALSE /\ chClosed = FALSE
  /\ stage = [e \in Event |-> "new"]
  /\ worker = [w \in Worker |-> Idle]
  /\ delivered = {} /\ failed = {}
  /\ stats = [published |-> 0, processed |-> 0, dropped |-> 0, failed |-> 0]
  /\ server = "serving"
  /\ late = FALSE

-----------------------------------------------------------------------------
(* A request handler and its call of Publish. *)

InFlight == {e \in Event : stage[e] \in {"handling", "open", "sent"}}

Arrive(e) ==
  /\ server = "serving"
  /\ stage[e] = "new"
  /\ stage' = [stage EXCEPT ![e] = "handling"]
  /\ UNCHANGED <<busVars, server, late>>

Drop(e) ==
  /\ stage' = [stage EXCEPT ![e] = "dropped"]
  /\ stats' = [stats EXCEPT !.dropped = @ + 1]
  /\ UNCHANGED <<ch, closed, chClosed, worker, delivered, failed, server, late>>

Check(e) ==
  /\ stage[e] = "handling"
  /\ IF closed THEN Drop(e)
     ELSE /\ stage' = [stage EXCEPT ![e] = "open"]
          /\ UNCHANGED <<busVars, server, late>>

(* The select: a send on a closed channel panics, and the recoverer answers  *)
(* 500; otherwise the event is sent, or dropped when there is no room.      *)
SendPanics(e) ==
  /\ stage[e] = "open"
  /\ chClosed
  /\ stage' = [stage EXCEPT ![e] = "panicked"]
  /\ UNCHANGED <<busVars, server, late>>

Send(e) ==
  /\ stage[e] = "open"
  /\ ~chClosed /\ Len(ch) < Buffer
  /\ ch' = Append(ch, e)
  /\ stage' = [stage EXCEPT ![e] = "sent"]
  /\ UNCHANGED <<closed, chClosed, worker, delivered, failed, stats, server, late>>

SendFull_Silent(e) ==
  /\ stage[e] = "open"
  /\ ~chClosed /\ Len(ch) >= Buffer
  /\ stage' = [stage EXCEPT ![e] = "dropped"]
  /\ UNCHANGED <<busVars, server, late>>
SendFull(e) ==
  /\ stage[e] = "open"
  /\ ~chClosed /\ Len(ch) >= Buffer
  /\ Drop(e)

(* A worker may be done with the event before it is counted. *)
Count(e) ==
  /\ stage[e] = "sent"
  /\ stage' = [stage EXCEPT ![e] = "published"]
  /\ stats' = [stats EXCEPT !.published = @ + 1]
  /\ UNCHANGED <<ch, closed, chClosed, worker, delivered, failed, server, late>>

Publish(e) == Check(e) \/ SendPanics(e) \/ Send(e) \/ SendFull(e) \/ Count(e)

-----------------------------------------------------------------------------
(* The pool: worker, dispatch, deliver. *)

Take(w) ==
  /\ worker[w].pc = "idle"
  /\ ch # <<>>
  /\ worker' = [worker EXCEPT ![w] = Busy(Head(ch))]
  /\ ch' = Tail(ch)
  /\ UNCHANGED <<closed, chClosed, delivered, failed, stats, stage, server, late>>

Here(w) == <<worker[w].event, worker[w].sink>>

(* On to the next sink, or to the next event. *)
NextSink(w, counters) ==
  IF worker[w].sink < NumSinks
  THEN /\ worker' = [worker EXCEPT ![w].sink = @ + 1, ![w].attempt = 1]
       /\ stats' = counters
  ELSE /\ worker' = [worker EXCEPT ![w] = Idle]
       /\ stats' = [counters EXCEPT !.processed = @ + 1]

Handled(w) ==
  /\ worker[w].pc = "busy"
  /\ delivered' = delivered \cup {Here(w)}
  /\ NextSink(w, stats)
  /\ UNCHANGED <<ch, closed, chClosed, failed, stage, server, late>>

GiveUp_OnTheEvent(w) ==
  /\ failed' = failed \cup {Here(w)}
  /\ worker' = [worker EXCEPT ![w] = Idle]
  /\ stats' = [stats EXCEPT !.failed = @ + 1, !.processed = @ + 1]
GiveUp(w) ==
  /\ failed' = failed \cup {Here(w)}
  /\ NextSink(w, [stats EXCEPT !.failed = @ + 1])

(* Handle returns an error; a Permanent one is not retried. *)
HandleFails_StartsOver(w, permanent) ==
  /\ worker[w].pc = "busy"
  /\ IF permanent THEN GiveUp(w)
     ELSE /\ worker' = [worker EXCEPT ![w].attempt = (@ % MaxAttempts) + 1]
          /\ UNCHANGED <<failed, stats>>
  /\ UNCHANGED <<ch, closed, chClosed, delivered, stage, server, late>>
HandleFails(w, permanent) ==
  /\ worker[w].pc = "busy"
  /\ IF permanent \/ worker[w].attempt = MaxAttempts
     THEN GiveUp(w)
     ELSE /\ worker' = [worker EXCEPT ![w].attempt = @ + 1]
          /\ UNCHANGED <<failed, stats>>
  /\ UNCHANGED <<ch, closed, chClosed, delivered, stage, server, late>>

(* range over the channel ends when it is closed and empty. *)
WorkerExit_Undrained(w) ==
  /\ worker[w].pc = "idle"
  /\ chClosed
  /\ worker' = [worker EXCEPT ![w].pc = "exited"]
  /\ UNCHANGED <<ch, closed, chClosed, delivered, failed, stats, stage, server, late>>
WorkerExit(w) ==
  /\ worker[w].pc = "idle"
  /\ chClosed /\ ch = <<>>
  /\ worker' = [worker EXCEPT ![w].pc = "exited"]
  /\ UNCHANGED <<ch, closed, chClosed, delivered, failed, stats, stage, server, late>>

WorkerLoop(w) ==
  \/ Take(w) \/ Handled(w) \/ WorkerExit(w)
  \/ \E permanent \in BOOLEAN : HandleFails(w, permanent)

-----------------------------------------------------------------------------
(* run: the signal, then http.Server.Shutdown and Bus.Shutdown, which share  *)
(* the deadline, then the end of the process.                               *)

Goto(pc) == server' = pc

(* SetDraining; Server.Shutdown closes the listeners. *)
Signal ==
  /\ server = "serving"
  /\ Goto("http")
  /\ UNCHANGED <<busVars, stage, late>>

Deadline ==
  /\ server \in {"http", "flag", "close", "wait"}
  /\ ~late
  /\ late' = TRUE
  /\ UNCHANGED <<busVars, stage, server>>

HttpShutdown_Patient ==
  /\ server = "http"
  /\ InFlight = {}
  /\ Goto("flag")
  /\ UNCHANGED <<busVars, stage, late>>
HttpShutdown_Unawaited ==
  /\ server = "http"
  /\ Goto("flag")
  /\ UNCHANGED <<busVars, stage, late>>
HttpShutdown ==
  /\ server = "http"
  /\ InFlight = {} \/ late
  /\ Goto("flag")
  /\ UNCHANGED <<busVars, stage, late>>

CloseFlag ==
  /\ server = "flag"
  /\ closed' = TRUE
  /\ Goto("close")
  /\ UNCHANGED <<ch, chClosed, worker, delivered, failed, stats, stage, late>>

CloseChannel ==
  /\ server = "close"
  /\ chClosed' = TRUE
  /\ Goto("wait")
  /\ UNCHANGED <<ch, closed, worker, delivered, failed, stats, stage, late>>

Drained ==
  /\ server = "wait"
  /\ \A w \in Worker : worker[w].pc = "exited"
  /\ Goto("drained")
  /\ UNCHANGED <<busVars, stage, late>>

(* Whoever is still at work ends with the process. *)
Expired ==
  /\ server = "wait"
  /\ late
  /\ Goto("expired")
  /\ UNCHANGED <<busVars, stage, late>>

Shutdown == Deadline \/ HttpShutdown \/ CloseFlag \/ CloseChannel \/ Drained \/ Expired

-----------------------------------------------------------------------------
Stopped == server \in {"drained", "expired"}

TelemetryNext ==
  \/ \E e \in Event : Arrive(e)
  \/ ~Stopped /\ \E e \in Event : Publish(e)
  \/ ~Stopped /\ \E w \in Worker : WorkerLoop(w)
  \/ Signal \/ Shutdown

TelemetrySpec == TelemetryInit /\ [][TelemetryNext]_teleVars

(* Goroutines of the pool are scheduled and sinks answer (their clients have *)
(* timeouts); time passes.  Request handlers may take forever.              *)
FairTelemetrySpec ==
  /\ TelemetrySpec
  /\ \A w \in Worker : WF_teleVars(~Stopped /\ WorkerLoop(w))
  /\ WF_teleVars(Shutdown)
=============================================================================
