--------------------------- MODULE TelemetryPromises ---------------------------
(***************************************************************************)
(* What the telemetry bus promises.                                        *)
(***************************************************************************)
EXTENDS Telemetry

Stage == {"new", "handling", "open", "sent", "published", "dropped", "panicked"}
WorkerState ==
  [pc : {"idle", "busy", "exited"}, event : Event \cup {NoEvent}, sink : Sink,
   attempt : 1..MaxAttempts]
Counters == [published : Nat, processed : Nat, dropped : Nat, failed : Nat]

(* Types; the channel never holds more than its capacity. *)
TelemetryTypeOK ==
  /\ ch \in Seq(Event) /\ Len(ch) <= Buffer
  /\ closed \in BOOLEAN /\ chClosed \in BOOLEAN /\ late \in BOOLEAN
  /\ stage \in [Event -> Stage]
  /\ worker \in [Worker -> WorkerState]
  /\ delivered \subseteq Event \X Sink /\ failed \subseteq Event \X Sink
  /\ stats \in Counters
  /\ server \in {"serving", "http", "flag", "close", "wait", "drained", "expired"}

Accepted == {e \in Event : stage[e] \in {"sent", "published"}}
Queued == {ch[i] : i \in DOMAIN ch}
Held == {worker[w].event : w \in Worker} \ {NoEvent}
Settled(e) == \A s \in Sink : <<e, s>> \in delivered \cup failed

(* An event that was accepted is in the channel, in the hands of one worker, *)
(* or through with every sink, in one of these and once; and no sink sees an *)
(* event that was refused.                                                  *)
EveryEventSomewhere ==
  /\ \A i, j \in DOMAIN ch : ch[i] = ch[j] => i = j
  /\ \A w, v \in Worker : worker[w].event = worker[v].event /\ w # v => worker[w].event = NoEvent
  /\ Queued \cap Held = {}
  /\ Queued \cup Held \subseteq Accepted
  /\ \A e \in Accepted : e \notin Queued \cup Held => Settled(e)
  /\ \A e \in Queued, s \in Sink : <<e, s>> \notin delivered \cup failed
  /\ \A e \in Event \ Accepted, s \in Sink : <<e, s>> \notin delivered \cup failed

(* The loss is quantified (architecture.md, failure modes): once every       *)
(* handler is back and the channel is drained, the counters account for      *)
(* every call of Publish, but one that panicked, and for every sink that     *)
(* was given up.                                                            *)
Called == {e \in Event : stage[e] \in {"published", "dropped"}}
LossIsCounted ==
  (InFlight = {} /\ Queued \cup Held = {}) =>
    /\ stats.published + stats.dropped = Cardinality(Called)
    /\ stats.processed = stats.published
    /\ stats.failed = Cardinality(failed)

(* A deploy never loses an accepted event (package telemetry), as long as    *)
(* the drain meets its deadline.                                            *)
CleanShutdownLosesNothing == server = "drained" => \A e \in Accepted : Settled(e)

(* The order of shutdown keeps a handler from sending on the closed channel: *)
(* one that does has outlived the deadline.                                 *)
NoPanicInTime == (\E e \in Event : stage[e] = "panicked") => late

(* The process comes to its end after the signal, whatever handlers and      *)
(* sinks do.                                                                *)
EventuallyStops == (server = "http") ~> Stopped

(* An accepted event is through with every sink after a bounded number of    *)
(* attempts, unless the deadline of the shutdown cuts that short.           *)
AcceptedIsSettled == \A e \in Event : (e \in Accepted) ~> (Settled(e) \/ late)
=============================================================================
