---------------------------- MODULE TelemetryProofs ----------------------------
(***************************************************************************)
(* Proofs about Telemetry, for any number of events, workers and sinks,    *)
(* any capacity and any number of attempts: no accepted event goes astray, *)
(* a drain that meets the deadline loses none, and no handler meets the    *)
(* closed channel before the deadline.  And about Queue, for any number of *)
(* events, pollers and processes and any number of faults: what is deleted *)
(* has been counted, and a redelivery inflates nothing.                    *)
(***************************************************************************)
EXTENDS TelemetryPromises, QueuePromises, FiniteSetTheorems, SequenceTheorems, TLAPS

USE TelemetryAssumption

(* What a worker knows: it holds an event exactly while it is busy, and the *)
(* sinks before the current one are through with it.                       *)
Diligent(w) ==
  /\ worker[w].pc = "busy" <=> worker[w].event # NoEvent
  /\ worker[w].pc = "busy" =>
       \A s \in Sink : s < worker[w].sink => <<worker[w].event, s>> \in delivered \cup failed
  /\ worker[w].pc = "exited" => chClosed /\ ch = <<>>

(* The order of the shutdown. *)
InOrder ==
  /\ server \in {"serving", "http", "flag"} => ~closed
  /\ chClosed => server \in {"wait", "drained", "expired"}
  /\ server = "drained" => \A w \in Worker : worker[w].pc = "exited"
  /\ server \notin {"serving", "http"} /\ ~late => InFlight = {}

TInv ==
  /\ TelemetryTypeOK
  /\ EveryEventSomewhere
  /\ \A w \in Worker : Diligent(w)
  /\ InOrder
  /\ NoPanicInTime

-----------------------------------------------------------------------------
LEMMA IdleTyped == Idle \in WorkerState
  BY DEF Idle, WorkerState, Sink

LEMMA InitTInv == TelemetryInit => TInv
<1> SUFFICES ASSUME TelemetryInit PROVE TInv
  OBVIOUS
<1> USE DEF TelemetryInit
<1>1. TelemetryTypeOK
  <2>1. Idle \in WorkerState
    BY IdleTyped
  <2>2. ch \in Seq(Event) /\ Len(ch) <= Buffer
    OBVIOUS
  <2>3. stage \in [Event -> Stage] /\ worker \in [Worker -> WorkerState]
    BY <2>1 DEF Stage
  <2>4. stats \in Counters
    BY DEF Counters
  <2> QED BY <2>2, <2>3, <2>4 DEF TelemetryTypeOK
<1>2. EveryEventSomewhere
  BY DEF EveryEventSomewhere, Queued, Held, Accepted, Idle
<1>3. \A w \in Worker : Diligent(w)
  BY DEF Diligent, Idle
<1>4. InOrder /\ NoPanicInTime
  BY DEF InOrder, NoPanicInTime
<1> QED BY <1>1, <1>2, <1>3, <1>4 DEF TInv

-----------------------------------------------------------------------------
(* Types *)

LEMMA CountersCount ==
  ASSUME NEW c \in Counters
  PROVE  /\ [c EXCEPT !.published = @ + 1] \in Counters
         /\ [c EXCEPT !.processed = @ + 1] \in Counters
         /\ [c EXCEPT !.dropped = @ + 1] \in Counters
         /\ [c EXCEPT !.failed = @ + 1] \in Counters
  BY DEF Counters

LEMMA PublishTyped ==
  ASSUME TInv, NEW e \in Event, Publish(e)
  PROVE  TelemetryTypeOK'
<1> USE DEF TInv, TelemetryTypeOK, Stage
<1>1. CASE Check(e)
  BY <1>1, CountersCount DEF Check, Drop, busVars
<1>2. CASE SendPanics(e)
  BY <1>2 DEF SendPanics, busVars
<1>3. CASE Send(e)
  <2>1. ch' = Append(ch, e) /\ Len(ch) < Buffer /\ ch \in Seq(Event)
    BY <1>3 DEF Send
  <2>2. ch' \in Seq(Event) /\ Len(ch') <= Buffer
    BY <2>1
  <2> QED BY <1>3, <2>2 DEF Send
<1>4. CASE SendFull(e)
  BY <1>4, CountersCount DEF SendFull, Drop
<1>5. CASE Count(e)
  BY <1>5, CountersCount DEF Count
<1> QED BY <1>1, <1>2, <1>3, <1>4, <1>5 DEF Publish

LEMMA NextSinkTyped ==
  ASSUME TInv, NEW w \in Worker, worker[w].pc = "busy",
         NEW totals \in Counters,
         NextSink(w, totals)
  PROVE  /\ worker' \in [Worker -> WorkerState]
         /\ stats' \in Counters
<1> USE DEF TInv, TelemetryTypeOK
<1>1. worker[w] \in WorkerState
  OBVIOUS
<1>2. CASE worker[w].sink < NumSinks
  <2>1. worker[w].sink + 1 \in Sink /\ 1 \in 1..MaxAttempts
    BY <1>1, <1>2 DEF WorkerState, Sink
  <2>2. [worker EXCEPT ![w].sink = @ + 1, ![w].attempt = 1] \in [Worker -> WorkerState]
    BY <2>1 DEF WorkerState
  <2> QED BY <1>2, <2>2 DEF NextSink
<1>3. CASE ~(worker[w].sink < NumSinks)
  BY <1>3, IdleTyped, CountersCount DEF NextSink
<1> QED BY <1>2, <1>3

LEMMA WorkerTyped ==
  ASSUME TInv, NEW w \in Worker, WorkerLoop(w)
  PROVE  TelemetryTypeOK'
<1> USE DEF TInv, TelemetryTypeOK
<1>1. worker[w] \in WorkerState
  OBVIOUS
<1>2. CASE Take(w)
  <2>1. ch # <<>> /\ ch' = Tail(ch) /\ ch \in Seq(Event)
    BY <1>2 DEF Take
  <2>2. Head(ch) \in Event /\ ch' \in Seq(Event) /\ Len(ch') <= Buffer
    BY <2>1
  <2>3. 1 \in Sink /\ 1 \in 1..MaxAttempts
    BY DEF Sink
  <2>4. Busy(Head(ch)) \in WorkerState
    BY <2>2, <2>3 DEF Busy, WorkerState
  <2> QED BY <1>2, <2>2, <2>4 DEF Take
<1>3. CASE Handled(w)
  <2>1. Here(w) \in Event \X Sink
    BY <1>1, <1>3 DEF Handled, Here, WorkerState, Diligent
  <2> QED BY <1>3, <2>1, NextSinkTyped DEF Handled
<1>4. CASE WorkerExit(w)
  <2>1. [worker EXCEPT ![w].pc = "exited"] \in [Worker -> WorkerState]
    BY DEF WorkerState
  <2> QED BY <1>4, <2>1 DEF WorkerExit
<1>5. ASSUME NEW permanent \in BOOLEAN, HandleFails(w, permanent)
      PROVE  TelemetryTypeOK'
  <2>1. Here(w) \in Event \X Sink
    BY <1>1, <1>5 DEF HandleFails, Here, WorkerState, Diligent
  <2>2. CASE permanent \/ worker[w].attempt = MaxAttempts
    <3>1. [stats EXCEPT !.failed = @ + 1]
            \in Counters
      BY CountersCount
    <3> QED BY <1>5, <2>1, <2>2, <3>1, NextSinkTyped DEF HandleFails, GiveUp
  <2>3. CASE ~(permanent \/ worker[w].attempt = MaxAttempts)
    <3>1. worker[w].attempt + 1 \in 1..MaxAttempts
      BY <1>1, <2>3 DEF WorkerState
    <3>2. [worker EXCEPT ![w].attempt = @ + 1] \in [Worker -> WorkerState]
      BY <3>1 DEF WorkerState
    <3> QED BY <1>5, <2>3, <3>2 DEF HandleFails
  <2> QED BY <2>2, <2>3
<1> QED BY <1>2, <1>3, <1>4, <1>5 DEF WorkerLoop

LEMMA ServerTyped ==
  ASSUME TInv, Signal \/ Shutdown
  PROVE  TelemetryTypeOK'
BY DEF TInv, TelemetryTypeOK, Signal, Shutdown, Deadline, HttpShutdown, CloseFlag,
       CloseChannel, Drained, Expired, Goto, busVars

-----------------------------------------------------------------------------
(* Where the events are *)

(* A handler's step moves its event and nothing else; only a send, on the    *)
(* open channel, puts one in.                                               *)
LEMMA PublishPlaces ==
  ASSUME TInv, NEW e \in Event, Publish(e)
  PROVE  EveryEventSomewhere' /\ \A w \in Worker : Diligent(w)'
<1> USE DEF TInv, EveryEventSomewhere, Accepted
<1>1. CASE Check(e) \/ SendPanics(e) \/ SendFull(e)
  <2>1. /\ stage[e] \in {"handling", "open"}
        /\ stage' = [stage EXCEPT ![e] = stage'[e]] /\ stage'[e] \notin {"sent", "published"}
        /\ UNCHANGED <<ch, chClosed, worker, delivered, failed>>
    BY <1>1 DEF Check, SendPanics, SendFull, Drop, busVars, TelemetryTypeOK
  <2>2. Accepted' = Accepted
    BY <2>1 DEF TelemetryTypeOK
  <2>3. Queued' = Queued /\ Held' = Held
    BY <2>1 DEF Queued, Held
  <2>4. \A w \in Worker : Diligent(w)'
    BY <2>1 DEF Diligent
  <2> QED BY <2>1, <2>2, <2>3, <2>4 DEF Settled
<1>2. CASE Send(e)
  <2>1. /\ ch' = Append(ch, e) /\ ch \in Seq(Event) /\ ~chClosed
        /\ stage[e] = "open" /\ stage' = [stage EXCEPT ![e] = "sent"]
        /\ UNCHANGED <<chClosed, worker, delivered, failed>>
    BY <1>2 DEF Send, TelemetryTypeOK
  <2>2. e \notin Accepted /\ Accepted' = Accepted \cup {e}
    BY <2>1 DEF TelemetryTypeOK
  <2>3. e \notin Queued /\ e \notin Held
    BY <2>2
  <2>4. /\ Queued' = Queued \cup {e}
        /\ \A i, j \in DOMAIN ch' : ch'[i] = ch'[j] => i = j
    BY <2>1, <2>3 DEF Queued
  <2>5. Held' = Held
    BY <2>1 DEF Held
  <2>6. \A w \in Worker : Diligent(w)'
    BY <2>1 DEF Diligent
  <2> QED BY <2>1, <2>2, <2>3, <2>4, <2>5, <2>6 DEF Settled
<1>3. CASE Count(e)
  <2>1. /\ stage[e] = "sent" /\ stage' = [stage EXCEPT ![e] = "published"]
        /\ UNCHANGED <<ch, chClosed, worker, delivered, failed>>
    BY <1>3 DEF Count
  <2>2. Accepted' = Accepted
    BY <2>1 DEF TelemetryTypeOK
  <2> QED BY <2>1, <2>2 DEF Queued, Held, Settled, Diligent
<1> QED BY <1>1, <1>2, <1>3 DEF Publish

(* The head of the channel changes hands. *)
LEMMA TakeMoves ==
  ASSUME TInv, NEW w \in Worker, Take(w)
  PROVE  /\ Queued' = Queued \ {Head(ch)} /\ Held' = Held \cup {Head(ch)}
         /\ \A i, j \in DOMAIN ch' : ch'[i] = ch'[j] => i = j
<1> USE DEF TInv, EveryEventSomewhere
<1> DEFINE e == Head(ch)
<1>1. /\ ch # <<>> /\ ch \in Seq(Event) /\ ch' = Tail(ch)
      /\ worker[w].pc = "idle" /\ worker' = [worker EXCEPT ![w] = Busy(e)]
      /\ worker \in [Worker -> WorkerState]
  BY DEF Take, TelemetryTypeOK
<1>2. worker[w].event = NoEvent
  BY <1>1 DEF Diligent
<1>3. Queued' = Queued \ {e} /\ \A i, j \in DOMAIN ch' : ch'[i] = ch'[j] => i = j
  <2>1. /\ DOMAIN ch = 1..Len(ch) /\ Len(ch) \in Nat \ {0} /\ DOMAIN ch' = 1..(Len(ch) - 1)
        /\ \A i \in DOMAIN ch' : ch'[i] = ch[i + 1]
    BY <1>1
  <2>2. \A i, j \in DOMAIN ch' : ch'[i] = ch'[j] => i = j
    BY <2>1
  <2>3. ASSUME NEW f \in Queued' PROVE f \in Queued \ {e}
    <3>1. PICK i \in DOMAIN ch' : f = ch'[i]
      BY DEF Queued
    <3>2. i + 1 \in DOMAIN ch /\ 1 \in DOMAIN ch /\ i + 1 # 1
      BY <2>1
    <3> QED BY <2>1, <3>1, <3>2, <1>1 DEF Queued
  <2>4. ASSUME NEW f \in Queued, f # e PROVE f \in Queued'
    <3>1. PICK i \in DOMAIN ch : f = ch[i]
      BY DEF Queued
    <3>2. i # 1
      BY <2>4, <3>1, <1>1
    <3>3. i - 1 \in DOMAIN ch' /\ ch'[i - 1] = f
      BY <2>1, <3>1, <3>2
    <3> QED BY <3>3 DEF Queued
  <2> QED BY <2>2, <2>3, <2>4
<1>4. Held' = Held \cup {e}
  BY <1>1, <1>2 DEF Held, Busy
<1> QED BY <1>3, <1>4

LEMMA TakePlaces ==
  ASSUME TInv, NEW w \in Worker, Take(w)
  PROVE  EveryEventSomewhere' /\ \A v \in Worker : Diligent(v)'
<1> USE DEF TInv, EveryEventSomewhere
<1> DEFINE e == Head(ch)
<1>1. /\ ch # <<>> /\ ch \in Seq(Event) /\ ch' = Tail(ch)
      /\ worker[w].pc = "idle" /\ worker' = [worker EXCEPT ![w] = Busy(e)]
      /\ worker \in [Worker -> WorkerState]
      /\ UNCHANGED <<chClosed, stage, delivered, failed>>
  BY DEF Take, TelemetryTypeOK
<1>2. e \in Queued /\ e \in Event /\ worker[w].event = NoEvent
  BY <1>1 DEF Queued, Diligent
<1>3. Queued' = Queued \ {e} /\ \A i, j \in DOMAIN ch' : ch'[i] = ch'[j] => i = j
  BY TakeMoves
<1>4. Held' = Held \cup {e}
  BY TakeMoves
<1>5. Accepted' = Accepted /\ \A f \in Event : Settled(f)' <=> Settled(f)
  BY <1>1 DEF Accepted, Settled
<1>6. \A v, u \in Worker :
        worker'[v].event = worker'[u].event /\ v # u => worker'[v].event = NoEvent
  BY <1>1, <1>2 DEF Held, Busy
<1>7. ASSUME NEW v \in Worker PROVE Diligent(v)'
  <2>1. CASE v = w
    BY <1>1, <1>2, <2>1 DEF Diligent, Busy, Sink
  <2>2. CASE v # w
    <3>1. worker'[v] = worker[v]
      BY <1>1, <2>2
    <3> QED BY <1>1, <3>1 DEF Diligent
  <2> QED BY <2>1, <2>2
<1> QED BY <1>1, <1>2, <1>3, <1>4, <1>5, <1>6, <1>7 DEF Accepted

(* A sink is through with an event: it stays with its worker, or leaves the  *)
(* bus settled.                                                             *)
LEMMA NextSinkPlaces ==
  ASSUME TInv, NEW w \in Worker, worker[w].pc = "busy", NEW totals, NextSink(w, totals),
         delivered' \cup failed' = delivered \cup failed \cup {Here(w)},
         UNCHANGED <<ch, chClosed, stage>>
  PROVE  EveryEventSomewhere' /\ \A v \in Worker : Diligent(v)'
<1> USE DEF TInv, EveryEventSomewhere
<1> DEFINE e == worker[w].event
<1>1. /\ worker \in [Worker -> WorkerState] /\ worker[w] \in WorkerState
      /\ e \in Event /\ e \in Held /\ worker[w].sink \in Sink
  BY DEF TelemetryTypeOK, WorkerState, Diligent, Held
<1>2. /\ Queued' = Queued /\ Accepted' = Accepted
      /\ \A f \in Event : Settled(f) => Settled(f)'
      /\ \A f \in Event, s \in Sink :
           f # e => (<<f, s>> \in (delivered \cup failed)' <=> <<f, s>> \in delivered \cup failed)
  BY DEF Queued, Accepted, Settled, Here
<1>3. \A v \in Worker : v # w => worker'[v] = worker[v] /\ worker[v].event # e
  BY <1>1 DEF NextSink
<1>4. \A v \in Worker : v # w => Diligent(v)'
  BY <1>3 DEF Diligent
<1>5. CASE worker[w].sink < NumSinks
  <2>1. /\ worker'[w].event = e /\ worker'[w].pc = "busy"
        /\ worker'[w].sink = worker[w].sink + 1
    BY <1>1, <1>5 DEF NextSink, WorkerState
  <2>2. Held' = Held
    BY <1>3, <2>1 DEF Held
  <2>3. \A s \in Sink : s < worker'[w].sink => <<e, s>> \in (delivered \cup failed)'
    BY <1>1, <2>1 DEF Diligent, Here, Sink
  <2>4. Diligent(w)'
    BY <1>1, <2>1, <2>3 DEF Diligent
  <2> QED BY <1>1, <1>2, <1>3, <1>4, <2>1, <2>2, <2>4 DEF Accepted
<1>6. CASE ~(worker[w].sink < NumSinks)
  <2>1. worker'[w] = Idle
    BY <1>1, <1>6 DEF NextSink
  <2>2. Held' = Held \ {e}
    BY <1>1, <1>3, <2>1 DEF Held, Idle
  <2>3. worker[w].sink = NumSinks
    BY <1>1, <1>6 DEF Sink
  <2>4. ASSUME NEW s \in Sink PROVE <<e, s>> \in (delivered \cup failed)'
    <3>1. s < worker[w].sink \/ s = worker[w].sink
      BY <2>3 DEF Sink
    <3>2. CASE s < worker[w].sink
      BY <3>2 DEF Diligent
    <3>3. CASE s = worker[w].sink
      BY <3>3 DEF Here
    <3> QED BY <3>1, <3>2, <3>3
  <2>5. Diligent(w)'
    BY <2>1 DEF Diligent, Idle
  <2>6. \A v \in Worker : Diligent(v)'
    BY <1>4, <2>5
  <2>7. \A v, u \in Worker :
          worker'[v].event = worker'[u].event /\ v # u => worker'[v].event = NoEvent
    <3>1. worker'[w].event = NoEvent
      BY <2>1 DEF Idle
    <3>2. ASSUME NEW v \in Worker, NEW u \in Worker, v # u,
                 worker'[v].event = worker'[u].event
          PROVE  worker'[v].event = NoEvent
      BY <1>3, <3>1, <3>2
    <3> QED BY <3>2
  <2>8. \A f \in Accepted' : f \notin Queued' \cup Held' => Settled(f)'
    BY <1>2, <2>2, <2>4 DEF Accepted, Settled
  <2>9. \A f \in Event, s \in Sink :
          f \in Queued' \/ f \notin Accepted' => <<f, s>> \notin (delivered \cup failed)'
    BY <1>1, <1>2 DEF Accepted
  <2>10. Queued' \subseteq Event
    BY <1>2 DEF Accepted
  <2> QED BY <1>2, <2>2, <2>6, <2>7, <2>8, <2>9, <2>10
<1> QED BY <1>5, <1>6

LEMMA WorkerPlaces ==
  ASSUME TInv, NEW w \in Worker, WorkerLoop(w)
  PROVE  EveryEventSomewhere' /\ \A v \in Worker : Diligent(v)'
<1>1. CASE Take(w)
  BY <1>1, TakePlaces
<1>2. CASE Handled(w)
  <2>1. delivered' \cup failed' = delivered \cup failed \cup {Here(w)}
    BY <1>2 DEF Handled
  <2> QED BY <1>2, <2>1, NextSinkPlaces DEF Handled
<1>3. CASE WorkerExit(w)
  <2>1. /\ worker' = [worker EXCEPT ![w].pc = "exited"] /\ worker[w].pc = "idle"
        /\ chClosed /\ ch = <<>> /\ worker \in [Worker -> WorkerState]
        /\ UNCHANGED <<ch, chClosed, stage, delivered, failed>>
    BY <1>3 DEF WorkerExit, TInv, TelemetryTypeOK
  <2>2. \A v \in Worker : worker'[v].event = worker[v].event
    BY <2>1 DEF WorkerState
  <2>3. Held' = Held /\ Queued' = Queued /\ Accepted' = Accepted
    BY <2>1, <2>2 DEF Held, Queued, Accepted
  <2>4. ASSUME NEW v \in Worker PROVE Diligent(v)'
    BY <2>1, <2>2 DEF Diligent, TInv, WorkerState
  <2> QED BY <2>1, <2>2, <2>3, <2>4 DEF TInv, EveryEventSomewhere, Settled
<1>4. ASSUME NEW permanent \in BOOLEAN, HandleFails(w, permanent)
      PROVE  EveryEventSomewhere' /\ \A v \in Worker : Diligent(v)'
  <2>1. CASE permanent \/ worker[w].attempt = MaxAttempts
    <3>1. delivered' \cup failed' = delivered \cup failed \cup {Here(w)}
      BY <1>4, <2>1 DEF HandleFails, GiveUp
    <3> QED BY <1>4, <2>1, <3>1, NextSinkPlaces DEF HandleFails, GiveUp
  <2>2. CASE ~(permanent \/ worker[w].attempt = MaxAttempts)
    <3>1. /\ worker' = [worker EXCEPT ![w].attempt = @ + 1]
          /\ worker \in [Worker -> WorkerState]
          /\ UNCHANGED <<ch, chClosed, stage, delivered, failed>>
      BY <1>4, <2>2 DEF HandleFails, TInv, TelemetryTypeOK
    <3>2. \A v \in Worker : /\ worker'[v].event = worker[v].event
                            /\ worker'[v].pc = worker[v].pc
                            /\ worker'[v].sink = worker[v].sink
      BY <3>1 DEF WorkerState
    <3>3. Held' = Held /\ Queued' = Queued /\ Accepted' = Accepted
      BY <3>1, <3>2 DEF Held, Queued, Accepted
    <3>4. ASSUME NEW v \in Worker PROVE Diligent(v)'
      BY <3>1, <3>2 DEF Diligent, TInv
    <3> QED BY <3>1, <3>2, <3>3, <3>4 DEF TInv, EveryEventSomewhere, Settled
  <2> QED BY <2>1, <2>2
<1> QED BY <1>1, <1>2, <1>3, <1>4 DEF WorkerLoop

LEMMA ServerPlaces ==
  ASSUME TInv, Signal \/ Shutdown
  PROVE  EveryEventSomewhere' /\ \A v \in Worker : Diligent(v)'
<1>1. /\ UNCHANGED <<ch, worker, stage, delivered, failed>>
      /\ chClosed => chClosed'
  BY DEF Signal, Shutdown, Deadline, HttpShutdown, CloseFlag, CloseChannel, Drained, Expired, busVars
<1> QED BY <1>1 DEF TInv, EveryEventSomewhere, Queued, Held, Accepted, Settled, Diligent

-----------------------------------------------------------------------------
(* The order of the shutdown *)

LEMMA PublishOrder ==
  ASSUME TInv, NEW e \in Event, Publish(e)
  PROVE  InOrder' /\ NoPanicInTime'
<1> USE DEF TInv, TelemetryTypeOK, InOrder, NoPanicInTime, InFlight
<1>1. /\ stage[e] \in {"handling", "open", "sent"} /\ stage \in [Event -> Stage]
      /\ stage' = [stage EXCEPT ![e] = stage'[e]]
      /\ stage'[e] = "panicked" => chClosed
      /\ UNCHANGED <<closed, chClosed, worker, server, late>>
  BY DEF Publish, Check, SendPanics, Send, SendFull, Count, Drop, busVars
<1>2. e \in InFlight
  BY <1>1
<1>3. late \/ server \in {"serving", "http"}
  BY <1>2
<1>4. NoPanicInTime'
  BY <1>1, <1>3
<1> QED BY <1>1, <1>3, <1>4

LEMMA WorkerOrder ==
  ASSUME TInv, NEW w \in Worker, WorkerLoop(w), server # "drained"
  PROVE  InOrder' /\ NoPanicInTime'
<1>1. UNCHANGED <<closed, chClosed, stage, server, late>>
  BY DEF WorkerLoop, Take, Handled, WorkerExit, HandleFails
<1> QED BY <1>1 DEF TInv, InOrder, NoPanicInTime, InFlight

LEMMA ServerOrder ==
  ASSUME TInv, Signal \/ Shutdown
  PROVE  InOrder' /\ NoPanicInTime'
BY DEF TInv, InOrder, NoPanicInTime, InFlight, Signal, Shutdown, Deadline, HttpShutdown,
       CloseFlag, CloseChannel, Drained, Expired, Goto, busVars

-----------------------------------------------------------------------------
LEMMA ArriveTInv ==
  ASSUME TInv, NEW e \in Event, Arrive(e)
  PROVE  TInv'
<1>1. /\ server = "serving" /\ stage[e] = "new"
      /\ stage' = [stage EXCEPT ![e] = "handling"] /\ stage \in [Event -> Stage]
      /\ UNCHANGED <<ch, closed, chClosed, worker, delivered, failed, stats, server, late>>
  BY DEF Arrive, busVars, TInv, TelemetryTypeOK
<1>2. TelemetryTypeOK'
  BY <1>1 DEF TInv, TelemetryTypeOK, Stage
<1>3. Accepted' = Accepted
  BY <1>1 DEF Accepted
<1>4. EveryEventSomewhere' /\ \A w \in Worker : Diligent(w)'
  BY <1>1, <1>3 DEF TInv, EveryEventSomewhere, Queued, Held, Settled, Diligent
<1>5. InOrder' /\ NoPanicInTime'
  BY <1>1 DEF TInv, InOrder, NoPanicInTime, InFlight
<1> QED BY <1>2, <1>4, <1>5 DEF TInv

LEMMA NextTInv == TInv /\ [TelemetryNext]_teleVars => TInv'
<1> SUFFICES ASSUME TInv, [TelemetryNext]_teleVars PROVE TInv'
  OBVIOUS
<1>1. CASE UNCHANGED teleVars
  <2>1. UNCHANGED <<ch, closed, chClosed, worker, delivered, failed, stats, stage, server, late>>
    BY <1>1 DEF teleVars, busVars
  <2>2. TelemetryTypeOK'
    BY <2>1 DEF TInv, TelemetryTypeOK
  <2>3. EveryEventSomewhere' /\ \A w \in Worker : Diligent(w)'
    BY <2>1 DEF TInv, EveryEventSomewhere, Accepted, Queued, Held, Settled, Diligent
  <2>4. InOrder' /\ NoPanicInTime'
    BY <2>1 DEF TInv, InOrder, InFlight, NoPanicInTime
  <2> QED BY <2>2, <2>3, <2>4 DEF TInv
<1>2. ASSUME NEW e \in Event, Arrive(e) PROVE TInv'
  BY <1>2, ArriveTInv
<1>3. ASSUME NEW e \in Event, Publish(e) PROVE TInv'
  BY <1>3, PublishTyped, PublishPlaces, PublishOrder DEF TInv
<1>4. ASSUME ~Stopped, NEW w \in Worker, WorkerLoop(w) PROVE TInv'
  BY <1>4, WorkerTyped, WorkerPlaces, WorkerOrder DEF TInv, Stopped
<1>5. CASE Signal \/ Shutdown
  BY <1>5, ServerTyped, ServerPlaces, ServerOrder DEF TInv
<1> QED BY <1>1, <1>2, <1>3, <1>4, <1>5 DEF TelemetryNext

(* Types, and the places of the events: an accepted event is in the channel, *)
(* with one worker, or settled by every sink (Bus.Publish, worker, deliver). *)
THEOREM NothingGoesAstray == TelemetrySpec => [](TelemetryTypeOK /\ EveryEventSomewhere)
<1>1. TelemetrySpec => []TInv
  BY InitTInv, NextTInv, PTL DEF TelemetrySpec
<1>2. TInv => TelemetryTypeOK /\ EveryEventSomewhere
  BY DEF TInv
<1> QED BY <1>1, <1>2, PTL

(* A drain that ends before its deadline has lost no accepted event          *)
(* (Bus.Shutdown).                                                          *)
THEOREM DrainIsComplete == TelemetrySpec => []CleanShutdownLosesNothing
<1>1. TelemetrySpec => []TInv
  BY InitTInv, NextTInv, PTL DEF TelemetrySpec
<1>2. TInv => CleanShutdownLosesNothing
  <2> SUFFICES ASSUME TInv, server = "drained", NEW e \in Accepted PROVE Settled(e)
    BY DEF CleanShutdownLosesNothing
  <2>1. \A w \in Worker : worker[w].pc = "exited" /\ worker[w].event = NoEvent
    BY DEF TInv, InOrder, Diligent
  <2>2. ch = <<>>
    BY <2>1 DEF TInv, Diligent
  <2>3. e \notin Queued /\ e \notin Held
    BY <2>1, <2>2 DEF Queued, Held
  <2> QED BY <2>3 DEF TInv, EveryEventSomewhere
<1> QED BY <1>1, <1>2, PTL

(* No handler sends on the closed channel before the deadline has passed     *)
(* (run in cmd/api, Bus.Publish).                                           *)
THEOREM NoSendOnClosed == TelemetrySpec => []NoPanicInTime
<1>1. TelemetrySpec => []TInv
  BY InitTInv, NextTInv, PTL DEF TelemetrySpec
<1>2. TInv => NoPanicInTime
  BY DEF TInv
<1> QED BY <1>1, <1>2, PTL

-----------------------------------------------------------------------------
(* The counters *)

StandsAt(place) == {e \in Event : stage[e] = place}
Through == Accepted \ (Queued \cup Held)

(* Every counter is the size of a set; and a sink that a worker has not come *)
(* to yet has not been given up, so that it cannot be counted twice.        *)
CInv ==
  /\ stats.published = Cardinality(StandsAt("published"))
  /\ stats.dropped = Cardinality(StandsAt("dropped"))
  /\ stats.processed = Cardinality(Through)
  /\ stats.failed = Cardinality(failed)
  /\ \A w \in Worker : worker[w].pc = "busy" =>
       \A s \in Sink : s >= worker[w].sink => <<worker[w].event, s>> \notin failed

LEMMA OneMore ==
  ASSUME NEW S, IsFiniteSet(S), NEW x, x \notin S
  PROVE  Cardinality(S \cup {x}) = Cardinality(S) + 1
  BY FS_AddElement

LEMMA AllFinite ==
  ASSUME TInv
  PROVE  /\ \A place \in Stage : IsFiniteSet(StandsAt(place))
         /\ IsFiniteSet(Through) /\ IsFiniteSet(failed)
<1>1. \A place \in Stage : StandsAt(place) \subseteq Event
  BY DEF StandsAt
<1>2. Through \subseteq Event
  BY DEF Through, Accepted
<1>3. IsFiniteSet(Event \X Sink)
  <2>1. IsFiniteSet(Sink)
    BY FS_Interval DEF Sink
  <2> QED BY <2>1, FS_Product
<1>4. failed \subseteq Event \X Sink
  BY DEF TInv, TelemetryTypeOK
<1>5. IsFiniteSet(failed)
  BY <1>3, <1>4, FS_Subset
<1>6. \A T \in SUBSET Event : IsFiniteSet(T)
  BY FS_Subset
<1>7. IsFiniteSet(Through) /\ \A place \in Stage : IsFiniteSet(StandsAt(place))
  BY <1>1, <1>2, <1>6
<1> QED BY <1>5, <1>7

LEMMA AppendQueued ==
  ASSUME ch \in Seq(Event), NEW e \in Event, ch' = Append(ch, e)
  PROVE  Queued' = Queued \cup {e}
<1>1. /\ DOMAIN ch = 1..Len(ch) /\ DOMAIN ch' = 1..(Len(ch) + 1) /\ Len(ch) \in Nat
      /\ ch'[Len(ch) + 1] = e /\ \A i \in DOMAIN ch : ch'[i] = ch[i]
  OBVIOUS
<1>2. \A i \in DOMAIN ch' : i \in DOMAIN ch \/ i = Len(ch) + 1
  BY <1>1
<1>3. DOMAIN ch \subseteq DOMAIN ch' /\ Len(ch) + 1 \in DOMAIN ch'
  BY <1>1
<1> QED BY <1>1, <1>2, <1>3 DEF Queued

LEMMA PublishCounts ==
  ASSUME TInv, CInv, NEW e \in Event, Publish(e)
  PROVE  CInv'
<1> USE DEF TInv, TelemetryTypeOK, CInv
<1>1. stage \in [Event -> Stage] /\ stats \in Counters
  OBVIOUS
<1>2. CASE (Check(e) /\ ~closed) \/ SendPanics(e)
  <2>1. /\ stage[e] \in {"handling", "open"} /\ stage' = [stage EXCEPT ![e] = stage'[e]]
        /\ stage'[e] \in {"open", "panicked"}
        /\ UNCHANGED <<ch, worker, failed, stats>>
    BY <1>2 DEF Check, SendPanics, busVars
  <2>2. /\ StandsAt("published")' = StandsAt("published") /\ StandsAt("dropped")' = StandsAt("dropped")
        /\ Through' = Through
    BY <1>1, <2>1 DEF StandsAt, Through, Accepted, Queued, Held
  <2> QED BY <2>1, <2>2
<1>3. CASE (Check(e) /\ closed) \/ SendFull(e)
  <2>1. /\ stage[e] \in {"handling", "open"} /\ stage' = [stage EXCEPT ![e] = "dropped"]
        /\ stats' = [stats EXCEPT !.dropped = @ + 1]
        /\ UNCHANGED <<ch, worker, failed>>
    BY <1>3 DEF Check, SendFull, Drop
  <2>2. /\ StandsAt("published")' = StandsAt("published") /\ StandsAt("dropped")' = StandsAt("dropped") \cup {e}
        /\ e \notin StandsAt("dropped") /\ Through' = Through
    BY <1>1, <2>1 DEF StandsAt, Through, Accepted, Queued, Held
  <2>3. Cardinality(StandsAt("dropped")') = Cardinality(StandsAt("dropped")) + 1
    BY <2>2, OneMore, AllFinite DEF Stage
  <2> QED BY <1>1, <2>1, <2>2, <2>3 DEF Counters
<1>4. CASE Send(e)
  <2>1. /\ ch' = Append(ch, e) /\ ch \in Seq(Event)
        /\ stage[e] = "open" /\ stage' = [stage EXCEPT ![e] = "sent"]
        /\ UNCHANGED <<worker, failed, stats>>
    BY <1>4 DEF Send
  <2>2. Queued' = Queued \cup {e} /\ Held' = Held
    BY <2>1, AppendQueued DEF Held
  <2>3. /\ StandsAt("published")' = StandsAt("published") /\ StandsAt("dropped")' = StandsAt("dropped")
        /\ Accepted' = Accepted \cup {e} /\ e \notin Accepted
    BY <1>1, <2>1 DEF StandsAt, Accepted
  <2>4. Through' = Through
    BY <2>2, <2>3 DEF Through
  <2> QED BY <2>1, <2>3, <2>4
<1>5. CASE Count(e)
  <2>1. /\ stage[e] = "sent" /\ stage' = [stage EXCEPT ![e] = "published"]
        /\ stats' = [stats EXCEPT !.published = @ + 1]
        /\ UNCHANGED <<ch, worker, failed>>
    BY <1>5 DEF Count
  <2>2. /\ StandsAt("published")' = StandsAt("published") \cup {e} /\ StandsAt("dropped")' = StandsAt("dropped")
        /\ e \notin StandsAt("published") /\ Through' = Through
    BY <1>1, <2>1 DEF StandsAt, Through, Accepted, Queued, Held
  <2>3. Cardinality(StandsAt("published")') = Cardinality(StandsAt("published")) + 1
    BY <2>2, OneMore, AllFinite DEF Stage
  <2> QED BY <1>1, <2>1, <2>2, <2>3 DEF Counters
<1> QED BY <1>2, <1>3, <1>4, <1>5 DEF Publish

LEMMA NextSinkCounts ==
  ASSUME TInv, CInv, NEW w \in Worker, worker[w].pc = "busy", NEW totals \in Counters,
         NextSink(w, totals), totals.processed = stats.processed,
         EveryEventSomewhere',
         failed' \in {failed, failed \cup {Here(w)}}, UNCHANGED <<ch, stage>>
  PROVE  /\ \A v \in Worker : worker'[v].pc = "busy" =>
               \A s \in Sink : s >= worker'[v].sink => <<worker'[v].event, s>> \notin failed'
         /\ stats'.processed = Cardinality(Through')
         /\ stats' \in Counters
         /\ stats'.published = totals.published
         /\ stats'.dropped = totals.dropped
         /\ stats'.failed = totals.failed
<1> USE DEF TInv, TelemetryTypeOK
<1> PICK e : e = worker[w].event
  OBVIOUS
<1>1. /\ worker \in [Worker -> WorkerState] /\ worker[w] \in WorkerState
      /\ e \in Event /\ worker[w].sink \in Sink
  BY DEF WorkerState, Diligent
<1>2. \A v \in Worker : v # w => worker'[v] = worker[v] /\ worker[v].event # e
  BY <1>1 DEF NextSink, EveryEventSomewhere
<1>3. Queued' = Queued /\ Accepted' = Accepted
  BY DEF Queued, Accepted
<1>4. ASSUME NEW v \in Worker, v # w, worker'[v].pc = "busy",
             NEW s \in Sink, s >= worker'[v].sink
      PROVE  <<worker'[v].event, s>> \notin failed'
  BY <1>2, <1>4 DEF CInv, Here
<1>5. CASE worker[w].sink < NumSinks
  <2>1. /\ worker'[w].event = e /\ worker'[w].pc = "busy"
        /\ worker'[w].sink = worker[w].sink + 1 /\ stats' = totals
    BY <1>1, <1>5 DEF NextSink, WorkerState
  <2>2. Held' = Held
    BY <1>2, <2>1 DEF Held
  <2>3. Through' = Through
    BY <1>3, <2>2 DEF Through
  <2>4. ASSUME NEW s \in Sink, s >= worker'[w].sink PROVE <<e, s>> \notin failed'
    <3>1. s >= worker[w].sink /\ s # worker[w].sink
      BY <1>1, <2>1, <2>4 DEF Sink
    <3> QED BY <3>1 DEF CInv, Here
  <2>5. stats'.processed = Cardinality(Through')
    BY <2>1, <2>3 DEF CInv
  <2> QED BY <1>4, <2>1, <2>4, <2>5
<1>6. CASE ~(worker[w].sink < NumSinks)
  <2>1. worker'[w] = Idle /\ stats' = [totals EXCEPT !.processed = @ + 1]
    BY <1>1, <1>6 DEF NextSink
  <2>2. Held' = Held \ {e} /\ e \in Held
    BY <1>1, <1>2, <2>1 DEF Held, Idle
  <2>3. e \in Accepted /\ e \notin Queued
    BY <2>2 DEF EveryEventSomewhere
  <2>4. Through' = Through \cup {e} /\ e \notin Through
    BY <1>3, <2>2, <2>3 DEF Through
  <2>5. Cardinality(Through') = Cardinality(Through) + 1
    BY <2>4, OneMore, AllFinite
  <2>6. stats'.processed = totals.processed + 1
    BY <2>1 DEF Counters
  <2>7. stats'.processed = Cardinality(Through')
    BY <2>5, <2>6 DEF CInv
  <2>8. /\ stats' \in Counters /\ stats'.published = totals.published
        /\ stats'.dropped = totals.dropped /\ stats'.failed = totals.failed
    <3>1. stats' \in Counters
      BY <2>1, CountersCount
    <3> QED BY <2>1, <3>1 DEF Counters
  <2> QED BY <1>4, <2>1, <2>7, <2>8 DEF Idle
<1> QED BY <1>5, <1>6

LEMMA WorkerCounts ==
  ASSUME TInv, CInv, NEW w \in Worker, WorkerLoop(w), EveryEventSomewhere'
  PROVE  CInv'
<1> USE DEF TInv, TelemetryTypeOK
<1>1. UNCHANGED stage /\ StandsAt("published")' = StandsAt("published") /\ StandsAt("dropped")' = StandsAt("dropped")
  BY DEF WorkerLoop, Take, Handled, WorkerExit, HandleFails, StandsAt
<1>2. CASE Take(w)
  <2>1. /\ ch # <<>> /\ ch \in Seq(Event) /\ ch' = Tail(ch)
        /\ worker[w].pc = "idle" /\ worker' = [worker EXCEPT ![w] = Busy(Head(ch))]
        /\ worker \in [Worker -> WorkerState]
        /\ UNCHANGED <<stage, failed, stats>>
    BY <1>2 DEF Take
  <2>2. Head(ch) \in Queued /\ worker[w].event = NoEvent
    BY <2>1 DEF Queued, Diligent
  <2>3. Held' = Held \cup {Head(ch)} /\ Queued' = Queued \ {Head(ch)}
    BY <1>2, TakeMoves
  <2>4. Accepted' = Accepted
    BY <2>1 DEF Accepted
  <2>5. Through' = Through
    BY <2>2, <2>3, <2>4 DEF Through
  <2>6. \A s \in Sink : <<Head(ch), s>> \notin failed
    BY <2>2 DEF EveryEventSomewhere
  <2> QED BY <1>1, <2>1, <2>5, <2>6 DEF CInv, Busy
<1>3. CASE Handled(w)
  <2>1. worker[w].pc = "busy" /\ NextSink(w, stats) /\ UNCHANGED <<ch, stage, failed>>
    BY <1>3 DEF Handled
  <2> QED BY <1>1, <2>1, NextSinkCounts DEF CInv
<1>4. CASE WorkerExit(w)
  <2>1. /\ worker' = [worker EXCEPT ![w].pc = "exited"] /\ worker \in [Worker -> WorkerState]
        /\ UNCHANGED <<ch, stage, failed, stats>>
    BY <1>4 DEF WorkerExit
  <2>2. \A v \in Worker : /\ worker'[v].event = worker[v].event
                          /\ worker'[v].pc # "exited" => worker'[v] = worker[v]
    BY <2>1 DEF WorkerState
  <2>3. Through' = Through
    BY <2>1, <2>2 DEF Through, Accepted, Queued, Held
  <2> QED BY <1>1, <2>1, <2>2, <2>3 DEF CInv
<1>5. ASSUME NEW permanent \in BOOLEAN, HandleFails(w, permanent)
      PROVE  CInv'
  <2>1. CASE permanent \/ worker[w].attempt = MaxAttempts
    <3> DEFINE totals == [stats EXCEPT !.failed = @ + 1]
    <3>1. /\ worker[w].pc = "busy" /\ NextSink(w, totals) /\ UNCHANGED <<ch, stage>>
          /\ failed' = failed \cup {Here(w)}
      BY <1>5, <2>1 DEF HandleFails, GiveUp
    <3>2. /\ totals \in Counters /\ totals.failed = stats.failed + 1
          /\ totals.published = stats.published /\ totals.dropped = stats.dropped
          /\ totals.processed = stats.processed
      BY DEF Counters
    <3>3. Here(w) \notin failed
      BY <3>1 DEF CInv, Here, WorkerState, Sink
    <3>4. Cardinality(failed') = Cardinality(failed) + 1
      BY <3>1, <3>3, OneMore, AllFinite
    <3> HIDE DEF totals
    <3> QED BY <1>1, <3>1, <3>2, <3>4, NextSinkCounts DEF CInv
  <2>2. CASE ~(permanent \/ worker[w].attempt = MaxAttempts)
    <3>1. /\ worker' = [worker EXCEPT ![w].attempt = @ + 1]
          /\ worker \in [Worker -> WorkerState]
          /\ UNCHANGED <<ch, stage, failed, stats>>
      BY <1>5, <2>2 DEF HandleFails
    <3>2. \A v \in Worker : /\ worker'[v].event = worker[v].event
                            /\ worker'[v].pc = worker[v].pc
                            /\ worker'[v].sink = worker[v].sink
      BY <3>1 DEF WorkerState
    <3>3. Through' = Through
      BY <3>1, <3>2 DEF Through, Accepted, Queued, Held
    <3> QED BY <1>1, <3>1, <3>2, <3>3 DEF CInv
  <2> QED BY <2>1, <2>2
<1> QED BY <1>2, <1>3, <1>4, <1>5 DEF WorkerLoop

LEMMA NextCInv ==
  ASSUME TInv, CInv, [TelemetryNext]_teleVars
  PROVE  CInv'
<1>1. CASE UNCHANGED teleVars
  <2>1. UNCHANGED <<ch, worker, failed, stats, stage>>
    BY <1>1 DEF teleVars, busVars
  <2> QED BY <2>1 DEF CInv, StandsAt, Through, Accepted, Queued, Held
<1>2. ASSUME NEW e \in Event, Arrive(e) PROVE CInv'
  <2>1. /\ stage[e] = "new" /\ stage' = [stage EXCEPT ![e] = "handling"]
        /\ stage \in [Event -> Stage] /\ UNCHANGED <<ch, worker, failed, stats>>
    BY <1>2 DEF Arrive, busVars, TInv, TelemetryTypeOK
  <2>2. /\ StandsAt("published")' = StandsAt("published") /\ StandsAt("dropped")' = StandsAt("dropped")
        /\ Through' = Through
    BY <2>1 DEF StandsAt, Through, Accepted, Queued, Held
  <2> QED BY <2>1, <2>2 DEF CInv
<1>3. ASSUME NEW e \in Event, Publish(e) PROVE CInv'
  BY <1>3, PublishCounts
<1>4. ASSUME NEW w \in Worker, WorkerLoop(w) PROVE CInv'
  BY <1>4, WorkerPlaces, WorkerCounts
<1>5. CASE Signal \/ Shutdown
  <2>1. UNCHANGED <<ch, worker, failed, stats, stage>>
    BY <1>5 DEF Signal, Shutdown, Deadline, HttpShutdown, CloseFlag, CloseChannel, Drained,
                Expired, busVars
  <2> QED BY <2>1 DEF CInv, StandsAt, Through, Accepted, Queued, Held
<1> QED BY <1>1, <1>2, <1>3, <1>4, <1>5 DEF TelemetryNext

LEMMA CountedLoss == TInv /\ CInv => LossIsCounted
<1> SUFFICES ASSUME TInv, CInv, InFlight = {}, Queued \cup Held = {}
             PROVE  /\ stats.published + stats.dropped = Cardinality(Called)
                    /\ stats.processed = stats.published
                    /\ stats.failed = Cardinality(failed)
  BY DEF LossIsCounted
<1>1. Called = StandsAt("published") \cup StandsAt("dropped") /\ StandsAt("published") \cap StandsAt("dropped") = {}
  BY DEF Called, StandsAt
<1>2. IsFiniteSet(StandsAt("published")) /\ IsFiniteSet(StandsAt("dropped"))
  BY AllFinite DEF Stage
<1>3. /\ Cardinality(Called) = Cardinality(StandsAt("published")) + Cardinality(StandsAt("dropped"))
                                - Cardinality({})
  BY <1>1, <1>2, FS_Union
<1>4. Cardinality({}) = 0
  BY FS_EmptySet
<1>5. Cardinality(StandsAt("published")) \in Nat /\ Cardinality(StandsAt("dropped")) \in Nat
  BY <1>2, FS_CardinalityType
<1>6. Through = StandsAt("published")
  BY DEF Through, Accepted, StandsAt, InFlight
<1> QED BY <1>3, <1>4, <1>5, <1>6 DEF CInv

(* Losses are quantified: once nothing is on its way, the totals of the    *)
(* bus are exact (Bus.Publish, worker, dispatch).                           *)
THEOREM LossesAreQuantified == TelemetrySpec => []LossIsCounted
<1>1. TelemetryInit => CInv
  <2> SUFFICES ASSUME TelemetryInit PROVE CInv
    OBVIOUS
  <2>1. StandsAt("published") = {} /\ StandsAt("dropped") = {} /\ Through = {} /\ failed = {}
    BY DEF TelemetryInit, StandsAt, Through, Accepted
  <2>2. \A w \in Worker : worker[w].pc # "busy"
    BY DEF TelemetryInit, Idle
  <2> QED BY <2>1, <2>2, FS_EmptySet DEF TelemetryInit, CInv
<1>2. TInv /\ CInv /\ [TelemetryNext]_teleVars => TInv' /\ CInv'
  BY NextTInv, NextCInv
<1>3. TelemetrySpec => [](TInv /\ CInv)
  BY <1>1, <1>2, InitTInv, PTL DEF TelemetrySpec
<1> QED BY <1>3, CountedLoss, PTL

-----------------------------------------------------------------------------
(* Queue *)

HIDE TelemetryAssumption
USE QueueAssumption

Place == [at : {"nowhere", "visible", "flight", "deleted", "dead"}, receives : 0..MaxReceives]
Work == [pc : {"poll", "unique", "count", "submit", "settle"}, batch : Seq(Receipts),
         attempt : 1..MaxTries, isNew : BOOLEAN, failed : BOOLEAN]

(* The message in hand. *)
InHand(w) == Head(w.batch).message

(* A step is of the kind of its message, and a message in hand was sent.     *)
Fits(w, box) ==
  /\ w.pc # "poll" => w.batch # <<>>
  /\ w.pc = "unique" => KindOf(InHand(w)) = "started"
  /\ w.pc = "count" => KindOf(InHand(w)) \in {"started", "finished"}
  /\ w.pc = "submit" => KindOf(InHand(w)) = "finished"
  /\ \A k \in DOMAIN w.batch : box[w.batch[k].message].at # "nowhere"

(* The counters have taken the message in hand, and no sink gave it up.      *)
Counted(w, kind) ==
  /\ w.pc \in {"submit", "settle"} /\ ~w.failed
  /\ KindOf(InHand(w)) = kind
(* A player is about to be counted. *)
Arriving(w) == w.pc = "count" /\ KindOf(InHand(w)) = "started" /\ w.isNew

(* So have the set of players and the board. *)
Known(w, known, scores) ==
  /\ Counted(w, "started") \/ (w.pc = "count" /\ KindOf(InHand(w)) = "started")
       => PlayerOf(InHand(w)) \in known
  /\ Counted(w, "finished") /\ w.pc = "settle"
       => scores[PlayerOf(InHand(w))] >= What[InHand(w)[1]].score

Counting(kind) == {p \in Poller : Counted(poller[p], kind)}
Newcomers == {p \in Poller : Arriving(poller[p])}

(* Each message that is gone, and each in the hands of a poller that may yet  *)
(* delete it, has been counted on its own; a player is counted once.         *)
QueueBooks ==
  /\ counters.started >= Cardinality(Deleted("started")) + Cardinality(Counting("started"))
  /\ counters.completed >= Cardinality(Deleted("finished")) + Cardinality(Counting("finished"))
  /\ counters.players + Cardinality(Newcomers) <= Cardinality(players)

QueueTraces ==
  /\ \A m \in Deleted("started") : PlayerOf(m) \in players
  /\ \A m \in Deleted("finished") : board[PlayerOf(m)] >= What[m[1]].score
  /\ \A p \in players : \E i \in SentItems : What[i].kind = "started" /\ What[i].player = p
  /\ \A p \in Ranked(board) : \E i \in SentItems :
       What[i].kind = "finished" /\ What[i].player = p /\ What[i].score = board[p]

PollersOK == \A p \in Poller :
  /\ Fits(poller[p], inbox)
  /\ poller[p].pc # "poll" => Known(poller[p], players, board)

SendersOK == \A i \in Item : sender[i].pc = "sending" => sender[i].sends < MaxSends

QInv == /\ QueueTypeOK /\ IsFiniteSet(players) /\ SendersOK
        /\ PollersOK /\ QueueBooks /\ QueueTraces

-----------------------------------------------------------------------------
(* Sizes. *)

LEMMA Fewer ==
  ASSUME NEW S, IsFiniteSet(S), NEW T, T \subseteq S
  PROVE  IsFiniteSet(T) /\ Cardinality(T) \in Nat /\ Cardinality(S) \in Nat /\ Cardinality(T) <= Cardinality(S)
BY FS_Subset, FS_CardinalityType

LEMMA OneMoreAtMost ==
  ASSUME NEW S, IsFiniteSet(S), NEW x, NEW T, T \subseteq S \cup {x}
  PROVE  IsFiniteSet(T) /\ Cardinality(T) \in Nat /\ Cardinality(S) \in Nat /\ Cardinality(T) <= Cardinality(S) + 1
<1>1. IsFiniteSet(S \cup {x}) /\ Cardinality(S \cup {x}) <= Cardinality(S) + 1 /\ Cardinality(S) \in Nat
  <2>1. /\ IsFiniteSet(S \cup {x}) /\ Cardinality(S) \in Nat
        /\ Cardinality(S \cup {x}) = IF x \in S THEN Cardinality(S) ELSE Cardinality(S) + 1
    BY FS_AddElement, FS_CardinalityType
  <2> QED BY <2>1
<1>2. IsFiniteSet(T) /\ Cardinality(T) \in Nat /\ Cardinality(T) <= Cardinality(S \cup {x})
        /\ Cardinality(S \cup {x}) \in Nat
  BY <1>1, Fewer
<1> QED BY <1>1, <1>2

LEMMA OneFewer ==
  ASSUME NEW S, IsFiniteSet(S), NEW x \in S, NEW T, T \subseteq S \ {x}
  PROVE  IsFiniteSet(T) /\ Cardinality(T) \in Nat /\ Cardinality(S) \in Nat /\ Cardinality(T) + 1 <= Cardinality(S)
<1>1. /\ IsFiniteSet(S \ {x}) /\ Cardinality(S) \in Nat
      /\ Cardinality(S \ {x}) = Cardinality(S) - 1
  BY FS_RemoveElement, FS_CardinalityType
<1>2. IsFiniteSet(T) /\ Cardinality(T) \in Nat /\ Cardinality(T) <= Cardinality(S \ {x})
  BY <1>1, Fewer
<1> QED BY <1>1, <1>2

LEMMA AtLeast ==
  ASSUME NEW a \in Int, NEW b \in Int, NEW c \in Int, a >= b, b >= c
  PROVE  a >= c
OBVIOUS

LEMMA Finite ==
  ASSUME NEW kind
  PROVE  /\ IsFiniteSet(Message) /\ IsFiniteSet(Deleted(kind)) /\ IsFiniteSet(Deleted(kind)')
         /\ IsFiniteSet(Counting(kind)) /\ IsFiniteSet(Counting(kind)')
         /\ IsFiniteSet(Newcomers) /\ IsFiniteSet(Newcomers')
<1>1. IsFiniteSet(Message)
  <2>1. IsFiniteSet(1..MaxSends)
    BY FS_Interval
  <2> QED BY <2>1, FS_Product DEF Message
<1>2. /\ Deleted(kind) \subseteq Message /\ Deleted(kind)' \subseteq Message
      /\ Counting(kind) \subseteq Poller /\ Counting(kind)' \subseteq Poller
      /\ Newcomers \subseteq Poller /\ Newcomers' \subseteq Poller
  BY DEF Deleted, Counting, Newcomers
<1> QED BY <1>1, <1>2, FS_Subset

LEMMA Messages ==
  ASSUME NEW m \in Message
  PROVE  /\ m[1] \in Item /\ KindOf(m) \in Kind /\ PlayerOf(m) \in Player /\ PlayerOf(m) \in Nat
         /\ What[m[1]].score \in Nat /\ What[m[1]].kind = KindOf(m) /\ What[m[1]].player = PlayerOf(m)
BY DEF Message, KindOf, PlayerOf

-----------------------------------------------------------------------------
(* Batches. *)

LEMMA HandTyped ==
  ASSUME NEW w \in Work, w.batch # <<>>
  PROVE  InHand(w) \in Message /\ Tail(w.batch) \in Seq(Receipts) /\ 1 \in DOMAIN w.batch
         /\ InHand(w) = w.batch[1].message
<1>1. w.batch \in Seq(Receipts)
  BY DEF Work
<1>2. Head(w.batch) \in Receipts /\ Tail(w.batch) \in Seq(Receipts) /\ Head(w.batch) = w.batch[1]
      /\ Len(w.batch) >= 1 /\ DOMAIN w.batch = 1..Len(w.batch)
  BY <1>1
<1> QED BY <1>2 DEF InHand, Receipts

LEMMA Beginning ==
  ASSUME NEW batch \in Seq(Receipts), NEW box,
         \A k \in DOMAIN batch : box[batch[k].message].at # "nowhere"
  PROVE  LET w == Begin(batch)
         IN  /\ w \in Work /\ Fits(w, box)
             /\ w.pc # "poll" => (\A known, scores : Known(w, known, scores))
             /\ ~Counted(w, "started") /\ ~Counted(w, "finished") /\ ~Arriving(w)
<1>0. Polling \in Work /\ Polling.pc = "poll" /\ Polling.batch = <<>> /\ ~Polling.isNew /\ ~Polling.failed
  BY DEF Polling, Work
<1>1. CASE batch = <<>>
  BY <1>0, <1>1 DEF Begin, Fits, Arriving, Counted
<1>2. CASE batch # <<>>
  <2> DEFINE m == Head(batch).message
             w == [Polling EXCEPT !.pc = First(m), !.batch = batch]
  <2>1. m \in Message /\ KindOf(m) \in Kind
    <3>1. Head(batch) \in Receipts
      BY <1>2
    <3> QED BY <3>1, Messages DEF Receipts
  <2>2. /\ First(m) \in {"unique", "count", "settle"}
        /\ First(m) = "unique" => KindOf(m) = "started"
        /\ First(m) = "count" => KindOf(m) = "finished"
        /\ First(m) = "settle" => KindOf(m) \notin {"started", "finished"}
    BY <2>1 DEF First, Kind
  <2>3. w \in Work /\ w.pc = First(m) /\ w.batch = batch /\ ~w.isNew /\ ~w.failed /\ InHand(w) = m
    BY <1>0, <2>2 DEF Work, InHand, Polling
  <2>4. Begin(batch) = w
    BY <1>2 DEF Begin
  <2> HIDE DEF w, m
  <2> QED BY <1>2, <2>2, <2>3, <2>4 DEF Fits, Known, Counted, Arriving
<1> QED BY <1>1, <1>2

-----------------------------------------------------------------------------
(* Steps. *)

(* What no step undoes. *)
Onwards ==
  /\ sender' \in [Item -> [pc : {"sending", "sent", "failed"}, sends : 0..MaxSends]]
  /\ inbox' \in [Message -> Place]
  /\ \A m \in Message : inbox[m].at # "nowhere" => inbox'[m].at # "nowhere"
  /\ players \subseteq players' /\ players' \subseteq Player
  /\ counters' \in [players : Nat, started : Nat, completed : Nat]
  /\ board' \in [Player -> Nat \cup {Unranked}]
  /\ \A p \in Player : board'[p] >= board[p]

LEMMA Types ==
  QueueTypeOK <=>
    /\ sender \in [Item -> [pc : {"sending", "sent", "failed"}, sends : 0..MaxSends]]
    /\ inbox \in [Message -> Place]
    /\ poller \in [Poller -> Work]
    /\ players \subseteq Player
    /\ counters \in [players : Nat, started : Nat, completed : Nat]
    /\ board \in [Player -> Nat \cup {Unranked}]
BY DEF QueueTypeOK, Place, Work

LEMMA BoardInts ==
  ASSUME QInv
  PROVE  \A q \in Player : board[q] \in Int
<1>1. board \in [Player -> Nat \cup {Unranked}]
  BY Types DEF QInv
<1> QED BY <1>1 DEF Unranked

LEMMA BoardSame ==
  ASSUME QInv, board' = board
  PROVE  board' \in [Player -> Nat \cup {Unranked}] /\ \A q \in Player : board'[q] >= board[q]
<1>1. board \in [Player -> Nat \cup {Unranked}]
  BY Types DEF QInv
<1>2. ASSUME NEW q \in Player PROVE board[q] >= board[q]
  <2>1. board[q] \in Int
    BY BoardInts
  <2> QED BY <2>1
<1> QED BY <1>1, <1>2

LEMMA Still ==
  ASSUME QInv, UNCHANGED <<sender, inbox, redisVars>>
  PROVE  Onwards
<1>1. \A p \in Player : board[p] \in Int
  BY Types DEF QInv, Unranked
<1> QED BY <1>1, Types DEF QInv, Onwards, redisVars

LEMMA BoardTyped ==
  ASSUME QInv, Onwards, NEW p \in Player
  PROVE  board[p] \in Int /\ board'[p] \in Int
<1>1. board \in [Player -> Nat \cup {Unranked}]
  BY Types DEF QInv
<1>2. board' \in [Player -> Nat \cup {Unranked}]
  BY DEF Onwards
<1> QED BY <1>1, <1>2 DEF Unranked

(* What a poller knows stays true. *)
LEMMA Remembered ==
  ASSUME QInv, Onwards, NEW w \in Work, Fits(w, inbox), w.pc # "poll" => Known(w, players, board)
  PROVE  Fits(w, inbox') /\ (w.pc # "poll" => Known(w, players', board'))
<1>1. w.batch \in Seq(Receipts) /\ \A k \in DOMAIN w.batch : w.batch[k].message \in Message
  <2>1. w.batch \in Seq(Receipts)
    BY DEF Work
  <2>2. \A k \in DOMAIN w.batch : w.batch[k] \in Receipts
    BY <2>1
  <2> QED BY <2>1, <2>2 DEF Receipts
<1>2. Fits(w, inbox')
  BY <1>1 DEF Fits, Onwards
<1>3. ASSUME w.pc # "poll" PROVE Known(w, players', board')
  <2>1. InHand(w) \in Message
    BY <1>3, HandTyped DEF Fits
  <2>2. PlayerOf(InHand(w)) \in Player /\ What[InHand(w)[1]].score \in Nat
    BY <2>1, Messages
  <2>3. board[PlayerOf(InHand(w))] \in Int /\ board'[PlayerOf(InHand(w))] \in Int
    BY <2>2, Types DEF QInv, Onwards, Unranked
  <2>4. board'[PlayerOf(InHand(w))] >= board[PlayerOf(InHand(w))] /\ players \subseteq players'
    BY <2>2 DEF Onwards
  <2> DEFINE is == board'[PlayerOf(InHand(w))]
             was == board[PlayerOf(InHand(w))]
             score == What[InHand(w)[1]].score
  <2>5. was >= score => is >= score
    <3>1. is \in Int /\ was \in Int /\ score \in Int /\ is >= was
      BY <2>2, <2>3, <2>4
    <3> HIDE DEF is, was, score
    <3> QED BY <3>1
  <2> QED BY <1>3, <2>4, <2>5, Zenon DEF Known
<1> QED BY <1>2, <1>3

(* One poller, or several, move; the others stay.                           *)
LEMMA PollersMove ==
  ASSUME QInv, Onwards, IsFiniteSet(players'), poller' \in [Poller -> Work],
         \A q \in Poller :
           \/ poller'[q] = poller[q]
           \/ Fits(poller'[q], inbox') /\ (poller'[q].pc # "poll" => Known(poller'[q], players', board'))
  PROVE  QueueTypeOK' /\ IsFiniteSet(players') /\ PollersOK'
<1>1. QueueTypeOK'
  <2>1. /\ sender' \in [Item -> [pc : {"sending", "sent", "failed"}, sends : 0..MaxSends]]
        /\ inbox' \in [Message -> Place]
        /\ poller' \in [Poller -> Work]
        /\ players' \subseteq Player
        /\ counters' \in [players : Nat, started : Nat, completed : Nat]
        /\ board' \in [Player -> Nat \cup {Unranked}]
    BY DEF Onwards
  <2> QED BY <2>1 DEF QueueTypeOK, Place, Work
<1>2. ASSUME NEW q \in Poller
      PROVE  Fits(poller'[q], inbox') /\ (poller'[q].pc # "poll" => Known(poller'[q], players', board'))
  <2>1. CASE poller'[q] = poller[q]
    <3>1. poller[q] \in Work /\ Fits(poller[q], inbox) /\ (poller[q].pc # "poll" => Known(poller[q], players, board))
      BY Types DEF QInv, PollersOK
    <3>2. Fits(poller[q], inbox') /\ (poller[q].pc # "poll" => Known(poller[q], players', board'))
      BY <3>1, Remembered
    <3> QED BY <2>1, <3>2
  <2> QED BY <2>1
<1> QED BY <1>1, <1>2 DEF PollersOK

(* The traces survive when what is new in them is true. *)
LEMMA TracesStay ==
  ASSUME QInv, Onwards,
         \A m \in Deleted("started")' \ Deleted("started") : PlayerOf(m) \in players',
         \A m \in Deleted("finished")' \ Deleted("finished") : board'[PlayerOf(m)] >= What[m[1]].score,
         \A p \in players' \ players : \E i \in SentItems' : What[i].kind = "started" /\ What[i].player = p,
         \A p \in Ranked(board') : board'[p] = board[p] \/ \E i \in SentItems' :
            What[i].kind = "finished" /\ What[i].player = p /\ What[i].score = board'[p]
  PROVE  QueueTraces'
<1>1. SentItems \subseteq SentItems'
  BY DEF SentItems, Onwards
<1>2. \A m \in Deleted("started")' : PlayerOf(m) \in players'
  BY DEF QInv, QueueTraces, Onwards
<1>3. \A m \in Deleted("finished")' : board'[PlayerOf(m)] >= What[m[1]].score
  <2> SUFFICES ASSUME NEW m \in Deleted("finished") PROVE board'[PlayerOf(m)] >= What[m[1]].score
    OBVIOUS
  <2>0. m \in Message
    BY DEF Deleted
  <2>1. PlayerOf(m) \in Player /\ What[m[1]].score \in Nat
    BY <2>0, Messages
  <2>2. board[PlayerOf(m)] \in Int /\ board'[PlayerOf(m)] \in Int
    BY <2>1, BoardTyped
  <2>3. board[PlayerOf(m)] >= What[m[1]].score /\ board'[PlayerOf(m)] >= board[PlayerOf(m)]
    BY <2>1 DEF QInv, QueueTraces, Onwards
  <2>4. What[m[1]].score \in Int
    BY <2>1
  <2> QED BY <2>2, <2>3, <2>4, AtLeast
<1>4. \A p \in players' : \E i \in SentItems' : What[i].kind = "started" /\ What[i].player = p
  BY <1>1 DEF QInv, QueueTraces
<1>5. \A p \in Ranked(board') : \E i \in SentItems' :
        What[i].kind = "finished" /\ What[i].player = p /\ What[i].score = board'[p]
  <2> SUFFICES ASSUME NEW p \in Ranked(board'), board'[p] = board[p]
               PROVE  \E i \in SentItems' :
                        What[i].kind = "finished" /\ What[i].player = p /\ What[i].score = board'[p]
    OBVIOUS
  <2>1. p \in Ranked(board)
    BY Types DEF QInv, Onwards, Ranked
  <2> QED BY <1>1, <2>1 DEF QInv, QueueTraces
<1> QED BY <1>2, <1>3, <1>4, <1>5 DEF QueueTraces

(* The sums behind QueueBooks: of what is gone and what is in hand, and of    *)
(* the players.                                                              *)
LEMMA Covered ==
  ASSUME NEW c \in Nat, NEW d \in Nat, NEW G, NEW H, NEW K, NEW L, NEW x, NEW m,
         IsFiniteSet(G), IsFiniteSet(K), c >= Cardinality(G) + Cardinality(K),
         \/ H \subseteq G /\ L \subseteq K /\ d >= c
         \/ H \subseteq G /\ L \subseteq K \cup {x} /\ d >= c + 1
         \/ H \subseteq G \cup {m} /\ x \in K /\ L \subseteq K \ {x} /\ d >= c
  PROVE  d >= Cardinality(H) + Cardinality(L)
<1>1. CASE H \subseteq G /\ L \subseteq K /\ d >= c
  <2>1. /\ Cardinality(H) \in Nat /\ Cardinality(G) \in Nat /\ Cardinality(H) <= Cardinality(G)
        /\ Cardinality(L) \in Nat /\ Cardinality(K) \in Nat /\ Cardinality(L) <= Cardinality(K)
    BY <1>1, Fewer
  <2> QED BY <1>1, <2>1
<1>2. CASE H \subseteq G /\ L \subseteq K \cup {x} /\ d >= c + 1
  <2>1. Cardinality(H) \in Nat /\ Cardinality(G) \in Nat /\ Cardinality(H) <= Cardinality(G)
    BY <1>2, Fewer
  <2>2. Cardinality(L) \in Nat /\ Cardinality(K) \in Nat /\ Cardinality(L) <= Cardinality(K) + 1
    BY <1>2, OneMoreAtMost
  <2> QED BY <1>2, <2>1, <2>2
<1>3. CASE H \subseteq G \cup {m} /\ x \in K /\ L \subseteq K \ {x} /\ d >= c
  <2>1. Cardinality(H) \in Nat /\ Cardinality(G) \in Nat /\ Cardinality(H) <= Cardinality(G) + 1
    BY <1>3, OneMoreAtMost
  <2>2. Cardinality(L) \in Nat /\ Cardinality(K) \in Nat /\ Cardinality(L) + 1 <= Cardinality(K)
    BY <1>3, OneFewer
  <2> QED BY <1>3, <2>1, <2>2
<1> QED BY <1>1, <1>2, <1>3

LEMMA StillCovered ==
  ASSUME NEW c \in Nat, NEW d \in Nat, NEW G, NEW H, NEW K, NEW L,
         IsFiniteSet(G), IsFiniteSet(K), c >= Cardinality(G) + Cardinality(K),
         H \subseteq G, L \subseteq K, d >= c
  PROVE  d >= Cardinality(H) + Cardinality(L)
BY Covered

LEMMA CrowdStays ==
  ASSUME NEW c \in Nat, NEW N, NEW M, NEW P, NEW Q,
         IsFiniteSet(N), IsFiniteSet(P), IsFiniteSet(Q), c + Cardinality(N) <= Cardinality(P),
         M \subseteq N, P \subseteq Q
  PROVE  c + Cardinality(M) <= Cardinality(Q)
<1>0. Cardinality(P) \in Nat
  BY FS_CardinalityType
<1>1. /\ Cardinality(M) \in Nat /\ Cardinality(N) \in Nat /\ Cardinality(M) <= Cardinality(N)
      /\ Cardinality(Q) \in Nat /\ Cardinality(P) <= Cardinality(Q)
  BY Fewer
<1> QED BY <1>0, <1>1

LEMMA CrowdGrows ==
  ASSUME NEW c \in Nat, NEW N, NEW M, NEW P, NEW Q, NEW x, NEW y,
         IsFiniteSet(N), IsFiniteSet(P), IsFiniteSet(Q), c + Cardinality(N) <= Cardinality(P),
         M \subseteq N \cup {x}, y \notin P, Q = P \cup {y}
  PROVE  c + Cardinality(M) <= Cardinality(Q)
<1>0. Cardinality(P) \in Nat
  BY FS_CardinalityType
<1>1. Cardinality(M) \in Nat /\ Cardinality(N) \in Nat /\ Cardinality(M) <= Cardinality(N) + 1
  BY OneMoreAtMost
<1>2. Cardinality(Q) = Cardinality(P) + 1
  BY FS_AddElement
<1> QED BY <1>0, <1>1, <1>2

LEMMA CrowdCounted ==
  ASSUME NEW c \in Nat, NEW N, NEW M, NEW P, NEW Q, NEW x \in N,
         IsFiniteSet(N), IsFiniteSet(P), IsFiniteSet(Q), c + Cardinality(N) <= Cardinality(P),
         M \subseteq N \ {x}, P = Q
  PROVE  c + 1 + Cardinality(M) <= Cardinality(Q)
<1>0. Cardinality(P) \in Nat
  BY FS_CardinalityType
<1>1. Cardinality(M) \in Nat /\ Cardinality(N) \in Nat /\ Cardinality(M) + 1 <= Cardinality(N)
  BY OneFewer
<1> QED BY <1>0, <1>1

LEMMA BooksTyped ==
  ASSUME QInv
  PROVE  /\ counters.players \in Nat /\ counters.started \in Nat /\ counters.completed \in Nat
         /\ IsFiniteSet(players)
         /\ counters.started >= Cardinality(Deleted("started")) + Cardinality(Counting("started"))
         /\ counters.completed >= Cardinality(Deleted("finished")) + Cardinality(Counting("finished"))
         /\ counters.players + Cardinality(Newcomers) <= Cardinality(players)
BY Types DEF QInv, QueueBooks

(* One poller moves. *)
Moved(p) == poller' \in [Poller -> Work] /\ \A q \in Poller \ {p} : poller'[q] = poller[q]
LEMMA CountsMove ==
  ASSUME NEW p \in Poller, Moved(p), NEW kind
  PROVE  /\ Counting(kind)' \subseteq Counting(kind) \cup {p}
         /\ Newcomers' \subseteq Newcomers \cup {p}
         /\ ~Counted(poller'[p], kind) => Counting(kind)' \subseteq Counting(kind) \ {p}
         /\ ~Arriving(poller'[p]) => Newcomers' \subseteq Newcomers \ {p}
         /\ Counted(poller[p], kind) => p \in Counting(kind)
         /\ Arriving(poller[p]) => p \in Newcomers
         /\ Counted(poller'[p], kind) /\ Counted(poller[p], kind) => Counting(kind)' \subseteq Counting(kind)
BY Zenon DEF Moved, Counting, Newcomers

LEMMA OneMoves ==
  ASSUME QInv, Onwards, NEW p \in Poller, Moved(p), IsFiniteSet(players'), Fits(poller'[p], inbox'),
         poller'[p].pc # "poll" => Known(poller'[p], players', board')
  PROVE  QueueTypeOK' /\ IsFiniteSet(players') /\ PollersOK'
<1>1. \A q \in Poller :
        \/ poller'[q] = poller[q]
        \/ Fits(poller'[q], inbox') /\ (poller'[q].pc # "poll" => Known(poller'[q], players', board'))
  BY DEF Moved
<1> QED BY <1>1, PollersMove DEF Moved

-----------------------------------------------------------------------------
(* The queue, and the senders. *)

LEMMA OnlyInbox ==
  ASSUME QInv, UNCHANGED <<poller, redisVars>>,
         sender' \in [Item -> [pc : {"sending", "sent", "failed"}, sends : 0..MaxSends]],
         SendersOK', inbox' \in [Message -> Place],
         \A m \in Message : inbox[m].at # "nowhere" => inbox'[m].at # "nowhere",
         \A m \in Message : inbox'[m].at = "deleted" => inbox[m].at = "deleted"
  PROVE  QInv'
<1>1. Onwards
  <2>1. \A p \in Player : board[p] \in Int
    BY Types DEF QInv, Unranked
  <2> QED BY <2>1, Types DEF QInv, Onwards, redisVars
<1>2. QueueTypeOK' /\ IsFiniteSet(players') /\ PollersOK'
  BY <1>1, PollersMove, Types DEF QInv, redisVars
<1>3. \A kind : /\ Deleted(kind)' \subseteq Deleted(kind)
                /\ Counting(kind)' = Counting(kind) /\ Newcomers' = Newcomers
  BY DEF Deleted, Counting, Newcomers
<1>4. QueueBooks'
  <2>1. \A kind : IsFiniteSet(Deleted(kind)) /\ IsFiniteSet(Counting(kind))
    BY Finite
  <2>2. counters.started >= Cardinality(Deleted("started")') + Cardinality(Counting("started"))
    <3> DEFINE c == counters.started
               G == Deleted("started")
               H == Deleted("started")'
               K == Counting("started")
    <3>1. /\ c \in Nat /\ c >= c /\ IsFiniteSet(G) /\ IsFiniteSet(K) /\ H \subseteq G
          /\ c >= Cardinality(G) + Cardinality(K)
      BY <1>3, <2>1, BooksTyped
    <3> HIDE DEF c, G, H, K
    <3>2. c >= Cardinality(H) + Cardinality(K)
      BY <3>1, StillCovered
    <3> QED BY <3>2 DEF c, H, K
  <2>3. counters.completed >= Cardinality(Deleted("finished")') + Cardinality(Counting("finished"))
    <3> DEFINE c == counters.completed
               G == Deleted("finished")
               H == Deleted("finished")'
               K == Counting("finished")
    <3>1. /\ c \in Nat /\ c >= c /\ IsFiniteSet(G) /\ IsFiniteSet(K) /\ H \subseteq G
          /\ c >= Cardinality(G) + Cardinality(K)
      BY <1>3, <2>1, BooksTyped
    <3> HIDE DEF c, G, H, K
    <3>2. c >= Cardinality(H) + Cardinality(K)
      BY <3>1, StillCovered
    <3> QED BY <3>2 DEF c, H, K
  <2> QED BY <1>3, <2>2, <2>3, BooksTyped DEF QueueBooks, redisVars
<1>5. QueueTraces'
  <2>1. Ranked(board') = Ranked(board) /\ players' = players /\ board' = board
    BY DEF redisVars
  <2> QED BY <1>1, <1>3, <2>1, TracesStay
<1> QED BY <1>2, <1>4, <1>5 DEF QInv

LEMMA SendMessageKeeps ==
  ASSUME QInv, NEW i \in Item, NEW outcome, SendMessage(i, outcome)
  PROVE  QInv'
<1> DEFINE k == sender[i].sends + 1
<1>1. k \in 1..MaxSends /\ <<i, k>> \in Message
  <2>1. sender[i].sends \in 0..MaxSends /\ sender[i].sends < MaxSends /\ MaxSends \in Nat
    BY Types DEF QInv, SendersOK, SendMessage
  <2> QED BY <2>1 DEF Message
<1>2. /\ sender' \in [Item -> [pc : {"sending", "sent", "failed"}, sends : 0..MaxSends]]
      /\ SendersOK'
  <2> DEFINE pc == CASE outcome = "ok" -> "sent"
                     [] outcome # "ok" /\ k = MaxSends -> "failed"
                     [] OTHER -> "sending"
  <2>1. pc \in {"sending", "sent", "failed"} /\ (pc = "sending" => k # MaxSends)
    OBVIOUS
  <2>2. sender' = [sender EXCEPT ![i] = [pc |-> pc, sends |-> k]]
    BY DEF SendMessage
  <2>3. sender \in [Item -> [pc : {"sending", "sent", "failed"}, sends : 0..MaxSends]]
    BY Types DEF QInv
  <2>4. \A j \in Item : sender[j].pc = "sending" => sender[j].sends < MaxSends
    BY DEF QInv, SendersOK
  <2>5. k \in 0..MaxSends /\ (pc = "sending" => k < MaxSends)
    BY <1>1, <2>1
  <2> HIDE DEF pc, k
  <2> QED BY <2>1, <2>2, <2>3, <2>4, <2>5 DEF SendersOK
<1>3. inbox' = inbox \/ inbox' = [inbox EXCEPT ![<<i, k>>].at = "visible"]
  BY DEF SendMessage
<1>4. inbox \in [Message -> Place]
  BY Types DEF QInv
<1> HIDE DEF k
<1>5. /\ inbox' \in [Message -> Place]
      /\ \A m \in Message : inbox[m].at # "nowhere" => inbox'[m].at # "nowhere"
      /\ \A m \in Message : inbox'[m].at = "deleted" => inbox[m].at = "deleted"
  BY <1>1, <1>3, <1>4 DEF Place
<1> QED BY <1>2, <1>5, OnlyInbox DEF SendMessage

LEMMA QueueingKeeps ==
  ASSUME QInv, NEW m \in Message, Queueing(m)
  PROVE  QInv'
<1>1. \E place \in {"visible", "dead"} :
        inbox' = [inbox EXCEPT ![m].at = place] /\ inbox[m].at \in {"flight", "visible"}
  BY DEF Queueing, Expire, DeadLetter
<1>2. inbox \in [Message -> Place]
  BY Types DEF QInv
<1>3. UNCHANGED <<sender, poller, redisVars>>
  BY DEF Queueing, Expire, DeadLetter
<1>4. /\ inbox' \in [Message -> Place]
      /\ \A n \in Message : inbox[n].at # "nowhere" => inbox'[n].at # "nowhere"
      /\ \A n \in Message : inbox'[n].at = "deleted" => inbox[n].at = "deleted"
  BY <1>1, <1>2 DEF Place
<1>5. sender' \in [Item -> [pc : {"sending", "sent", "failed"}, sends : 0..MaxSends]] /\ SendersOK'
  BY <1>3, Types DEF QInv, SendersOK
<1> QED BY <1>3, <1>4, <1>5, OnlyInbox

-----------------------------------------------------------------------------
(* The pollers. *)

(* How one count may move with poller p and message m. *)
Moves(kind, c, d, p, m) ==
  \/ Deleted(kind)' \subseteq Deleted(kind) /\ Counting(kind)' \subseteq Counting(kind) /\ d >= c
  \/ Deleted(kind)' \subseteq Deleted(kind) /\ Counting(kind)' \subseteq Counting(kind) \cup {p} /\ d >= c + 1
  \/ /\ Deleted(kind)' \subseteq Deleted(kind) \cup {m}
     /\ p \in Counting(kind) /\ Counting(kind)' \subseteq Counting(kind) \ {p} /\ d >= c
CrowdMoves(p, x) ==
  \/ Newcomers' \subseteq Newcomers /\ players \subseteq players' /\ counters'.players = counters.players
  \/ /\ Newcomers' \subseteq Newcomers \cup {p} /\ x \notin players /\ players' = players \cup {x}
     /\ counters'.players = counters.players
  \/ /\ p \in Newcomers /\ Newcomers' \subseteq Newcomers \ {p}
     /\ players' = players /\ counters'.players = counters.players + 1

LEMMA KindMoved ==
  ASSUME NEW kind, NEW c \in Nat, NEW d \in Nat, NEW p, NEW m, Moves(kind, c, d, p, m),
         c >= Cardinality(Deleted(kind)) + Cardinality(Counting(kind))
  PROVE  d >= Cardinality(Deleted(kind)') + Cardinality(Counting(kind)')
<1> DEFINE G == Deleted(kind)
           H == Deleted(kind)'
           K == Counting(kind)
           L == Counting(kind)'
<1>1. IsFiniteSet(G) /\ IsFiniteSet(K) /\ c >= Cardinality(G) + Cardinality(K)
  BY Finite
<1>2. \/ H \subseteq G /\ L \subseteq K /\ d >= c
      \/ H \subseteq G /\ L \subseteq K \cup {p} /\ d >= c + 1
      \/ H \subseteq G \cup {m} /\ p \in K /\ L \subseteq K \ {p} /\ d >= c
  BY DEF Moves
<1> HIDE DEF G, H, K, L
<1>3. d >= Cardinality(H) + Cardinality(L)
  BY <1>1, <1>2, Covered
<1> QED BY <1>3 DEF H, L

LEMMA BooksMove ==
  ASSUME QInv, NEW p, NEW m, NEW x, IsFiniteSet(players'),
         counters' \in [players : Nat, started : Nat, completed : Nat],
         Moves("started", counters.started, counters'.started, p, m),
         Moves("finished", counters.completed, counters'.completed, p, m),
         CrowdMoves(p, x)
  PROVE  QueueBooks'
<1>1. counters'.started >= Cardinality(Deleted("started")') + Cardinality(Counting("started")')
  <2>1. counters.started \in Nat /\ counters'.started \in Nat
        /\ counters.started >= Cardinality(Deleted("started")) + Cardinality(Counting("started"))
    BY BooksTyped
  <2> QED BY <2>1, KindMoved
<1>2. counters'.completed >= Cardinality(Deleted("finished")') + Cardinality(Counting("finished")')
  <2>1. counters.completed \in Nat /\ counters'.completed \in Nat
        /\ counters.completed >= Cardinality(Deleted("finished")) + Cardinality(Counting("finished"))
    BY BooksTyped
  <2> QED BY <2>1, KindMoved
<1>3. counters'.players + Cardinality(Newcomers') <= Cardinality(players')
  <2> DEFINE c == counters.players
             d == counters'.players
             N == Newcomers
             M == Newcomers'
             Q == players'
  <2>1. /\ c \in Nat /\ d \in Nat /\ IsFiniteSet(N) /\ IsFiniteSet(players) /\ IsFiniteSet(Q)
        /\ c + Cardinality(N) <= Cardinality(players)
    BY BooksTyped, Finite
  <2>2. \/ M \subseteq N /\ players \subseteq Q /\ d = c
        \/ M \subseteq N \cup {p} /\ x \notin players /\ Q = players \cup {x} /\ d = c
        \/ p \in N /\ M \subseteq N \ {p} /\ players = Q /\ d = c + 1
    BY DEF CrowdMoves
  <2> HIDE DEF c, d, N, M, Q
  <2>3. d + Cardinality(M) <= Cardinality(Q)
    <3>1. CASE M \subseteq N /\ players \subseteq Q /\ d = c
      BY <2>1, <3>1, CrowdStays
    <3>2. CASE M \subseteq N \cup {p} /\ x \notin players /\ Q = players \cup {x} /\ d = c
      BY <2>1, <3>2, CrowdGrows
    <3>3. CASE p \in N /\ M \subseteq N \ {p} /\ players = Q /\ d = c + 1
      BY <2>1, <3>3, CrowdCounted
    <3> QED BY <2>2, <3>1, <3>2, <3>3
  <2> QED BY <2>3 DEF d, M, Q
<1> QED BY <1>1, <1>2, <1>3 DEF QueueBooks

LEMMA PollerTyped ==
  ASSUME QInv, NEW p \in Poller
  PROVE  /\ poller[p] \in Work /\ Fits(poller[p], inbox) /\ poller \in [Poller -> Work]
         /\ poller[p].pc # "poll" => /\ Known(poller[p], players, board)
                                     /\ At(p) \in Message /\ At(p) = InHand(poller[p])
                                     /\ poller[p].batch \in Seq(Receipts)
                                     /\ Tail(poller[p].batch) \in Seq(Receipts)
                                     /\ inbox[At(p)].at # "nowhere"
<1>1. poller[p] \in Work /\ Fits(poller[p], inbox) /\ poller \in [Poller -> Work]
      /\ (poller[p].pc # "poll" => Known(poller[p], players, board))
  BY Types DEF QInv, PollersOK
<1>2. ASSUME poller[p].pc # "poll"
      PROVE  /\ At(p) \in Message /\ At(p) = InHand(poller[p])
             /\ poller[p].batch \in Seq(Receipts)
             /\ Tail(poller[p].batch) \in Seq(Receipts)
             /\ inbox[At(p)].at # "nowhere"
  <2>1. poller[p].batch # <<>> /\ At(p) = InHand(poller[p])
    BY <1>1, <1>2 DEF Fits, At, InHand
  <2>2. InHand(poller[p]) \in Message /\ Tail(poller[p].batch) \in Seq(Receipts)
        /\ 1 \in DOMAIN poller[p].batch /\ InHand(poller[p]) = poller[p].batch[1].message
    BY <1>1, <2>1, HandTyped
  <2>3. inbox[poller[p].batch[1].message].at # "nowhere"
    BY <1>1, <2>2 DEF Fits
  <2>4. poller[p].batch \in Seq(Receipts)
    BY <1>1 DEF Work
  <2> QED BY <2>1, <2>2, <2>3, <2>4
<1> QED BY <1>1, <1>2

(* An attempt at a sink ends. *)
LEMMA Errs ==
  ASSUME QInv, NEW p \in Poller, poller[p].pc \in {"unique", "count", "submit"},
         NEW over \in BOOLEAN, HandleErr(p, over)
  PROVE  /\ Moved(p) /\ Fits(poller'[p], inbox) /\ ~Arriving(poller'[p])
         /\ ~Counted(poller'[p], "started")
         /\ Counted(poller'[p], "finished") => Counted(poller[p], "finished")
         /\ \A known, scores : Known(poller'[p], known, scores)
<1> DEFINE w == poller[p]
           v == poller'[p]
<1>1. /\ w \in Work /\ Fits(w, inbox) /\ poller \in [Poller -> Work] /\ At(p) = InHand(w)
      /\ KindOf(At(p)) \in Kind /\ w.pc # "poll"
  BY PollerTyped, Messages
<1>2. /\ w.pc = "unique" => KindOf(At(p)) = "started"
      /\ w.pc = "count" => KindOf(At(p)) \in {"started", "finished"}
      /\ w.pc = "submit" => KindOf(At(p)) = "finished"
  BY <1>1 DEF Fits
<1>3. CASE over \/ w.attempt = MaxTries
  <2>1. poller' = [poller EXCEPT ![p] = [w EXCEPT !.pc = AfterSink(p), !.attempt = 1, !.failed = TRUE]]
    BY <1>3 DEF HandleErr
  <2>2. /\ AfterSink(p) \in {"submit", "settle"} /\ (AfterSink(p) = "submit" => KindOf(At(p)) = "finished")
    BY DEF AfterSink
  <2>3. 1 \in 1..MaxTries
    OBVIOUS
  <2>4. Moved(p) /\ v.batch = w.batch /\ v.pc = AfterSink(p) /\ v.failed /\ v.isNew = w.isNew
    BY <1>1, <2>1, <2>2, <2>3 DEF Moved, Work
  <2>5. InHand(v) = At(p)
    BY <1>1, <2>4 DEF InHand
  <2> HIDE DEF v, w
  <2>6. Fits(v, inbox)
    BY <1>1, <2>2, <2>4, <2>5 DEF Fits
  <2>7. ~Arriving(v) /\ \A kind : ~Counted(v, kind)
    BY <2>2, <2>4 DEF Arriving, Counted
  <2>8. \A known, scores : Known(v, known, scores)
    BY <2>2, <2>4, <2>7 DEF Known
  <2> QED BY <2>4, <2>6, <2>7, <2>8 DEF v, w
<1>4. CASE ~(over \/ w.attempt = MaxTries)
  <2>1. poller' = [poller EXCEPT ![p] = [w EXCEPT !.pc = SinkStart(p), !.attempt = w.attempt + 1]]
    BY <1>4 DEF HandleErr
  <2>2. /\ SinkStart(p) \in {"unique", "count", "submit"}
        /\ SinkStart(p) = "unique" => KindOf(At(p)) = "started"
        /\ SinkStart(p) = "count" => KindOf(At(p)) = "finished"
        /\ SinkStart(p) = "submit" => w.pc = "submit" /\ KindOf(At(p)) = "finished"
    BY <1>1, <1>2 DEF SinkStart, First, Kind
  <2>3. w.attempt + 1 \in 1..MaxTries
    BY <1>1, <1>4 DEF Work
  <2>4. Moved(p) /\ v.batch = w.batch /\ v.pc = SinkStart(p) /\ v.failed = w.failed /\ v.isNew = w.isNew
    BY <1>1, <2>1, <2>2, <2>3 DEF Moved, Work
  <2>5. InHand(v) = At(p) /\ InHand(w) = At(p)
    BY <1>1, <2>4 DEF InHand
  <2> HIDE DEF v, w
  <2>6. Fits(v, inbox)
    BY <1>1, <2>2, <2>4, <2>5 DEF Fits
  <2>7. ~Arriving(v) /\ ~Counted(v, "started") /\ (Counted(v, "finished") => Counted(w, "finished"))
    BY <2>2, <2>4, <2>5 DEF Arriving, Counted
  <2>8. \A known, scores : Known(v, known, scores)
    BY <2>2, <2>4, <2>5, <2>7 DEF Known
  <2> QED BY <2>4, <2>6, <2>7, <2>8 DEF v, w
<1> QED BY <1>3, <1>4

LEMMA AddUniqueKeeps ==
  ASSUME QInv, NEW p \in Poller, NEW outcome, AddUnique(p, outcome)
  PROVE  QInv'
<1> DEFINE w == poller[p]
           v == poller'[p]
           one == PlayerOf(At(p))
<1>1. /\ w \in Work /\ Fits(w, inbox) /\ poller \in [Poller -> Work] /\ At(p) = InHand(w)
      /\ w.pc = "unique" /\ At(p) \in Message /\ KindOf(At(p)) = "started" /\ one \in Player
      /\ What[At(p)[1]].kind = "started" /\ What[At(p)[1]].player = one /\ inbox[At(p)].at # "nowhere"
  BY PollerTyped, Messages DEF AddUnique, Fits
<1>2. /\ UNCHANGED <<sender, inbox, counters, board>>
      /\ players' = players \/ players' = players \cup {one}
      /\ outcome = "ok" => players' = players \cup {one}
  BY DEF AddUnique, TookEffect
<1>3. IsFiniteSet(players') /\ players \subseteq players' /\ players' \subseteq players \cup {one}
  <2>1. IsFiniteSet(players)
    BY DEF QInv
  <2> QED BY <1>2, <2>1, FS_AddElement
<1>4. Onwards
  <2>1. \A q \in Player : board[q] \in Int
    BY Types DEF QInv, Unranked
  <2> QED BY <1>1, <1>2, <1>3, <2>1, Types DEF QInv, Onwards
<1>5. /\ Moved(p) /\ Fits(v, inbox') /\ Known(v, players', board')
      /\ ~Counted(v, "started") /\ ~Counted(v, "finished")
      /\ Arriving(v) => one \notin players /\ players' = players \cup {one}
  <2>1. CASE outcome = "ok"
    <3>1. poller' = [poller EXCEPT ![p] = [w EXCEPT !.pc = "count", !.isNew = one \notin players]]
      BY <2>1 DEF AddUnique
    <3>2. Moved(p) /\ v.batch = w.batch /\ v.pc = "count" /\ (v.isNew <=> one \notin players)
      BY <1>1, <3>1 DEF Moved, Work
    <3>3. InHand(v) = At(p)
      BY <1>1, <3>2 DEF InHand
    <3>4. w.batch # <<>> /\ \A k \in DOMAIN w.batch : inbox'[w.batch[k].message].at # "nowhere"
      BY <1>1, <1>2 DEF Fits
    <3>5. one \in players' /\ players' = players \cup {one}
      BY <1>2, <2>1
    <3> HIDE DEF v, w
    <3>6. Fits(v, inbox')
      BY <1>1, <3>2, <3>3, <3>4 DEF Fits
    <3>7. ~Counted(v, "started") /\ ~Counted(v, "finished")
      BY <3>2 DEF Counted
    <3>8. Known(v, players', board')
      BY <3>2, <3>3, <3>5, <3>7 DEF Known
    <3>9. Arriving(v) => one \notin players
      BY <3>2 DEF Arriving
    <3> QED BY <3>2, <3>5, <3>6, <3>7, <3>8, <3>9
  <2>2. CASE outcome # "ok"
    <3>1. PICK over \in BOOLEAN : HandleErr(p, over)
      BY <2>2 DEF AddUnique
    <3>2. ~Counted(w, "finished")
      BY <1>1 DEF Counted
    <3> QED BY <1>1, <1>2, <3>1, <3>2, Errs
  <2> QED BY <2>1, <2>2
<1>6. QueueTypeOK' /\ IsFiniteSet(players') /\ PollersOK'
  BY <1>3, <1>4, <1>5, OneMoves
<1>7. QueueBooks'
  <2>1. \A kind : Deleted(kind)' = Deleted(kind)
    BY <1>2 DEF Deleted
  <2>2. /\ Counting("started")' \subseteq Counting("started")
        /\ Counting("finished")' \subseteq Counting("finished")
        /\ Newcomers' \subseteq Newcomers \cup {p}
        /\ ~Arriving(v) => Newcomers' \subseteq Newcomers
    BY <1>5, CountsMove
  <2>3. /\ counters'.started >= counters.started /\ counters'.completed >= counters.completed
        /\ counters' = counters /\ counters' \in [players : Nat, started : Nat, completed : Nat]
    BY <1>2, BooksTyped, Types DEF QInv
  <2>4. CrowdMoves(p, one)
    <3> HIDE DEF v
    <3> QED BY <1>3, <1>5, <2>2, <2>3 DEF CrowdMoves
  <2>5. /\ Moves("started", counters.started, counters'.started, p, p)
        /\ Moves("finished", counters.completed, counters'.completed, p, p)
    BY <2>1, <2>2, <2>3 DEF Moves
  <2> QED BY <1>3, <2>3, <2>4, <2>5, BooksMove
<1>8. QueueTraces'
  <2>1. Deleted("started")' = Deleted("started") /\ Deleted("finished")' = Deleted("finished")
    BY <1>2 DEF Deleted
  <2>2. At(p)[1] \in SentItems'
    BY <1>1, <1>2 DEF SentItems
  <2>3. \A q \in players' \ players : \E i \in SentItems' : What[i].kind = "started" /\ What[i].player = q
    BY <1>1, <1>3, <2>2
  <2>4. Ranked(board') = Ranked(board) /\ board' = board
    BY <1>2
  <2> QED BY <1>4, <2>1, <2>3, <2>4, TracesStay
<1>9. SendersOK'
  BY <1>2 DEF SendersOK, QInv
<1> QED BY <1>6, <1>7, <1>8, <1>9 DEF QInv

LEMMA Oks ==
  ASSUME QInv, NEW p \in Poller, poller[p].pc \in {"count", "submit"}, HandleOk(p)
  PROVE  /\ Moved(p) /\ poller'[p].batch = poller[p].batch /\ poller'[p].pc = AfterSink(p)
         /\ poller'[p].failed = poller[p].failed /\ InHand(poller'[p]) = At(p)
         /\ Fits(poller'[p], inbox) /\ ~Arriving(poller'[p])
<1> DEFINE w == poller[p]
           v == poller'[p]
<1>1. /\ w \in Work /\ Fits(w, inbox) /\ poller \in [Poller -> Work] /\ At(p) = InHand(w)
      /\ w.pc \in {"count", "submit"}
  BY PollerTyped
<1>2. poller' = [poller EXCEPT ![p] = [w EXCEPT !.pc = AfterSink(p), !.attempt = 1]]
  BY DEF HandleOk
<1>3. /\ AfterSink(p) \in {"submit", "settle"} /\ (AfterSink(p) = "submit" => KindOf(At(p)) = "finished")
      /\ 1 \in 1..MaxTries
  BY DEF AfterSink
<1>4. Moved(p) /\ v.batch = w.batch /\ v.pc = AfterSink(p) /\ v.failed = w.failed
  BY <1>1, <1>2, <1>3 DEF Moved, Work
<1>5. InHand(v) = At(p)
  BY <1>1, <1>4 DEF InHand
<1> HIDE DEF v, w
<1>6. Fits(v, inbox)
  BY <1>1, <1>3, <1>4, <1>5 DEF Fits
<1>7. ~Arriving(v)
  BY <1>3, <1>4 DEF Arriving
<1> QED BY <1>4, <1>5, <1>6, <1>7 DEF v, w

(* How the counters may grow. *)
LEMMA Sums ==
  ASSUME NEW c \in [players : Nat, started : Nat, completed : Nat], NEW d \in Nat, NEW e,
         e = [c EXCEPT !.started = c.started + 1, !.players = c.players + d]
  PROVE  /\ e \in [players : Nat, started : Nat, completed : Nat]
         /\ e.started = c.started + 1 /\ e.completed = c.completed /\ e.players = c.players + d
<1>1. c.players \in Nat /\ c.started \in Nat /\ c.completed \in Nat
  OBVIOUS
<1>2. e = [players |-> c.players + d, started |-> c.started + 1, completed |-> c.completed]
  OBVIOUS
<1> QED BY <1>1, <1>2

LEMMA Incremented ==
  ASSUME QInv, NEW p \in Poller, poller[p].pc = "count"
  PROVE  /\ Increments(p) \in [players : Nat, started : Nat, completed : Nat]
         /\ Increments(p).started >= counters.started /\ Increments(p).completed >= counters.completed
         /\ KindOf(At(p)) = "started" => Increments(p).started = counters.started + 1
         /\ KindOf(At(p)) = "finished" => Increments(p).completed = counters.completed + 1
         /\ \/ Increments(p).players = counters.players
            \/ Arriving(poller[p]) /\ Increments(p).players = counters.players + 1
<1>1. /\ poller[p] \in Work /\ At(p) = InHand(poller[p])
      /\ counters \in [players : Nat, started : Nat, completed : Nat]
  BY PollerTyped, Types DEF QInv
<1>2. KindOf(At(p)) \in {"started", "finished"}
  BY <1>1, PollerTyped DEF Fits
<1>3. CASE KindOf(At(p)) = "started" /\ poller[p].isNew
  <2>1. Increments(p) = [counters EXCEPT !.started = counters.started + 1, !.players = counters.players + 1]
    BY <1>3, Zenon DEF Increments
  <2>2. Arriving(poller[p])
    BY <1>1, <1>3 DEF Arriving
  <2>9. /\ Increments(p) \in [players : Nat, started : Nat, completed : Nat]
        /\ Increments(p).started = counters.started + 1 /\ Increments(p).completed = counters.completed
        /\ Increments(p).players = counters.players + 1
    BY <1>1, <2>1, Sums
  <2>8. counters.started \in Nat /\ counters.completed \in Nat /\ counters.players \in Nat
    BY <1>1
  <2> QED BY <1>3, <2>2, <2>8, <2>9
<1>4. CASE KindOf(At(p)) = "started" /\ ~poller[p].isNew
  <2>1. Increments(p) = [counters EXCEPT !.started = counters.started + 1, !.players = counters.players + 0]
    BY <1>4, Zenon DEF Increments
  <2>9. /\ Increments(p) \in [players : Nat, started : Nat, completed : Nat]
        /\ Increments(p).started = counters.started + 1 /\ Increments(p).completed = counters.completed
        /\ Increments(p).players = counters.players + 0
    BY <1>1, <2>1, Sums
  <2>8. counters.started \in Nat /\ counters.completed \in Nat /\ counters.players \in Nat
    BY <1>1
  <2> QED BY <1>4, <2>8, <2>9
<1>5. CASE KindOf(At(p)) = "finished"
  BY <1>1, <1>5 DEF Increments
<1> QED BY <1>2, <1>3, <1>4, <1>5

LEMMA IncrManyKeeps ==
  ASSUME QInv, NEW p \in Poller, NEW outcome, IncrMany(p, outcome)
  PROVE  QInv'
<1> DEFINE w == poller[p]
           v == poller'[p]
<1>1. /\ w \in Work /\ Fits(w, inbox) /\ At(p) = InHand(w) /\ Known(w, players, board)
      /\ w.pc = "count" /\ KindOf(At(p)) \in {"started", "finished"}
  BY PollerTyped DEF IncrMany, Fits
<1>2. /\ UNCHANGED <<sender, inbox, players, board>>
      /\ counters' = Increments(p) \/ (outcome # "ok" /\ counters' = counters)
  BY DEF IncrMany, TookEffect
<1>3. /\ counters' \in [players : Nat, started : Nat, completed : Nat]
      /\ counters'.started >= counters.started /\ counters'.completed >= counters.completed
      /\ outcome = "ok" /\ KindOf(At(p)) = "started" => counters'.started >= counters.started + 1
      /\ outcome = "ok" /\ KindOf(At(p)) = "finished" => counters'.completed >= counters.completed + 1
      /\ \/ counters'.players = counters.players
         \/ Arriving(w) /\ counters'.players = counters.players + 1
  <2>1. counters \in [players : Nat, started : Nat, completed : Nat]
    BY Types DEF QInv
  <2>2. CASE counters' = Increments(p)
    BY <1>1, <2>1, <2>2, Incremented
  <2>3. CASE outcome # "ok" /\ counters' = counters
    BY <2>1, <2>3
  <2> QED BY <1>2, <2>2, <2>3
<1>4. Onwards /\ IsFiniteSet(players')
  <2>1. \A q \in Player : board[q] \in Int
    BY Types DEF QInv, Unranked
  <2> QED BY <1>2, <1>3, <2>1, Types DEF QInv, Onwards
<1>5. /\ Moved(p) /\ Fits(v, inbox') /\ Known(v, players', board') /\ ~Arriving(v)
      /\ Counted(v, "started") => counters'.started >= counters.started + 1
      /\ Counted(v, "finished") => counters'.completed >= counters.completed + 1
  <2>1. CASE outcome = "ok"
    <3>1. HandleOk(p)
      BY <2>1 DEF IncrMany, Returned
    <3>2. /\ Moved(p) /\ v.pc = AfterSink(p) /\ v.failed = w.failed /\ InHand(v) = At(p)
          /\ Fits(v, inbox) /\ ~Arriving(v)
      BY <1>1, <3>1, Oks
    <3>3. /\ KindOf(At(p)) = "started" => AfterSink(p) = "settle"
          /\ KindOf(At(p)) = "finished" => AfterSink(p) = "submit"
      BY <1>1 DEF AfterSink
    <3>4. KindOf(At(p)) = "started" => PlayerOf(At(p)) \in players
      BY <1>1, Zenon DEF Known
    <3> HIDE DEF v, w
    <3>5. Known(v, players, board)
      BY <1>1, <3>2, <3>3, <3>4 DEF Known, Counted
    <3>6. /\ Counted(v, "started") => KindOf(At(p)) = "started"
          /\ Counted(v, "finished") => KindOf(At(p)) = "finished"
      BY <3>2 DEF Counted
    <3> QED BY <1>2, <1>3, <2>1, <3>2, <3>5, <3>6
  <2>2. CASE outcome # "ok"
    <3>1. PICK over \in BOOLEAN : HandleErr(p, over)
      BY <2>2 DEF IncrMany, Returned
    <3>2. ~Counted(w, "finished")
      BY <1>1 DEF Counted
    <3> QED BY <1>1, <1>2, <3>1, <3>2, Errs
  <2> QED BY <2>1, <2>2
<1>6. QueueTypeOK' /\ IsFiniteSet(players') /\ PollersOK'
  BY <1>4, <1>5, OneMoves
<1>7. QueueBooks'
  <2>1. \A kind : Deleted(kind)' = Deleted(kind)
    BY <1>2 DEF Deleted
  <2>2. /\ Counting("started")' \subseteq Counting("started") \cup {p}
        /\ Counting("finished")' \subseteq Counting("finished") \cup {p}
        /\ ~Counted(v, "started") => Counting("started")' \subseteq Counting("started")
        /\ ~Counted(v, "finished") => Counting("finished")' \subseteq Counting("finished")
        /\ Newcomers' \subseteq Newcomers \ {p}
        /\ Arriving(w) => p \in Newcomers
    BY <1>5, CountsMove
  <2> HIDE DEF v, w
  <2>3. Moves("started", counters.started, counters'.started, p, p)
    BY <1>3, <1>5, <2>1, <2>2 DEF Moves
  <2>4. Moves("finished", counters.completed, counters'.completed, p, p)
    BY <1>3, <1>5, <2>1, <2>2 DEF Moves
  <2>5. CrowdMoves(p, p)
    BY <1>2, <1>3, <2>2 DEF CrowdMoves
  <2> QED BY <1>3, <1>4, <2>3, <2>4, <2>5, BooksMove
<1>8. QueueTraces'
  <2>1. Deleted("started")' = Deleted("started") /\ Deleted("finished")' = Deleted("finished")
    BY <1>2 DEF Deleted
  <2>2. Ranked(board') = Ranked(board) /\ board' = board /\ players' = players
    BY <1>2
  <2> QED BY <1>4, <2>1, <2>2, TracesStay
<1>9. SendersOK'
  BY <1>2 DEF SendersOK, QInv
<1> QED BY <1>6, <1>7, <1>8, <1>9 DEF QInv

LEMMA Submitted ==
  ASSUME QInv, NEW q \in Player, NEW score \in Nat
  PROVE  /\ Submit(board, q, score) \in [Player -> Nat \cup {Unranked}]
         /\ \A o \in Player : Submit(board, q, score)[o] >= board[o]
         /\ \A o \in Player \ {q} : Submit(board, q, score)[o] = board[o]
         /\ Submit(board, q, score)[q] >= score
         /\ Submit(board, q, score)[q] \in {board[q], score}
<1>1. board \in [Player -> Nat \cup {Unranked}] /\ Unranked = -1
  BY Types DEF QInv, Unranked
<1>2. \A o \in Player : board[o] \in Int
  BY <1>1
<1> DEFINE best == IF score > board[q] THEN score ELSE board[q]
<1>3. Submit(board, q, score) = [board EXCEPT ![q] = best]
  BY DEF Submit
<1>4. best \in Nat \cup {Unranked} /\ best >= score /\ best >= board[q] /\ best \in {board[q], score}
  BY <1>1, <1>2
<1> HIDE DEF best
<1> QED BY <1>1, <1>2, <1>3, <1>4

LEMMA SubmitScoreKeeps ==
  ASSUME QInv, NEW p \in Poller, NEW outcome, SubmitScore(p, outcome)
  PROVE  QInv'
<1> DEFINE w == poller[p]
           v == poller'[p]
           q == PlayerOf(At(p))
           score == What[At(p)[1]].score
<1>1. /\ w \in Work /\ Fits(w, inbox) /\ At(p) = InHand(w) /\ At(p) \in Message
      /\ w.pc = "submit" /\ KindOf(At(p)) = "finished" /\ q \in Player /\ score \in Nat
      /\ What[At(p)[1]].kind = "finished" /\ What[At(p)[1]].player = q /\ inbox[At(p)].at # "nowhere"
  BY PollerTyped, Messages DEF SubmitScore, Fits
<1>2. /\ UNCHANGED <<sender, inbox, players, counters>>
      /\ board' = Submit(board, q, score) \/ (outcome # "ok" /\ board' = board)
  BY DEF SubmitScore, TookEffect
<1>3. /\ board' \in [Player -> Nat \cup {Unranked}]
      /\ \A o \in Player : board'[o] >= board[o]
      /\ \A o \in Player \ {q} : board'[o] = board[o]
      /\ board'[q] \in {board[q], score}
      /\ outcome = "ok" => board'[q] >= score
  <2>1. board \in [Player -> Nat \cup {Unranked}] /\ \A o \in Player : board[o] \in Int
    BY Types DEF QInv, Unranked
  <2>2. CASE board' = Submit(board, q, score)
    <3> DEFINE b == Submit(board, q, score)
    <3>1. /\ b \in [Player -> Nat \cup {Unranked}] /\ \A o \in Player : b[o] >= board[o]
          /\ \A o \in Player \ {q} : b[o] = board[o]
          /\ b[q] >= score /\ b[q] \in {board[q], score}
      BY <1>1, Submitted
    <3> HIDE DEF b, q, score
    <3> QED BY <2>2, <3>1 DEF b
  <2>3. CASE outcome # "ok" /\ board' = board
    BY <2>3, BoardSame
  <2> QED BY <1>2, <2>2, <2>3
<1>4. Onwards /\ IsFiniteSet(players')
  BY <1>2, <1>3, Types DEF QInv, Onwards
<1>5. /\ Moved(p) /\ Fits(v, inbox') /\ Known(v, players', board') /\ ~Arriving(v)
      /\ ~Counted(v, "started") /\ (Counted(v, "finished") => Counted(w, "finished"))
  <2>1. CASE outcome = "ok"
    <3>1. HandleOk(p)
      BY <2>1 DEF SubmitScore, Returned
    <3>2. /\ Moved(p) /\ v.pc = AfterSink(p) /\ v.failed = w.failed /\ InHand(v) = At(p)
          /\ Fits(v, inbox) /\ ~Arriving(v)
      BY <1>1, <3>1, Oks
    <3>3. board'[PlayerOf(At(p))] >= What[At(p)[1]].score
      BY <1>3, <2>1
    <3> HIDE DEF v, w
    <3>4. ~Counted(v, "started") /\ (Counted(v, "finished") => Counted(w, "finished"))
      BY <1>1, <3>2 DEF Counted
    <3>5. v.pc # "count"
      BY <3>2 DEF AfterSink
    <3>6. Known(v, players, board')
      BY <3>2, <3>3, <3>4, <3>5, Zenon DEF Known
    <3> QED BY <1>2, <3>2, <3>4, <3>6
  <2>2. CASE outcome # "ok"
    <3>1. PICK over \in BOOLEAN : HandleErr(p, over)
      BY <2>2 DEF SubmitScore, Returned
    <3> QED BY <1>1, <1>2, <3>1, Errs
  <2> QED BY <2>1, <2>2
<1>6. QueueTypeOK' /\ IsFiniteSet(players') /\ PollersOK'
  BY <1>4, <1>5, OneMoves
<1>7. QueueBooks'
  <2>1. \A kind : Deleted(kind)' = Deleted(kind)
    BY <1>2 DEF Deleted
  <2>2. /\ Counting("started")' \subseteq Counting("started")
        /\ Counting("finished")' \subseteq Counting("finished")
        /\ Newcomers' \subseteq Newcomers
    <3> HIDE DEF v, w
    <3>1. /\ Counting("started")' \subseteq Counting("started") \ {p}
          /\ Newcomers' \subseteq Newcomers \ {p}
      BY <1>5, CountsMove DEF v
    <3>2. Counting("finished")' \subseteq Counting("finished")
      BY <1>5, CountsMove DEF v, w
    <3> QED BY <3>1, <3>2
  <2>3. /\ counters'.started >= counters.started /\ counters'.completed >= counters.completed
        /\ counters' = counters /\ counters' \in [players : Nat, started : Nat, completed : Nat]
    BY <1>2, BooksTyped, Types DEF QInv
  <2>4. CrowdMoves(p, p)
    BY <1>2, <2>2 DEF CrowdMoves
  <2>5. /\ Moves("started", counters.started, counters'.started, p, p)
        /\ Moves("finished", counters.completed, counters'.completed, p, p)
    BY <2>1, <2>2, <2>3 DEF Moves
  <2> QED BY <1>4, <2>3, <2>4, <2>5, BooksMove
<1>8. QueueTraces'
  <2>1. /\ Deleted("started")' = Deleted("started") /\ Deleted("finished")' = Deleted("finished")
        /\ players' = players
    BY <1>2 DEF Deleted
  <2>2. At(p)[1] \in SentItems'
    BY <1>1, <1>2 DEF SentItems
  <2>3. \A o \in Ranked(board') : board'[o] = board[o] \/ \E i \in SentItems' :
          What[i].kind = "finished" /\ What[i].player = o /\ What[i].score = board'[o]
    <3>1. DOMAIN board' = Player
      BY <1>3
    <3> QED BY <1>1, <1>3, <2>2, <3>1 DEF Ranked
  <2> QED BY <1>4, <2>1, <2>3, TracesStay
<1>9. SendersOK'
  BY <1>2 DEF SendersOK, QInv
<1> QED BY <1>6, <1>7, <1>8, <1>9 DEF QInv

(* The next message of the batch. *)
LEMMA Passing ==
  ASSUME QInv, NEW p \in Poller, poller[p].pc = "settle", Onward(p), NEW box,
         \A m \in Message : inbox[m].at # "nowhere" => box[m].at # "nowhere"
  PROVE  /\ Moved(p) /\ Fits(poller'[p], box) /\ ~Arriving(poller'[p])
         /\ ~Counted(poller'[p], "started") /\ ~Counted(poller'[p], "finished")
         /\ poller'[p].pc # "poll" => \A known, scores : Known(poller'[p], known, scores)
<1> DEFINE b == poller[p].batch
<1>1. /\ poller \in [Poller -> Work] /\ Fits(poller[p], inbox)
      /\ b \in Seq(Receipts) /\ b # <<>> /\ Tail(b) \in Seq(Receipts)
  BY PollerTyped DEF Fits
<1>2. \A k \in DOMAIN b : b[k].message \in Message /\ box[b[k].message].at # "nowhere"
  <2>1. \A k \in DOMAIN b : b[k] \in Receipts
    BY <1>1
  <2> QED BY <1>1, <2>1 DEF Fits, Receipts
<1>3. \A k \in DOMAIN Tail(b) : k + 1 \in DOMAIN b /\ Tail(b)[k] = b[k + 1]
  <2> HIDE DEF b
  <2> QED BY <1>1
<1>4. \A k \in DOMAIN Tail(b) : box[Tail(b)[k].message].at # "nowhere"
  BY <1>2, <1>3
<1>5. poller' = [poller EXCEPT ![p] = Begin(Tail(b))]
  BY DEF Onward
<1> HIDE DEF b
<1>6. LET w == Begin(Tail(b))
      IN  /\ w \in Work /\ Fits(w, box)
          /\ w.pc # "poll" => (\A known, scores : Known(w, known, scores))
          /\ ~Counted(w, "started") /\ ~Counted(w, "finished") /\ ~Arriving(w)
  BY <1>1, <1>4, Beginning
<1>7. poller'[p] = Begin(Tail(b)) /\ Moved(p)
  BY <1>1, <1>5, <1>6 DEF Moved
<1> QED BY <1>6, <1>7

(* Nobody leaves the books but poller p, and with it at most message m. *)
LEMMA BooksClose ==
  ASSUME QInv, NEW p \in Poller, NEW m, counters' = counters, players' = players,
         Moved(p), ~Counted(poller'[p], "started"), ~Counted(poller'[p], "finished"),
         ~Arriving(poller'[p]),
         \A kind \in {"started", "finished"} :
           \/ Deleted(kind)' \subseteq Deleted(kind)
           \/ Deleted(kind)' \subseteq Deleted(kind) \cup {m} /\ Counted(poller[p], kind)
  PROVE  QueueBooks'
<1>1. /\ counters'.started >= counters.started /\ counters'.completed >= counters.completed
      /\ counters' \in [players : Nat, started : Nat, completed : Nat] /\ IsFiniteSet(players')
  BY BooksTyped, Types DEF QInv
<1>2. /\ Counting("started")' \subseteq Counting("started") \ {p}
      /\ Counting("finished")' \subseteq Counting("finished") \ {p}
      /\ Newcomers' \subseteq Newcomers \ {p}
      /\ Counted(poller[p], "started") => p \in Counting("started")
      /\ Counted(poller[p], "finished") => p \in Counting("finished")
  BY CountsMove
<1>3. /\ Moves("started", counters.started, counters'.started, p, m)
      /\ Moves("finished", counters.completed, counters'.completed, p, m)
  BY <1>1, <1>2 DEF Moves
<1>4. CrowdMoves(p, p)
  BY <1>2 DEF CrowdMoves
<1> QED BY <1>1, <1>3, <1>4, BooksMove

LEMMA LeaveKeeps ==
  ASSUME QInv, NEW p \in Poller, Leave(p)
  PROVE  QInv'
<1>1. /\ Onward(p) /\ UNCHANGED <<sender, inbox, players, counters, board>>
      /\ poller[p].pc = "settle"
  BY DEF Leave, redisVars
<1>2. Onwards /\ IsFiniteSet(players')
  BY <1>1, Still DEF QInv, redisVars
<1>3. /\ Moved(p) /\ Fits(poller'[p], inbox') /\ ~Arriving(poller'[p])
      /\ ~Counted(poller'[p], "started") /\ ~Counted(poller'[p], "finished")
      /\ poller'[p].pc # "poll" => \A known, scores : Known(poller'[p], known, scores)
  BY <1>1, Passing
<1>4. QueueTypeOK' /\ PollersOK'
  BY <1>2, <1>3, OneMoves
<1>5. \A kind : Deleted(kind)' = Deleted(kind)
  BY <1>1 DEF Deleted
<1>6. QueueBooks'
  BY <1>1, <1>3, <1>5, BooksClose
<1>7. QueueTraces'
  <2>1. Ranked(board') = Ranked(board) /\ board' = board /\ players' = players
    BY <1>1
  <2> QED BY <1>2, <1>5, <2>1, TracesStay
<1>8. SendersOK'
  BY <1>1 DEF SendersOK, QInv
<1> QED BY <1>2, <1>4, <1>6, <1>7, <1>8 DEF QInv

LEMMA DeleteKeeps ==
  ASSUME QInv, NEW p \in Poller, NEW took, Delete(p, took)
  PROVE  QInv'
<1> DEFINE m == At(p)
<1>1. /\ Onward(p) /\ UNCHANGED <<sender, players, counters, board>>
      /\ poller[p].pc = "settle" /\ ~poller[p].failed
      /\ inbox' = inbox \/ inbox' = [inbox EXCEPT ![m].at = "deleted"]
  BY DEF Delete, redisVars
<1>2. /\ m \in Message /\ m = InHand(poller[p]) /\ Known(poller[p], players, board)
      /\ inbox \in [Message -> Place]
  BY <1>1, PollerTyped, Types DEF QInv
<1> HIDE DEF m
<1>3. /\ inbox' \in [Message -> Place]
      /\ \A n \in Message : inbox[n].at # "nowhere" => inbox'[n].at # "nowhere"
      /\ \A n \in Message \ {m} : inbox'[n] = inbox[n]
  BY <1>1, <1>2 DEF Place
<1>4. Onwards /\ IsFiniteSet(players')
  <2>1. \A q \in Player : board[q] \in Int
    BY Types DEF QInv, Unranked
  <2> QED BY <1>1, <1>3, <2>1, Types DEF QInv, Onwards
<1>5. /\ Moved(p) /\ Fits(poller'[p], inbox') /\ ~Arriving(poller'[p])
      /\ ~Counted(poller'[p], "started") /\ ~Counted(poller'[p], "finished")
      /\ poller'[p].pc # "poll" => \A known, scores : Known(poller'[p], known, scores)
  BY <1>1, <1>3, Passing
<1>6. QueueTypeOK' /\ PollersOK'
  BY <1>4, <1>5, OneMoves
<1>7. \A kind \in {"started", "finished"} :
        \/ Deleted(kind)' \subseteq Deleted(kind)
        \/ Deleted(kind)' \subseteq Deleted(kind) \cup {m} /\ Counted(poller[p], kind)
  <2>1. \A kind : Deleted(kind)' \subseteq Deleted(kind) \cup {m}
    BY <1>3 DEF Deleted
  <2>2. \A kind : KindOf(m) # kind => m \notin Deleted(kind)'
    BY DEF Deleted
  <2>3. \A kind : KindOf(m) = kind => Counted(poller[p], kind)
    BY <1>1, <1>2 DEF Counted
  <2> QED BY <2>1, <2>2, <2>3
<1>8. QueueBooks'
  BY <1>1, <1>5, <1>7, BooksClose
<1>9. QueueTraces'
  <2>1. Ranked(board') = Ranked(board) /\ board' = board /\ players' = players
    BY <1>1
  <2>2. \A n \in Deleted("started")' \ Deleted("started") : n = m /\ Counted(poller[p], "started")
    BY <1>7
  <2>3. \A n \in Deleted("finished")' \ Deleted("finished") : n = m /\ Counted(poller[p], "finished")
    BY <1>7
  <2>4. Counted(poller[p], "started") => PlayerOf(m) \in players'
    BY <1>1, <1>2 DEF Known
  <2>5. Counted(poller[p], "finished") => board'[PlayerOf(m)] >= What[m[1]].score
    BY <1>1, <1>2, Zenon DEF Known
  <2> QED BY <1>4, <2>1, <2>2, <2>3, <2>4, <2>5, TracesStay
<1>10. SendersOK'
  BY <1>1 DEF SendersOK, QInv
<1> QED BY <1>4, <1>6, <1>8, <1>9, <1>10 DEF QInv

LEMMA Flying ==
  ASSUME NEW place, NEW n, place = [at |-> "flight", receives |-> n]
  PROVE  place.at # "nowhere"
OBVIOUS

LEMMA ReceiveKeeps ==
  ASSUME QInv, NEW p \in Poller, NEW batch \in Batches, NEW answered \in BOOLEAN,
         poller[p].pc = "poll", Receive(p, batch, answered)
  PROVE  QInv'
<1> DEFINE receipts == [k \in DOMAIN batch |-> Receipt(batch[k])]
<1>1. inbox \in [Message -> Place] /\ poller \in [Poller -> Work]
  BY Types DEF QInv
<1>2. PICK n \in 1..BatchSize : batch \in [1..n -> {m \in Message : Receivable(m)}]
  BY DEF Batches
<1>3. \A k \in 1..n : batch[k] \in Message /\ inbox[batch[k]].receives + 1 \in 1..MaxReceives
  <2> SUFFICES ASSUME NEW k \in 1..n
               PROVE  batch[k] \in Message /\ inbox[batch[k]].receives + 1 \in 1..MaxReceives
    OBVIOUS
  <2>1. batch[k] \in Message /\ Receivable(batch[k])
    BY <1>2
  <2>2. inbox[batch[k]].receives \in 0..MaxReceives /\ inbox[batch[k]].receives < MaxReceives
    BY <1>1, <2>1 DEF Place, Receivable
  <2> QED BY <2>1, <2>2
<1>4. \A m \in Message :
        inbox'[m] = IF \E k \in DOMAIN batch : batch[k] = m
                    THEN [at |-> "flight", receives |-> inbox[m].receives + 1] ELSE inbox[m]
  BY DEF Receive
<1>5. /\ inbox' \in [Message -> Place]
      /\ \A m \in Message : inbox[m].at # "nowhere" => inbox'[m].at # "nowhere"
      /\ \A m \in Message : inbox'[m].at = "deleted" => inbox[m].at = "deleted"
  <2>1. ASSUME NEW m \in Message
        PROVE  /\ inbox'[m] \in Place
               /\ inbox[m].at # "nowhere" => inbox'[m].at # "nowhere"
               /\ inbox'[m].at = "deleted" => inbox[m].at = "deleted"
    <3>1. CASE \E k \in DOMAIN batch : batch[k] = m
      <4>1. inbox'[m] = [at |-> "flight", receives |-> inbox[m].receives + 1]
        BY <1>4, <3>1
      <4>2. inbox[m].receives + 1 \in 0..MaxReceives
        BY <1>2, <1>3, <3>1
      <4> QED BY <4>1, <4>2 DEF Place
    <3>2. CASE ~ \E k \in DOMAIN batch : batch[k] = m
      BY <1>1, <1>4, <3>2
    <3> QED BY <3>1, <3>2
  <2>2. DOMAIN inbox' = Message /\ inbox' = [m \in Message |-> inbox'[m]]
    BY DEF Receive
  <2> QED BY <2>1, <2>2
<1>6. CASE ~answered
  <2>1. UNCHANGED <<sender, poller, redisVars>>
    BY <1>6 DEF Receive
  <2>2. sender' \in [Item -> [pc : {"sending", "sent", "failed"}, sends : 0..MaxSends]] /\ SendersOK'
    BY <2>1, Types DEF QInv, SendersOK
  <2> QED BY <1>5, <2>1, <2>2, OnlyInbox
<1>7. CASE answered
  <2>1. /\ UNCHANGED <<sender, players, counters, board>>
        /\ poller' = [poller EXCEPT ![p] = Begin(receipts)]
    BY <1>7 DEF Receive, redisVars
  <2>2. receipts \in Seq(Receipts) /\ DOMAIN receipts = 1..n
        /\ \A k \in 1..n : receipts[k].message = batch[k]
    <3>1. DOMAIN batch = 1..n /\ n \in Nat
      BY <1>2
    <3>2. \A k \in 1..n : Receipt(batch[k]) \in Receipts /\ Receipt(batch[k]).message = batch[k]
      BY <1>3 DEF Receipt, Receipts
    <3>3. receipts \in [1..n -> Receipts]
      BY <3>1, <3>2
    <3> QED BY <3>1, <3>2, <3>3
  <2>3. \A k \in DOMAIN receipts : inbox'[receipts[k].message].at # "nowhere"
    <3>1. \A k \in 1..n : inbox'[batch[k]] = [at |-> "flight", receives |-> inbox[batch[k]].receives + 1]
      BY <1>2, <1>3, <1>4
    <3>2. ASSUME NEW k \in DOMAIN receipts
          PROVE  inbox'[receipts[k].message].at # "nowhere"
      <4>1. k \in 1..n /\ receipts[k].message = batch[k]
        BY <2>2
      <4> HIDE DEF receipts
      <4>2. inbox'[batch[k]].at # "nowhere"
        <5>1. inbox'[batch[k]] = [at |-> "flight", receives |-> inbox[batch[k]].receives + 1]
          BY <3>1, <4>1
        <5> QED BY <5>1, Flying
      <4> QED BY <4>1, <4>2
    <3> HIDE DEF receipts
    <3> QED BY <3>2
  <2> DEFINE w == Begin(receipts)
  <2>4. /\ w \in Work /\ Fits(w, inbox')
        /\ w.pc # "poll" => (\A known, scores : Known(w, known, scores))
        /\ ~Counted(w, "started") /\ ~Counted(w, "finished") /\ ~Arriving(w)
    <3> HIDE DEF receipts
    <3> QED BY <2>2, <2>3, Beginning
  <2> HIDE DEF w
  <2>5. poller'[p] = w /\ Moved(p)
    BY <1>1, <2>1, <2>4 DEF Moved, w
  <2>6. Onwards /\ IsFiniteSet(players')
    <3>2. /\ sender \in [Item -> [pc : {"sending", "sent", "failed"}, sends : 0..MaxSends]]
          /\ players \subseteq Player /\ IsFiniteSet(players)
          /\ counters \in [players : Nat, started : Nat, completed : Nat]
          /\ board \in [Player -> Nat \cup {Unranked}]
      BY Types DEF QInv
    <3>3. \A q \in Player : board'[q] >= board[q]
      BY <2>1, BoardSame
    <3> HIDE DEF receipts
    <3> QED BY <1>5, <2>1, <3>2, <3>3 DEF Onwards
  <2>7. QueueTypeOK' /\ PollersOK'
    BY <2>4, <2>5, <2>6, OneMoves
  <2>8. \A kind : Deleted(kind)' \subseteq Deleted(kind)
    BY <1>5 DEF Deleted
  <2>9. QueueBooks'
    BY <2>1, <2>4, <2>5, <2>8, BooksClose
  <2>10. QueueTraces'
    <3>1. Ranked(board') = Ranked(board) /\ board' = board /\ players' = players
      BY <2>1
    <3> QED BY <2>6, <2>8, <3>1, TracesStay
  <2>11. SendersOK'
    BY <2>1 DEF SendersOK, QInv
  <2> QED BY <2>6, <2>7, <2>9, <2>10, <2>11 DEF QInv
<1> QED BY <1>6, <1>7

LEMMA ExitKeeps ==
  ASSUME QInv, NEW process, Exit(process)
  PROVE  QInv'
<1>1. /\ UNCHANGED <<sender, inbox, players, counters, board>>
      /\ poller' = [p \in Poller |-> IF Runs[p] = process THEN Polling ELSE poller[p]]
  BY DEF Exit, redisVars
<1>2. Onwards /\ IsFiniteSet(players')
  BY <1>1, Still DEF QInv, redisVars
<1>3. /\ Polling \in Work /\ Polling.pc = "poll" /\ Fits(Polling, inbox')
      /\ ~Arriving(Polling) /\ \A kind : ~Counted(Polling, kind)
  BY DEF Polling, Work, Fits, Arriving, Counted
<1>4. \A p \in Poller : poller'[p] = poller[p] \/ poller'[p] = Polling
  BY <1>1
<1>5. QueueTypeOK' /\ PollersOK'
  <2>1. poller' \in [Poller -> Work]
    BY <1>1, <1>3, Types DEF QInv
  <2> QED BY <1>2, <1>3, <1>4, <2>1, PollersMove
<1>6. /\ \A kind : Deleted(kind)' = Deleted(kind) /\ Counting(kind)' \subseteq Counting(kind)
      /\ Newcomers' \subseteq Newcomers
  BY <1>1, <1>3, <1>4, Zenon DEF Deleted, Counting, Newcomers
<1>7. QueueBooks'
  <2>1. /\ counters'.started >= counters.started /\ counters'.completed >= counters.completed
        /\ counters' \in [players : Nat, started : Nat, completed : Nat]
    BY <1>1, BooksTyped, Types DEF QInv
  <2>2. /\ Moves("started", counters.started, counters'.started, 0, 0)
        /\ Moves("finished", counters.completed, counters'.completed, 0, 0)
    BY <1>6, <2>1 DEF Moves
  <2>3. CrowdMoves(0, 0)
    BY <1>1, <1>6 DEF CrowdMoves
  <2> QED BY <1>2, <2>1, <2>2, <2>3, BooksMove
<1>8. QueueTraces'
  <2>1. Ranked(board') = Ranked(board) /\ board' = board /\ players' = players
    BY <1>1
  <2> QED BY <1>2, <1>6, <2>1, TracesStay
<1>9. SendersOK'
  BY <1>1 DEF SendersOK, QInv
<1> QED BY <1>2, <1>5, <1>7, <1>8, <1>9 DEF QInv

-----------------------------------------------------------------------------
LEMMA QueueStart == QueueInit => QInv
<1> SUFFICES ASSUME QueueInit PROVE QInv
  OBVIOUS
<1> USE DEF QueueInit
<1>1. QueueTypeOK
  <2>1. sender \in [Item -> [pc : {"sending", "sent", "failed"}, sends : 0..MaxSends]]
    OBVIOUS
  <2>2. inbox \in [Message -> Place]
    BY DEF Place
  <2>3. poller \in [Poller -> Work]
    BY DEF Polling, Work
  <2>4. board \in [Player -> Nat \cup {Unranked}]
    BY DEF Empty
  <2> QED BY <2>1, <2>2, <2>3, <2>4, Types
<1>2. IsFiniteSet(players)
  BY FS_EmptySet
<1>3. SendersOK
  BY DEF SendersOK
<1>4. PollersOK
  <2>1. Polling.pc = "poll" /\ Polling.batch = <<>>
    BY DEF Polling
  <2>2. \A p \in Poller : poller[p] = Polling
    OBVIOUS
  <2>3. Fits(Polling, inbox)
    BY <2>1 DEF Fits
  <2> QED BY <2>1, <2>2, <2>3 DEF PollersOK
<1>5. \A kind : Deleted(kind) = {} /\ Counting(kind) = {} /\ Newcomers = {}
  <2>1. \A kind : Deleted(kind) = {}
    BY DEF Deleted
  <2>2. \A kind : Counting(kind) = {} /\ Newcomers = {}
    BY DEF Counting, Newcomers, Counted, Arriving, Polling
  <2> QED BY <2>1, <2>2
<1>6. QueueBooks
  <2>1. /\ Cardinality(Deleted("started")) = 0 /\ Cardinality(Counting("started")) = 0
        /\ Cardinality(Deleted("finished")) = 0 /\ Cardinality(Counting("finished")) = 0
        /\ Cardinality(Newcomers) = 0 /\ Cardinality(players) = 0
    <3>1. Cardinality({}) = 0
      BY FS_EmptySet
    <3> QED BY <1>5, <3>1, Zenon
  <2>2. counters.started = 0 /\ counters.completed = 0 /\ counters.players = 0
    OBVIOUS
  <2> QED BY <2>1, <2>2 DEF QueueBooks
<1>7. QueueTraces
  <2>1. Ranked(board) = {}
    BY DEF Ranked, Empty
  <2> QED BY <1>5, <2>1 DEF QueueTraces
<1> QED BY <1>1, <1>2, <1>3, <1>4, <1>6, <1>7 DEF QInv

LEMMA QueueStep == QInv /\ [QueueNext]_queueVars => QInv'
<1> SUFFICES ASSUME QInv, [QueueNext]_queueVars PROVE QInv'
  OBVIOUS
<1>1. ASSUME NEW i \in Item, Sending(i) PROVE QInv'
  BY <1>1, SendMessageKeeps DEF Sending
<1>2. ASSUME NEW m \in Message, Queueing(m) PROVE QInv'
  BY <1>2, QueueingKeeps
<1>3. ASSUME NEW p \in Poller, PollerStep(p) PROVE QInv'
  <2>1. ASSUME poller[p].pc = "poll", NEW batch \in Batches, NEW answered \in BOOLEAN,
               Receive(p, batch, answered)
        PROVE  QInv'
    BY <2>1, ReceiveKeeps
  <2>2. ASSUME Dispatching(p) PROVE QInv'
    BY <2>2, AddUniqueKeeps, IncrManyKeeps, SubmitScoreKeeps DEF Dispatching
  <2>3. ASSUME Leave(p) PROVE QInv'
    BY <2>3, LeaveKeeps
  <2>4. ASSUME NEW took \in BOOLEAN, Delete(p, took) PROVE QInv'
    BY <2>4, DeleteKeeps
  <2> QED BY <1>3, <2>1, <2>2, <2>3, <2>4 DEF PollerStep
<1>4. ASSUME NEW p \in Poller, Exit(Runs[p]) PROVE QInv'
  BY <1>4, ExitKeeps
<1>5. CASE UNCHANGED queueVars
  <2>1. UNCHANGED <<poller, redisVars>> /\ UNCHANGED <<sender, inbox>>
    BY <1>5 DEF queueVars, redisVars
  <2>2. /\ sender' \in [Item -> [pc : {"sending", "sent", "failed"}, sends : 0..MaxSends]]
        /\ SendersOK' /\ inbox' \in [Message -> Place]
    BY <2>1, Types DEF QInv, SendersOK
  <2> QED BY <2>1, <2>2, OnlyInbox
<1> QED BY <1>1, <1>2, <1>3, <1>4, <1>5 DEF QueueNext, QueueProgress

LEMMA QueueInvariant == QueueSpec => []QInv
BY QueueStart, QueueStep, PTL DEF QueueSpec

(* Senders, queue, pollers and cache keep their types. *)
THEOREM QueueTyped == QueueSpec => []QueueTypeOK
<1>1. QInv => QueueTypeOK
  BY DEF QInv
<1> QED BY <1>1, QueueInvariant, PTL

(* A message only leaves the queue when every sink has taken it: redelivery, *)
(* late deletes, failing sinks and ending workers lose no count.            *)
THEOREM DeletedIsCounted == QueueSpec => []NothingUncounted
<1>1. QInv => NothingUncounted
  <2> SUFFICES ASSUME QInv PROVE NothingUncounted
    OBVIOUS
  <2>1. /\ Cardinality(Deleted("started")) \in Nat /\ Cardinality(Counting("started")) \in Nat
        /\ Cardinality(Deleted("finished")) \in Nat /\ Cardinality(Counting("finished")) \in Nat
    BY Finite, FS_CardinalityType
  <2> QED BY <2>1, BooksTyped DEF NothingUncounted, QInv, QueueTraces
<1> QED BY <1>1, QueueInvariant, PTL

(* However often a message comes back, the report counts no more players     *)
(* than there are, and the board holds only scores that were sent.          *)
THEOREM RedeliveryInflatesNothing == QueueSpec => []NothingInflated
<1>1. QInv => NothingInflated
  <2> SUFFICES ASSUME QInv PROVE NothingInflated
    OBVIOUS
  <2>1. Cardinality(Newcomers) \in Nat /\ Cardinality(players) \in Nat
    BY Finite, BooksTyped, FS_CardinalityType
  <2>2. counters.players <= Cardinality(players)
    BY <2>1, BooksTyped
  <2> QED BY <2>2 DEF NothingInflated, QInv, QueueTraces
<1> QED BY <1>1, QueueInvariant, PTL
=============================================================================
