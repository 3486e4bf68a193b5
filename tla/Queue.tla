--------------------------------- MODULE Queue ---------------------------------
(***************************************************************************)
(* Telemetry between the processes: the API's only sink sends every event  *)
(* to a queue, and the pollers of the worker processes dispatch what they  *)
(* receive to the analytics counters and to the leaderboard.  The queue    *)
(* delivers at least once: what is not deleted becomes visible again, and  *)
(* goes to the dead letters after a number of receives.                    *)
(***************************************************************************)
EXTENDS Leaderboard, Sequences

CONSTANTS
  Item,         \* events the bus of the API hands to its publisher
  What,         \* What[i]: the type, the player and the score of event i
  Player,       \* players, as numbers
  Poller,       \* goroutines of all worker processes
  Runs,         \* Runs[p]: the process poller p belongs to
  MaxSends,     \* attempts of the API's bus to deliver one event to the publisher
  MaxReceives,  \* maxReceiveCount of the redrive policy
  MaxTries,     \* attempts of the worker's bus to deliver to one sink
  BatchSize,    \* messages of one receive
  MaxFaults     \* bound: calls that go wrong and processes that end

(* Of a call; acklost: it took effect, and its answer is lost. *)
Outcome == {"ok", "error", "acklost"}
Kind == {"started", "finished", "other", "unreadable"}

ASSUME QueueAssumption ==
  /\ IsFiniteSet(Item) /\ IsFiniteSet(Poller)
  /\ Player \subseteq Nat
  /\ What \in [Item -> [kind : Kind, player : Player, score : Nat]]
  /\ {MaxSends, MaxReceives, MaxTries, BatchSize} \subseteq Nat \ {0}
  /\ MaxFaults \in Nat

Message == Item \X (1..MaxSends)
KindOf(m) == What[m[1]].kind
PlayerOf(m) == What[m[1]].player

VARIABLES
  sender,       \* sender[i]: the publisher's attempts at event i, and how that ended
  inbox,        \* inbox[m]: where message m is, and how often it was received
  poller,       \* poller[p]: its step, the receipts of the batch still to handle, ...
  players,      \* the set of players in the cache
  counters,     \* the hash of counters
  board,        \* the sorted set
  faults        \* what went wrong so far

redisVars == <<players, counters, board>>
queueVars == <<sender, inbox, poller, redisVars, faults>>

Polling == [pc |-> "poll", batch |-> <<>>, attempt |-> 1, isNew |-> FALSE, failed |-> FALSE]

QueueInit ==
  /\ sender = [i \in Item |-> [pc |-> "sending", sends |-> 0]]
  /\ inbox = [m \in Message |-> [at |-> "nowhere", receives |-> 0]]
  /\ poller = [p \in Poller |-> Polling]
  /\ players = {}
  /\ counters = [players |-> 0, started |-> 0, completed |-> 0]
  /\ board = Empty(Player)
  /\ faults = 0

Fault(wrong) ==
  /\ wrong => faults < MaxFaults
  /\ faults' = IF wrong THEN faults + 1 ELSE faults
TookEffect(outcome) == outcome \in {"ok", "acklost"}

-----------------------------------------------------------------------------
(* Publisher.Handle, under the retries of the API's bus: an attempt whose    *)
(* answer is lost has sent a message of its own.                            *)

SendMessage(i, outcome) ==
  LET k == sender[i].sends + 1 IN
  /\ sender[i].pc = "sending"
  /\ Fault(outcome # "ok")
  /\ sender' = [sender EXCEPT ![i] =
       [pc |-> CASE outcome = "ok" -> "sent"
                 [] outcome # "ok" /\ k = MaxSends -> "failed"
                 [] OTHER -> "sending",
        sends |-> k]]
  /\ inbox' = IF TookEffect(outcome) THEN [inbox EXCEPT ![<<i, k>>].at = "visible"] ELSE inbox
  /\ UNCHANGED <<poller, redisVars>>

-----------------------------------------------------------------------------
(* The queue itself. *)

(* The visibility timeout runs for the whole batch, which is handled one     *)
(* message after the other: it may pass at any time.                        *)
Expire(m) ==
  /\ inbox[m].at = "flight"
  /\ inbox' = [inbox EXCEPT ![m].at = "visible"]
  /\ UNCHANGED <<sender, poller, redisVars, faults>>

(* The redrive policy *)
DeadLetter_OneLater(m) ==
  /\ inbox[m].at = "visible" /\ inbox[m].receives > MaxReceives
  /\ inbox' = [inbox EXCEPT ![m].at = "dead"]
  /\ UNCHANGED <<sender, poller, redisVars, faults>>
Receivable(m) == inbox[m].at = "visible" /\ inbox[m].receives < MaxReceives
DeadLetter(m) ==
  /\ inbox[m].at = "visible" /\ inbox[m].receives >= MaxReceives
  /\ inbox' = [inbox EXCEPT ![m].at = "dead"]
  /\ UNCHANGED <<sender, poller, redisVars, faults>>

-----------------------------------------------------------------------------
(* Consumer.poll and Consumer.handle *)

Receipt(m) == [message |-> m, number |-> inbox[m].receives + 1]
Batches ==
  {b \in UNION {[1..n -> {m \in Message : Receivable(m)}] : n \in 1..BatchSize} :
     \A j, k \in DOMAIN b : b[j] = b[k] => j = k}

At(p) == Head(poller[p].batch).message

(* The step a message starts with, and the one after it is dispatched. *)
First(m) == CASE KindOf(m) = "started" -> "unique"
              [] KindOf(m) = "finished" -> "count"
              [] KindOf(m) \in {"other", "unreadable"} -> "settle"
Begin(batch) ==
  IF batch = <<>> THEN Polling
  ELSE [Polling EXCEPT !.pc = First(Head(batch).message), !.batch = batch]

(* A lost answer leaves the messages in flight, in nobody's hands. *)
Receive(p, batch, answered) ==
  /\ Fault(~answered)
  /\ inbox' = [m \in Message |->
       IF \E k \in DOMAIN batch : batch[k] = m
       THEN [at |-> "flight", receives |-> inbox[m].receives + 1] ELSE inbox[m]]
  /\ poller' = IF answered
               THEN [poller EXCEPT ![p] = Begin([k \in DOMAIN batch |-> Receipt(batch[k])])]
               ELSE poller
  /\ UNCHANGED <<sender, redisVars>>

(* Bus.Dispatch: the analytics sink, then the leaderboard's. *)
SinkStart(p) == IF poller[p].pc = "submit" THEN "submit" ELSE First(At(p))
AfterSink(p) ==
  IF poller[p].pc = "count" /\ KindOf(At(p)) = "finished" THEN "submit" ELSE "settle"

(* Bus.deliver: the sink's Handle starts over, unless the attempts, or the   *)
(* 20 seconds of the message, are over; then the next sink has its turn.    *)
HandleErr(p, over) ==
  LET w == poller[p] IN
  poller' = [poller EXCEPT ![p] =
    IF over \/ w.attempt = MaxTries
    THEN [w EXCEPT !.pc = AfterSink(p), !.attempt = 1, !.failed = TRUE]
    ELSE [w EXCEPT !.pc = SinkStart(p), !.attempt = w.attempt + 1]]
HandleOk_ClearsFailure(p) ==
  poller' = [poller EXCEPT ![p] = [@ EXCEPT !.pc = AfterSink(p), !.attempt = 1, !.failed = FALSE]]
HandleOk(p) == poller' = [poller EXCEPT ![p] = [@ EXCEPT !.pc = AfterSink(p), !.attempt = 1]]

Returned(p, outcome) ==
  IF outcome = "ok" THEN HandleOk(p) ELSE \E over \in BOOLEAN : HandleErr(p, over)

(* analytics.Sink.Handle: AddUnique for a run that started, then IncrMany *)
AddUnique(p, outcome) ==
  /\ poller[p].pc = "unique"
  /\ Fault(outcome # "ok")
  /\ players' = IF TookEffect(outcome) THEN players \cup {PlayerOf(At(p))} ELSE players
  /\ IF outcome = "ok"
     THEN poller' = [poller EXCEPT ![p] =
            [@ EXCEPT !.pc = "count", !.isNew = PlayerOf(At(p)) \notin players]]
     ELSE \E over \in BOOLEAN : HandleErr(p, over)
  /\ UNCHANGED <<sender, inbox, counters, board>>

Increments_AnyPlayer(p) ==
  IF KindOf(At(p)) = "started"
  THEN [counters EXCEPT !.started = @ + 1, !.players = @ + 1]
  ELSE [counters EXCEPT !.completed = @ + 1]
Increments(p) ==
  IF KindOf(At(p)) = "started"
  THEN [counters EXCEPT !.started = @ + 1, !.players = @ + IF poller[p].isNew THEN 1 ELSE 0]
  ELSE [counters EXCEPT !.completed = @ + 1]
IncrMany(p, outcome) ==
  /\ poller[p].pc = "count"
  /\ Fault(outcome # "ok")
  /\ counters' = IF TookEffect(outcome) THEN Increments(p) ELSE counters
  /\ Returned(p, outcome)
  /\ UNCHANGED <<sender, inbox, players, board>>

(* leaderboard.Sink.Handle *)
SubmitScore(p, outcome) ==
  /\ poller[p].pc = "submit"
  /\ Fault(outcome # "ok")
  /\ board' = IF TookEffect(outcome) THEN Submit(board, PlayerOf(At(p)), What[At(p)[1]].score)
              ELSE board
  /\ Returned(p, outcome)
  /\ UNCHANGED <<sender, inbox, players, counters>>

Onward(p) == poller' = [poller EXCEPT ![p] = Begin(Tail(poller[p].batch))]

(* A sink gave up: the message is left to become visible again. *)
Leave(p) ==
  /\ poller[p].pc = "settle" /\ poller[p].failed
  /\ Onward(p)
  /\ UNCHANGED <<sender, inbox, redisVars, faults>>

(* DeleteMessage: a receipt that is not the last one may or may not do. *)
Delete(p, took) ==
  LET m == At(p) IN
  /\ poller[p].pc = "settle" /\ ~poller[p].failed
  /\ Fault(~took /\ Head(poller[p].batch).number = inbox[m].receives)
  /\ inbox' = IF took /\ inbox[m].at \in {"visible", "flight"}
              THEN [inbox EXCEPT ![m].at = "deleted"] ELSE inbox
  /\ Onward(p)
  /\ UNCHANGED <<sender, redisVars>>

(* A worker process ends, by a crash or at the end of its shutdown. *)
Exit(process) ==
  /\ \E p \in Poller : Runs[p] = process /\ poller[p] # Polling
  /\ Fault(TRUE)
  /\ poller' = [p \in Poller |-> IF Runs[p] = process THEN Polling ELSE poller[p]]
  /\ UNCHANGED <<sender, inbox, redisVars>>

-----------------------------------------------------------------------------
Dispatching(p) ==
  \E outcome \in Outcome : AddUnique(p, outcome) \/ IncrMany(p, outcome) \/ SubmitScore(p, outcome)

PollerStep(p) ==
  \/ poller[p].pc = "poll" /\ \E batch \in Batches, answered \in BOOLEAN : Receive(p, batch, answered)
  \/ Dispatching(p)
  \/ Leave(p)
  \/ \E took \in BOOLEAN : Delete(p, took)

Sending(i) == \E outcome \in Outcome : SendMessage(i, outcome)
Queueing(m) == Expire(m) \/ DeadLetter(m)

QueueProgress ==
  \/ \E i \in Item : Sending(i)
  \/ \E m \in Message : Queueing(m)
  \/ \E p \in Poller : PollerStep(p)

QueueNext == QueueProgress \/ \E p \in Poller : Exit(Runs[p])

QueueSpec == QueueInit /\ [][QueueNext]_queueVars

(* Calls return (their clients have timeouts), pollers poll, time passes: as *)
(* long as anything of this can happen, something of it does.               *)
FairQueueSpec == QueueSpec /\ WF_queueVars(QueueProgress)
=============================================================================
