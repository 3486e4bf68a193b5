----------------------------- MODULE QueuePromises -----------------------------
(***************************************************************************)
(* What the queue and its worker promise: the properties of Queue.         *)
(***************************************************************************)
EXTENDS Queue

Receipts == [message : Message, number : 1..MaxReceives]

(* Types of the senders, the queue, the pollers and the cache. *)
QueueTypeOK ==
  /\ sender \in [Item -> [pc : {"sending", "sent", "failed"}, sends : 0..MaxSends]]
  /\ inbox \in [Message -> [at : {"nowhere", "visible", "flight", "deleted", "dead"},
                            receives : 0..MaxReceives]]
  /\ poller \in [Poller -> [pc : {"poll", "unique", "count", "submit", "settle"},
                            batch : Seq(Receipts), attempt : 1..MaxTries,
                            isNew : BOOLEAN, failed : BOOLEAN]]
  /\ players \subseteq Player
  /\ counters \in [players : Nat, started : Nat, completed : Nat]
  /\ board \in [Player -> Nat \cup {Unranked}]

Deleted(kind) == {m \in Message : inbox[m].at = "deleted" /\ KindOf(m) = kind}

(* "Failed messages become visible again" (package queue): a message only    *)
(* leaves the queue when every sink has taken it, whoever else handles it   *)
(* at the same time, whatever fails and whichever worker ends.              *)
NothingUncounted ==
  /\ counters.started >= Cardinality(Deleted("started"))
  /\ counters.completed >= Cardinality(Deleted("finished"))
  /\ \A m \in Deleted("started") : PlayerOf(m) \in players
  /\ \A m \in Deleted("finished") : board[PlayerOf(m)] >= What[m[1]].score

(* A redelivered message cannot inflate a rank or a player count             *)
(* (architecture.md, design rule 3): the board holds scores that were sent,  *)
(* and the report counts no more players than there are.                    *)
SentItems == {m[1] : m \in {n \in Message : inbox[n].at # "nowhere"}}
NothingInflated ==
  /\ counters.players <= Cardinality(players)
  /\ \A p \in players : \E i \in SentItems : What[i].kind = "started" /\ What[i].player = p
  /\ \A p \in Ranked(board) : \E i \in SentItems :
       What[i].kind = "finished" /\ What[i].player = p /\ What[i].score = board[p]

(* Poison messages leave the queue (architecture.md, design rule 4), and so  *)
(* does every other: handled, or to the dead letters.                       *)
Waiting == {m \in Message : inbox[m].at \in {"visible", "flight"}}
EveryMessageEnds == (Waiting # {}) ~> (Waiting = {})

(* queue/sqs.go: "Give the sinks a bounded window smaller than the           *)
(* visibility timeout": nobody else gets the message in the meantime.       *)
Handling(p) == IF poller[p].batch = <<>> THEN {} ELSE {At(p)}
HandledByOne == \A p, q \in Poller : p # q => Handling(p) \cap Handling(q) = {}

(* The report knows every player of the set, once all is handled. *)
EveryPlayerCounted ==
  (\A m \in Message : inbox[m].at \in {"nowhere", "deleted"}) /\ (\A p \in Poller : poller[p] = Polling)
    => counters.players = Cardinality(players)
=============================================================================
