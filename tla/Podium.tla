--------------------------------- MODULE Podium --------------------------------
(***************************************************************************)
(* Paying the podium of an ended event: the worker's distribution job, the *)
(* leaderboard that it reads while late scores still arrive, the rewards   *)
(* that it creates, and the event header, which it writes without regard   *)
(* to the publishers of LiveOps.                                           *)
(***************************************************************************)
EXTENDS LiveOps, Leaderboard

CONSTANTS
  Player,       \* players, as numbers
  Arrival,      \* the finished runs: who and which score; the pipeline
                \* delivers each when it likes, or never, or again
  Worker,       \* workers running the job
  PodiumSize,   \* the 100 places that are paid
  EndsAt,       \* EventMeta.EndsAt
  Outage        \* when the calls of the job may fail

ASSUME PodiumAssumption ==
  /\ Player \subseteq Nat /\ IsFiniteSet(Player)
  /\ Arrival \subseteq [player : Player, score : Nat]
  /\ Worker \subseteq Server
  /\ PodiumSize \in 1..100 /\ EndsAt \in Nat
  /\ Outage \subseteq Nat

VARIABLES
  board,        \* lb:{eventId}
  podium,       \* podium[p]: the rank that p's leaderboard reward is for; 0: no reward
  pass,         \* pass[w]: where worker w's run of the job stands
  onTime        \* history: who was ranked when the event ended

podiumOnly == <<board, podium, pass, onTime>>
podiumVars == <<liveVars, podiumOnly>>

(* The payout table. *)
LeaderboardCoins(rank) ==
  CASE rank = 1 -> 5000
    [] rank # 1 /\ rank <= 3 -> 3000
    [] rank \in 4..10 -> 1500
    [] rank \in 11..100 -> 500
    [] OTHER -> 0

NoTop == [p \in Player |-> 0]
NoPass == [pc |-> "idle", seen |-> NoMeta, top |-> NoTop, next |-> 0]

PodiumInit ==
  /\ LiveOpsInit
  /\ board = Empty(Player)
  /\ podium = [p \in Player |-> 0]
  /\ pass = [w \in Worker |-> NoPass]
  /\ onTime = {}

(* leaderboard.Sink.Handle *)
Arrives(a) ==
  /\ meta # NoMeta
  /\ board' = Submit(board, a.player, a.score)
  /\ UNCHANGED <<liveVars, podium, pass, onTime>>

-----------------------------------------------------------------------------
(* Distributor.RunOnce *)

Step(w, pc) == pass' = [pass EXCEPT ![w].pc = pc]
Rest(w) == pass' = [pass EXCEPT ![w] = NoPass]

(* EndedUndistributed *)
List(w) ==
  /\ pass[w].pc = "idle"
  /\ meta # NoMeta /\ now >= EndsAt /\ ~meta.distributed
  /\ pass' = [pass EXCEPT ![w] = [NoPass EXCEPT !.pc = "top", !.seen = meta]]
  /\ UNCHANGED <<liveVars, board, podium, onTime>>

ReadTop(w) ==
  /\ pass[w].pc = "top"
  /\ pass' = [pass EXCEPT ![w] = [@ EXCEPT !.pc = "grant", !.top = Top(board, PodiumSize), !.next = 1]]
  /\ UNCHANGED <<liveVars, board, podium, onTime>>

(* GrantLeaderboard creates the reward, unless the player has one for the    *)
(* event; its answer may be lost.                                           *)
Reward_Overwritten(p, rank) == podium' = [podium EXCEPT ![p] = rank]
Reward(p, rank) ==
  podium' = [podium EXCEPT ![p] = IF @ = 0 /\ LeaderboardCoins(rank) > 0 THEN rank ELSE @]
Places(w) == Cardinality({p \in Player : pass[w].top[p] # 0})

Grant(w, answered) ==
  /\ pass[w].pc = "grant"
  /\ answered \/ now \in Outage
  /\ \E p \in Player : pass[w].top[p] = pass[w].next /\ Reward(p, pass[w].next)
  /\ IF answered THEN pass' = [pass EXCEPT ![w].next = @ + 1] ELSE Rest(w)
  /\ UNCHANGED <<liveVars, board, onTime>>

Granted_OrFailed(w) == pass[w].next > Places(w) \/ now \in Outage
Granted(w) == pass[w].next > Places(w)

(* UpdateMeta writes the header that was listed, with the flag. *)
Flag(w, answered) ==
  /\ pass[w].pc = "grant"
  /\ Granted(w)
  /\ answered \/ now \in Outage
  /\ Point([pass[w].seen EXCEPT !.distributed = TRUE])
  /\ IF answered THEN Step(w, "forget") ELSE Rest(w)
  /\ UNCHANGED <<configs, cacheVars, op, now, board, podium, onTime>>

FlagForget(w, deleted) ==
  /\ pass[w].pc = "forget"
  /\ deleted \/ now \in Outage
  /\ memMeta' = [memMeta EXCEPT ![w] = NoEntry]
  /\ kvMeta' = IF deleted THEN NoEntry ELSE kvMeta
  /\ Rest(w)
  /\ UNCHANGED <<storeVars, kvConfigs, memConfigs, op, now, board, podium, onTime>>

(* A call fails: the event is left for the next tick. *)
PassFails(w) ==
  /\ now \in Outage
  /\ pass[w].pc \in {"top", "grant"}
  /\ Rest(w)
  /\ UNCHANGED <<liveVars, board, podium, onTime>>

-----------------------------------------------------------------------------
Elsewhere ==
  /\ LiveOpsNext
  /\ onTime' = IF now < EndsAt /\ now' >= EndsAt THEN Ranked(board) ELSE onTime
  /\ UNCHANGED <<board, podium, pass>>

RunOnce(w) ==
  \/ List(w) \/ ReadTop(w)
  \/ \E answered \in BOOLEAN : Grant(w, answered) \/ Flag(w, answered)
  \/ \E deleted \in BOOLEAN : FlagForget(w, deleted)
  \/ PassFails(w)

PodiumNext ==
  \/ Elsewhere
  \/ \E a \in Arrival : Arrives(a)
  \/ \E w \in Worker : RunOnce(w)

PodiumSpec == PodiumInit /\ [][PodiumNext]_podiumVars

(* The scheduler runs the job every minute; time passes, and operations on    *)
(* the event come to their ends.  An outage ends with the times in Outage.   *)
FairPodiumSpec ==
  /\ PodiumSpec
  /\ \A w \in Worker : WF_podiumVars(RunOnce(w))
  /\ WF_podiumVars(Elsewhere)
=============================================================================
