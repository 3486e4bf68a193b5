------------------------------ MODULE PodiumProofs -----------------------------
(***************************************************************************)
(* Proofs about the payout of an event, for any number of players, workers *)
(* and places, any scores and any publishers, and calls that fail at any   *)
(* time: what the flag of the event means, and that rewards are final.     *)
(***************************************************************************)
EXTENDS PodiumPromises, FiniteSetTheorems, TLAPS

USE PodiumAssumption, LiveOpsAssumption

Board == [Player -> Int]

-----------------------------------------------------------------------------
(* The ranks of a board are 1, 2, ... up to the number of ranked players. *)

LEMMA RankedFinite ==
  ASSUME NEW b \in Board
  PROVE  /\ Ranked(b) \subseteq Player /\ IsFiniteSet(Ranked(b)) /\ Cardinality(Ranked(b)) \in Nat
         /\ \A p : Ahead(b, p) \subseteq Ranked(b) /\ IsFiniteSet(Ahead(b, p))
<1>1. Ranked(b) \subseteq Player
  BY DEF Ranked, Board
<1>2. IsFiniteSet(Ranked(b))
  BY <1>1, FS_Subset
<1>3. \A p : Ahead(b, p) \subseteq Ranked(b)
  BY DEF Ahead
<1> QED
  BY <1>1, <1>2, <1>3, FS_Subset, FS_CardinalityType

LEMMA RankRange ==
  ASSUME NEW b \in Board, NEW p \in Ranked(b)
  PROVE  Rank(b, p) \in 1..Cardinality(Ranked(b))
<1>0. p \in Nat /\ b[p] \in Int
  BY RankedFinite DEF Board
<1>1. Ahead(b, p) \subseteq Ranked(b) \ {p}
  <2>1. p \notin Ahead(b, p)
    BY <1>0 DEF Ahead, Beats
  <2> QED
    BY <2>1, RankedFinite
<1>2. /\ IsFiniteSet(Ranked(b) \ {p})
      /\ Cardinality(Ranked(b) \ {p}) = Cardinality(Ranked(b)) - 1
  BY RankedFinite, FS_RemoveElement
<1>3. /\ Cardinality(Ahead(b, p)) <= Cardinality(Ranked(b) \ {p})
      /\ Cardinality(Ahead(b, p)) \in Nat
  BY <1>1, <1>2, FS_Subset, FS_CardinalityType
<1> QED
  BY <1>2, <1>3, RankedFinite DEF Rank

LEMMA RankOrder ==
  ASSUME NEW b \in Board, NEW p \in Ranked(b), NEW q \in Ranked(b), Beats(b, p, q)
  PROVE  Rank(b, p) < Rank(b, q)
<1>0. /\ p \in Player /\ q \in Player /\ b[p] \in Int /\ b[q] \in Int
      /\ \A r \in Ranked(b) : r \in Nat /\ b[r] \in Int
  BY RankedFinite DEF Board
<1>1. Ahead(b, p) \subseteq Ahead(b, q)
  <2> SUFFICES ASSUME NEW r \in Ranked(b), Beats(b, r, p) PROVE Beats(b, r, q)
    BY DEF Ahead
  <2>1. r \in Nat /\ p \in Nat /\ q \in Nat /\ b[r] \in Int
    BY <1>0
  <2> QED
    BY <1>0, <2>1 DEF Beats
<1>2. p \in Ahead(b, q) /\ p \notin Ahead(b, p)
  BY <1>0 DEF Ahead, Beats
<1>3. IsFiniteSet(Ahead(b, q)) /\ IsFiniteSet(Ahead(b, p))
  BY RankedFinite
<1>4. /\ Cardinality(Ahead(b, p)) <= Cardinality(Ahead(b, q))
      /\ Cardinality(Ahead(b, p)) # Cardinality(Ahead(b, q))
  BY <1>1, <1>2, <1>3, FS_Subset
<1> QED
  BY <1>3, <1>4, FS_CardinalityType DEF Rank

LEMMA RankInjective ==
  ASSUME NEW b \in Board, NEW p \in Ranked(b), NEW q \in Ranked(b), p # q
  PROVE  Rank(b, p) # Rank(b, q)
<1>1. p \in Nat /\ q \in Nat /\ b[p] \in Int /\ b[q] \in Int
  BY RankedFinite DEF Board
<1>2. Beats(b, p, q) \/ Beats(b, q, p)
  BY <1>1 DEF Beats
<1>3. Rank(b, p) \in Nat /\ Rank(b, q) \in Nat
  BY RankRange
<1> QED
  BY <1>2, <1>3, RankOrder

LEMMA RankOnto ==
  ASSUME NEW b \in Board, NEW k \in 1..Cardinality(Ranked(b))
  PROVE  \E p \in Ranked(b) : Rank(b, p) = k
<1> DEFINE n == Cardinality(Ranked(b))
<1> DEFINE f == [p \in Ranked(b) |-> Rank(b, p)]
<1>1. n \in Nat /\ IsFiniteSet(1..n) /\ Cardinality(1..n) = n
  BY RankedFinite, FS_Interval
<1>2. f \in [Ranked(b) -> 1..n]
  BY RankRange
<1>3. \A p, q \in Ranked(b) : f[p] = f[q] => p = q
  BY RankInjective
<1>4. f \in Injection(Ranked(b), 1..n)
  BY <1>2, <1>3 DEF Injection, IsInjective
<1>5. f \in Surjection(Ranked(b), 1..n)
  BY <1>1, <1>4, FS_Injection
<1>6. \A t \in 1..n : \E p \in Ranked(b) : f[p] = t
  BY <1>5 DEF Surjection
<1> QED
  BY <1>6

(* The top of the board has its size, or that of the board, and no gaps. *)
LEMMA TopIsFull ==
  ASSUME NEW b \in Board, NEW size \in Nat
  PROVE  LET top == Top(b, size)
             places == Cardinality({p \in Player : top[p] # 0})
         IN  /\ top \in [Player -> 0..size]
             /\ \A p \in Player : top[p] <= places
             /\ places >= size \/ places >= Cardinality(Ranked(b))
             /\ \A p, q \in Player : top[p] # 0 /\ top[p] = top[q] => p = q
<1> DEFINE n == Cardinality(Ranked(b))
<1> DEFINE top == Top(b, size)
<1> DEFINE T == {p \in Player : top[p] # 0}
<1> DEFINE m == IF size <= n THEN size ELSE n
<1>0. n \in Nat /\ m \in Nat /\ DOMAIN b = Player
  BY RankedFinite DEF Board
<1>1. \A p \in Player : top[p] = IF p \in Ranked(b) /\ Rank(b, p) <= size THEN Rank(b, p) ELSE 0
  BY <1>0 DEF Top
<1>2. \A p \in Ranked(b) : p \in Player /\ Rank(b, p) \in 1..n
  BY RankedFinite, RankRange
<1>3. \A p \in Player : top[p] \in 0..m
  BY <1>0, <1>1, <1>2
<1>4. top \in [Player -> 0..size]
  <2>1. top = [p \in Player |-> top[p]]
    BY <1>0 DEF Top
  <2> HIDE DEF top
  <2> QED
    BY <1>0, <1>3, <2>1
<1>10. \A p, q \in Player : top[p] # 0 /\ top[p] = top[q] => p = q
  BY <1>1, RankInjective
<1> HIDE DEF top, m, n
<1>5. T \subseteq Player /\ IsFiniteSet(T)
  BY FS_Subset
<1>6. Cardinality(T) >= m
  <2> DEFINE g == [p \in T |-> top[p]]
  <2>1. g \in [T -> 1..m]
    <3>1. \A p \in T : top[p] \in 1..m
      BY <1>0, <1>3
    <3> HIDE DEF T
    <3> QED
      BY <3>1
  <2>2. \A k \in 1..m : \E p \in T : g[p] = k
    <3> SUFFICES ASSUME NEW k \in 1..m PROVE \E p \in T : g[p] = k
      OBVIOUS
    <3>1. k \in 1..n /\ k <= size /\ k # 0
      BY <1>0 DEF m
    <3>2. PICK p \in Ranked(b) : Rank(b, p) = k
      BY <3>1, RankOnto DEF n
    <3>3. p \in T /\ top[p] = k
      BY <1>1, <1>2, <3>1, <3>2
    <3> QED
      BY <3>3
  <2>3. g \in Surjection(T, 1..m)
    BY <2>1, <2>2 DEF Surjection
  <2>4. Cardinality(1..m) <= Cardinality(T)
    BY <1>5, <2>3, FS_Surjection
  <2> QED
    <3>1. Cardinality(1..m) = m /\ Cardinality(T) \in Nat
      BY <1>0, <1>5, FS_Interval, FS_CardinalityType
    <3> QED
      BY <1>0, <2>4, <3>1
<1>7. Cardinality(T) \in Nat
  BY <1>5, FS_CardinalityType
<1>8. m = size \/ m = n
  BY DEF m
<1>9. /\ \A p \in Player : top[p] <= Cardinality(T)
      /\ Cardinality(T) >= size \/ Cardinality(T) >= n
  BY <1>0, <1>3, <1>6, <1>7, <1>8
<1> QED
  BY <1>4, <1>9, <1>10 DEF top, n

-----------------------------------------------------------------------------
(* The invariant.  A header that is flagged, in the store or in the hands of  *)
(* a publisher, is that of an event that ended and was paid; a worker knows  *)
(* the places and has paid those before the next.                           *)

Enough ==
  /\ now >= EndsAt
  /\ Cardinality(Paid) >= PodiumSize \/ Cardinality(Paid) >= Cardinality(onTime)

Head == [version : 0..MaxVersion, distributed : BOOLEAN]

Shape(r) ==
  r = [pc |-> r.pc, attempt |-> r.attempt, seen |-> r.seen, version |-> r.version,
       content |-> r.content, asked |-> r.asked, answer |-> r.answer]

HeaderOK ==
  /\ meta \in Head /\ now \in Nat
  /\ op = [o \in Operation |-> op[o]]
  /\ \A o \in Operation :
       /\ Shape(op[o])
       /\ op[o].pc \in {"put", "point"} => op[o].seen \in Head
       /\ op[o].pc = "point" => op[o].version \in Version

FlagsTrue ==
  /\ meta.distributed => Enough
  /\ \A o \in Operation : op[o].pc \in {"put", "point"} /\ op[o].seen.distributed => Enough

Placed(w) == {p \in Player : pass[w].top[p] # 0}
PassOK(w) ==
  /\ pass[w].pc # "idle" => now >= EndsAt
  /\ pass[w].pc = "grant" =>
       /\ pass[w].next >= 1
       /\ \A p \in Player : pass[w].top[p] <= Places(w)
       /\ Places(w) >= PodiumSize \/ Places(w) >= Cardinality(onTime)
       /\ \A p, q \in Placed(w) : pass[w].top[p] = pass[w].top[q] => p = q
       /\ \A p \in Placed(w) : pass[w].top[p] < pass[w].next => p \in Paid

PodInv ==
  /\ PodiumTypeOK /\ onTime \subseteq Ranked(board)
  /\ HeaderOK
  /\ FlagsTrue
  /\ \A w \in Worker : PassOK(w)

-----------------------------------------------------------------------------
(* What a step of LiveOps does to the header and to its operation. *)

Goes(o, r) == op' = [op EXCEPT ![o] = r] /\ Shape(r)
Idles(o) == \E r : Goes(o, r) /\ r.pc \notin {"put", "point"}

LEMMA MoveGoes ==
  ASSUME HeaderOK, NEW o \in Operation, NEW pc, Move(o, pc)
  PROVE  \E r : Goes(o, r) /\ r.pc = pc /\ r.seen = op[o].seen /\ r.version = op[o].version
<1> DEFINE r == [pc |-> pc, attempt |-> op[o].attempt, seen |-> op[o].seen, version |-> op[o].version,
                 content |-> op[o].content, asked |-> op[o].asked, answer |-> op[o].answer]
<1>1. Shape(op[o]) /\ op' = [op EXCEPT ![o] = [op[o] EXCEPT !.pc = pc]]
  BY DEF Move, HeaderOK
<1>2. [op[o] EXCEPT !.pc = pc] = r
  BY <1>1 DEF Shape
<1>3. Shape(r) /\ r.pc = pc /\ r.seen = op[o].seen /\ r.version = op[o].version
  BY DEF Shape
<1> QED
  BY <1>1, <1>2, <1>3 DEF Goes

LEMMA EndedIdles ==
  ASSUME NEW o, NEW answer, NEW version, NEW content, Ended(o, answer, version, content)
  PROVE  Idles(o)
<1> DEFINE r == [pc |-> "done", attempt |-> 0, seen |-> NoMeta, version |-> version,
                 content |-> content, asked |-> op[o].asked, answer |-> answer]
<1>1. Shape(r) /\ r.pc = "done"
  BY DEF Shape
<1> QED
  BY <1>1 DEF Ended, Idles, Goes

LEMMA SeeingGoes ==
  ASSUME NEW o, NEW pc, NEW header, NEW version, Seeing(o, pc, header, version)
  PROVE  \E r : Goes(o, r) /\ r.pc = pc /\ r.seen = header /\ r.version = version
<1> DEFINE r == [pc |-> pc, attempt |-> op[o].attempt, seen |-> header,
                 version |-> version, content |-> op[o].content,
                 asked |-> IF Agenda[o].kind = "current" THEN now ELSE 0,
                 answer |-> op[o].answer]
<1>1. Shape(r) /\ r.pc = pc /\ r.seen = header /\ r.version = version
  BY DEF Shape
<1> QED
  BY <1>1 DEF Seeing, Goes

LEMMA Idling ==
  ASSUME HeaderOK, NEW o \in Operation, NEW pc, pc \notin {"put", "point"},
         \/ Move(o, pc)
         \/ \E answer, version, content : Ended(o, answer, version, content)
         \/ \E header, version : Seeing(o, pc, header, version)
  PROVE  Idles(o)
  BY MoveGoes, EndedIdles, SeeingGoes DEF Idles

(* Two fields, one after the other. *)
LEMMA HoldGoes ==
  ASSUME HeaderOK, NEW o \in Operation, NEW pc, NEW x,
         op' = [op EXCEPT ![o].pc = pc, ![o].content = x]
  PROVE  \E r : Goes(o, r) /\ r.pc = pc
<1> DEFINE q == [pc |-> pc, attempt |-> op[o].attempt, seen |-> op[o].seen, version |-> op[o].version,
                  content |-> op[o].content, asked |-> op[o].asked, answer |-> op[o].answer]
<1> DEFINE r == [pc |-> pc, attempt |-> op[o].attempt, seen |-> op[o].seen, version |-> op[o].version,
                  content |-> x, asked |-> op[o].asked, answer |-> op[o].answer]
<1>1. PICK a : a = [op EXCEPT ![o].pc = pc]
  OBVIOUS
<1>2. op' = [a EXCEPT ![o].content = x]
  BY <1>1
<1>3. Shape(op[o]) /\ DOMAIN op = Operation
  BY DEF HeaderOK
<1>4. [op[o] EXCEPT !.pc = pc] = q
  BY <1>3 DEF Shape
<1>5. a = [op EXCEPT ![o] = q]
  BY <1>1, <1>3, <1>4
<1>6. [q EXCEPT !.content = x] = r
  OBVIOUS
<1>7. Shape(r) /\ r.pc = pc
  BY DEF Shape
<1> HIDE DEF q, r
<1>8. DOMAIN a = Operation /\ a[o] = q /\ \A p \in Operation : p # o => a[p] = op[p]
  BY <1>3, <1>5
<1>9. op' = [a EXCEPT ![o] = r]
  BY <1>2, <1>6, <1>8
<1>10. op' = [op EXCEPT ![o] = r]
  BY <1>3, <1>8, <1>9
<1> QED
  BY <1>7, <1>10 DEF Goes

LEMMA RetryGoes ==
  ASSUME HeaderOK, NEW o \in Operation, NEW pc,
         op' = [op EXCEPT ![o].pc = pc, ![o].attempt = @ + 1]
  PROVE  \E r : Goes(o, r) /\ r.pc = pc
<1> DEFINE x == op[o].attempt + 1
<1> DEFINE q == [pc |-> pc, attempt |-> op[o].attempt, seen |-> op[o].seen, version |-> op[o].version,
                  content |-> op[o].content, asked |-> op[o].asked, answer |-> op[o].answer]
<1> DEFINE r == [pc |-> pc, attempt |-> x, seen |-> op[o].seen, version |-> op[o].version,
                  content |-> op[o].content, asked |-> op[o].asked, answer |-> op[o].answer]
<1>1. PICK a : a = [op EXCEPT ![o].pc = pc]
  OBVIOUS
<1>2. op' = [a EXCEPT ![o].attempt = @ + 1]
  BY <1>1
<1>3. Shape(op[o]) /\ DOMAIN op = Operation
  BY DEF HeaderOK
<1>4. [op[o] EXCEPT !.pc = pc] = q
  BY <1>3 DEF Shape
<1>5. a = [op EXCEPT ![o] = q]
  BY <1>1, <1>3, <1>4
<1>6. [q EXCEPT !.attempt = @ + 1] = r
  OBVIOUS
<1>7. Shape(r) /\ r.pc = pc
  BY DEF Shape
<1> HIDE DEF q, r
<1>8. DOMAIN a = Operation /\ a[o] = q /\ \A p \in Operation : p # o => a[p] = op[p]
  BY <1>3, <1>5
<1>9. op' = [a EXCEPT ![o] = r]
  BY <1>2, <1>6, <1>8
<1>10. op' = [op EXCEPT ![o] = r]
  BY <1>3, <1>8, <1>9
<1> QED
  BY <1>7, <1>10 DEF Goes

(* Reading and caching leave the header alone and prepare no publication. *)
LEMMA ReadersIdle ==
  ASSUME HeaderOK, NEW o \in Operation,
         GetMeta(o) \/ GetConfig(o) \/ StoreFails(o) \/ CreateLost(o)
  PROVE  Idles(o) /\ UNCHANGED <<meta, now>>
<1>1. CASE GetMeta(o)
  <2>1. UNCHANGED <<meta, now>>
    BY <1>1 DEF GetMeta, MetaHit, MetaShared, MetaLoad, Remember, storeVars
  <2>2. \/ Move(o, "create") \/ Move(o, "config")
        \/ \E header, version : Seeing(o, "config", header, version) \/ Seeing(o, "remember", header, version)
    BY <1>1 DEF GetMeta, MetaHit, MetaShared, MetaLoad, Remember, See
  <2> QED
    BY <2>1, <2>2, Idling
<1>2. CASE StoreFails(o) \/ CreateLost(o)
  <2>1. UNCHANGED <<meta, now>>
    BY <1>2 DEF StoreFails, CreateLost, storeVars
  <2>2. Move(o, "meta") \/ \E answer : Finished(o, answer)
    BY <1>2 DEF StoreFails, CreateLost
  <2> QED
    BY <2>1, <2>2, Idling DEF Finished
<1>3. CASE GetConfig(o) /\ ~ConfigFetch(o)
  <2>1. UNCHANGED <<meta, now>>
    BY <1>3 DEF GetConfig, ConfigHit, ConfigShared, ConfigHold, storeVars
  <2>2. \E content : Served(o, content)
    BY <1>3 DEF GetConfig, ConfigHit, ConfigShared, ConfigHold
  <2> QED
    BY <2>1, <2>2, EndedIdles DEF Served
<1>4. CASE ConfigFetch(o)
  <2>1. UNCHANGED <<meta, now>>
    BY <1>4 DEF ConfigFetch, storeVars
  <2>2. CASE configs[op[o].version] = NoConfig
    BY <1>4, <2>1, <2>2, EndedIdles DEF ConfigFetch, Finished
  <2>3. CASE configs[op[o].version] # NoConfig
    <3>1. op' = [op EXCEPT ![o].pc = "hold", ![o].content = configs[op[o].version]]
      BY <1>4, <2>3 DEF ConfigFetch
    <3> QED
      BY <2>1, <3>1, HoldGoes DEF Idles
  <2> QED
    BY <2>2, <2>3
<1> QED
  BY <1>1, <1>2, <1>3, <1>4

(* Creating and publishing. *)
Turns(o) ==
  /\ now' = now
  /\ \/ meta' = meta
     \/ meta' = [version |-> 1, distributed |-> FALSE]
     \/ op[o].pc = "point" /\ meta' = [version |-> op[o].version, distributed |-> op[o].seen.distributed]
  /\ \E r : /\ Goes(o, r)
            /\ r.pc \in {"put", "point"} => r.seen = meta \/ (op[o].pc = "put" /\ r.seen = op[o].seen)
            /\ r.pc = "point" => r.version \in Version

LEMMA IdleTurns == ASSUME NEW o, Idles(o), UNCHANGED <<meta, now>> PROVE Turns(o)
  BY DEF Idles, Turns

LEMMA WritersTurn ==
  ASSUME HeaderOK, NEW o \in Operation, Create(o) \/ PublishConfig(o)
  PROVE  Turns(o)
<1>1. CASE CreateLost(o)
  BY <1>1, ReadersIdle, IdleTurns
<1>2. CASE \E answered \in BOOLEAN : CreateMeta(o, answered)
  <2>1. now' = now /\ meta' = [version |-> 1, distributed |-> FALSE]
    BY <1>2 DEF CreateMeta, Point, Created
  <2>2. (\E header, version : Seeing(o, "first", header, version)) \/ \E answer : Finished(o, answer)
    BY <1>2 DEF CreateMeta, See
  <2>3. CASE \E header, version : Seeing(o, "first", header, version)
    <3>1. Idles(o)
      BY <2>3, SeeingGoes DEF Idles
    <3> QED
      BY <2>1, <3>1 DEF Turns, Idles
  <2>4. CASE \E answer : Finished(o, answer)
    <3>1. Idles(o)
      BY <2>4, EndedIdles DEF Finished
    <3> QED
      BY <2>1, <3>1 DEF Turns, Idles
  <2> QED
    BY <2>2, <2>3, <2>4
<1>3. CASE \/ \E answered, full \in BOOLEAN : PutFirst(o, answered, full)
           \/ \E deleted, full \in BOOLEAN : PublishForget(o, deleted, full)
  <2>1. UNCHANGED <<meta, now>>
    BY <1>3 DEF PutFirst, PublishForget, storeVars
  <2>2. Move(o, "config") \/ \E answer, version, content : Ended(o, answer, version, content)
    BY <1>3 DEF PutFirst, PublishForget, Served, Finished
  <2>3. Idles(o)
    BY <2>2, Idling
  <2> QED
    BY <2>1, <2>3, IdleTurns
<1>4. CASE PublishRead(o)
  <2>1. UNCHANGED <<meta, now>>
    BY <1>4 DEF PublishRead, storeVars
  <2>2. CASE Finished(o, "notfound")
    BY <2>1, <2>2, EndedIdles, IdleTurns DEF Finished
  <2>3. CASE Seeing(o, "put", meta, meta.version + 1)
    <3>1. \E r : Goes(o, r) /\ r.pc = "put" /\ r.seen = meta
      BY <2>3, SeeingGoes
    <3> QED
      BY <2>1, <3>1 DEF Turns
  <2> QED
    BY <1>4, <2>2, <2>3 DEF PublishRead
<1>5. CASE PublishTaken(o)
  <2>1. UNCHANGED <<meta, now>>
    BY <1>5 DEF PublishTaken, storeVars
  <2>2. \/ Finished(o, "exhausted")
        \/ op' = [op EXCEPT ![o].pc = "read", ![o].attempt = @ + 1]
    BY <1>5 DEF PublishTaken
  <2>3. CASE Finished(o, "exhausted")
    BY <2>1, <2>3, EndedIdles, IdleTurns DEF Finished
  <2>4. CASE op' = [op EXCEPT ![o].pc = "read", ![o].attempt = @ + 1]
    <3>1. \E r : Goes(o, r) /\ r.pc = "read"
      BY <2>4, RetryGoes
    <3> QED
      BY <2>1, <3>1 DEF Turns
  <2> QED
    BY <2>2, <2>3, <2>4
<1>6. CASE \E answered \in BOOLEAN : PublishPut(o, answered)
  <2>1. UNCHANGED <<meta, now>> /\ op[o].pc = "put" /\ op[o].version \in Version
    BY <1>6 DEF PublishPut
  <2>2. CASE Finished(o, "failed")
    BY <2>1, <2>2, EndedIdles, IdleTurns DEF Finished
  <2>3. CASE Move(o, "point")
    <3>1. \E r : Goes(o, r) /\ r.pc = "point" /\ r.seen = op[o].seen /\ r.version = op[o].version
      BY <2>3, MoveGoes
    <3> QED
      BY <2>1, <3>1 DEF Turns
  <2> QED
    BY <1>6, <2>2, <2>3 DEF PublishPut
<1>7. CASE \E answered \in BOOLEAN : PublishPoint(o, answered)
  <2>1. /\ now' = now /\ op[o].pc = "point"
        /\ meta' = [version |-> op[o].version, distributed |-> op[o].seen.distributed]
    BY <1>7 DEF PublishPoint, Point
  <2>2. Move(o, "forget") \/ Finished(o, "failed")
    BY <1>7 DEF PublishPoint
  <2>3. Idles(o)
    BY <2>2, Idling DEF Finished
  <2> QED
    BY <2>1, <2>3 DEF Turns, Idles
<1> QED
  BY <1>1, <1>2, <1>3, <1>4, <1>5, <1>6, <1>7 DEF Create, PublishConfig

LEMMA WorkTurns ==
  ASSUME HeaderOK, NEW o \in Operation, Work(o)
  PROVE  Turns(o)
  BY ReadersIdle, WritersTurn, IdleTurns DEF Work

-----------------------------------------------------------------------------
(* What was enough stays enough. *)

PaymentsStand ==
  /\ now' \in Nat /\ now' >= now
  /\ podium' \in [Player -> 0..PodiumSize]
  /\ \A p \in Player : podium[p] # 0 => podium'[p] = podium[p]
  /\ now >= EndsAt => onTime' = onTime

LEMMA EnoughStays ==
  ASSUME HeaderOK, PodiumTypeOK, PaymentsStand
  PROVE  Paid \subseteq Paid' /\ (Enough => Enough')
<1>1. Paid \subseteq Paid'
  BY DEF Paid, PaymentsStand, PodiumTypeOK
<1>2. Paid' \subseteq Player /\ Paid \subseteq Player /\ onTime \subseteq Player
  BY DEF Paid, PodiumTypeOK
<1>3. IsFiniteSet(Paid') /\ IsFiniteSet(Paid) /\ IsFiniteSet(onTime)
  BY <1>2, FS_Subset
<1>4. Cardinality(Paid) <= Cardinality(Paid')
  BY <1>1, <1>3, FS_Subset
<1>5. Cardinality(Paid) \in Nat /\ Cardinality(Paid') \in Nat /\ Cardinality(onTime) \in Nat
  BY <1>3, FS_CardinalityType
<1>6. now \in Nat /\ now' \in Nat /\ now' >= now /\ EndsAt \in Nat /\ PodiumSize \in Nat
  BY DEF HeaderOK, PaymentsStand
<1>7. Enough => Enough'
  <2> SUFFICES ASSUME Enough PROVE Enough'
    OBVIOUS
  <2>1. now' >= EndsAt /\ onTime' = onTime
    BY <1>6 DEF Enough, PaymentsStand
  <2>2. Cardinality(onTime') = Cardinality(onTime)
    BY <2>1
  <2>3. Cardinality(Paid') >= PodiumSize \/ Cardinality(Paid') >= Cardinality(onTime')
    BY <1>4, <1>5, <1>6, <2>2 DEF Enough
  <2> QED
    BY <2>1, <2>3 DEF Enough
<1> QED
  BY <1>1, <1>7

(* The header and the operations after a step of theirs. *)
LEMMA HeadersTurn ==
  ASSUME HeaderOK, PodiumTypeOK, FlagsTrue, PaymentsStand, NEW o \in Operation, Turns(o)
  PROVE  HeaderOK' /\ FlagsTrue'
<1>1. PICK r : /\ Goes(o, r)
               /\ r.pc \in {"put", "point"} => r.seen = meta \/ (op[o].pc = "put" /\ r.seen = op[o].seen)
               /\ r.pc = "point" => r.version \in Version
  BY DEF Turns
<1>2. /\ op' = [p \in Operation |-> op'[p]] /\ op'[o] = r
      /\ \A p \in Operation : p # o => op'[p] = op[p]
  BY <1>1 DEF HeaderOK, Goes
<1>3. meta' \in Head
  <2>1. CASE op[o].pc = "point" /\ meta' = [version |-> op[o].version, distributed |-> op[o].seen.distributed]
    <3>1. op[o].version \in Version /\ op[o].seen.distributed \in BOOLEAN
      BY <2>1 DEF HeaderOK, Head
    <3> QED
      BY <2>1, <3>1 DEF Head, Version
  <2>2. CASE meta' = meta
    BY <2>2 DEF HeaderOK
  <2>3. CASE meta' = [version |-> 1, distributed |-> FALSE]
    BY <2>3 DEF Head
  <2> QED
    BY <2>1, <2>2, <2>3 DEF Turns
<1>4. r.pc \in {"put", "point"} => r.seen \in Head /\ (r.seen.distributed => Enough)
  BY <1>1 DEF HeaderOK, FlagsTrue
<1>5. meta'.distributed => Enough
  BY DEF Turns, HeaderOK, FlagsTrue
<1>6. HeaderOK'
  BY <1>1, <1>2, <1>3, <1>4 DEF HeaderOK, PaymentsStand, Goes, Shape
<1>7. \A p \in Operation : op'[p].pc \in {"put", "point"} /\ op'[p].seen.distributed => Enough
  BY <1>2, <1>4 DEF FlagsTrue
<1> QED
  BY <1>5, <1>6, <1>7, EnoughStays DEF FlagsTrue

-----------------------------------------------------------------------------
(* The steps outside the job: of LiveOps and its clock, and late scores. *)

LEMMA PassStays ==
  ASSUME HeaderOK, PodiumTypeOK, PaymentsStand, NEW w \in Worker, PassOK(w), pass'[w] = pass[w]
  PROVE  PassOK(w)'
<1>1. Placed(w)' = Placed(w) /\ Places(w)' = Places(w)
  BY DEF Placed, Places
<1>2. now' \in Nat /\ now \in Nat /\ now' >= now /\ EndsAt \in Nat
  BY DEF PaymentsStand, HeaderOK
<1>3. Paid \subseteq Paid'
  BY EnoughStays
<1>4. pass'[w].pc # "idle" => now' >= EndsAt /\ onTime' = onTime
  BY <1>2 DEF PassOK, PaymentsStand
<1>5. pass[w].pc = "grant" =>
        (/\ pass[w].next >= 1
         /\ \A p \in Player : pass[w].top[p] <= Places(w)
         /\ (Places(w) >= PodiumSize \/ Places(w) >= Cardinality(onTime))
         /\ \A p, q \in Placed(w) : pass[w].top[p] = pass[w].top[q] => p = q
         /\ \A p \in Placed(w) : pass[w].top[p] < pass[w].next => p \in Paid
         /\ onTime' = onTime)
  BY <1>4 DEF PassOK
<1> QED
  BY <1>1, <1>3, <1>4, <1>5 DEF PassOK

LEMMA ElsewhereStep ==
  ASSUME PodInv, Elsewhere
  PROVE  PodInv'
<1>1. /\ PodiumTypeOK /\ onTime \subseteq Ranked(board) /\ HeaderOK /\ FlagsTrue
      /\ UNCHANGED <<board, podium, pass>>
  BY DEF PodInv, Elsewhere
<1>2. onTime' = onTime \/ (now < EndsAt /\ onTime' = Ranked(board))
  BY DEF Elsewhere
<1>3. Ranked(board) \subseteq Player
  BY <1>1 DEF Ranked, PodiumTypeOK
<1>4. PodiumTypeOK' /\ (onTime \subseteq Ranked(board))'
  BY <1>1, <1>2, <1>3 DEF PodiumTypeOK, Ranked
<1>5. now \in Nat /\ EndsAt \in Nat
  BY <1>1 DEF HeaderOK
<1>6. ASSUME now' \in Nat, now' >= now PROVE PaymentsStand
  BY <1>1, <1>2, <1>5, <1>6 DEF PaymentsStand, PodiumTypeOK
<1>7. HeaderOK' /\ FlagsTrue' /\ PaymentsStand
  <2>1. CASE \E o \in Operation : Work(o)
    <3>1. PICK o \in Operation : Turns(o)
      BY <1>1, <2>1, WorkTurns
    <3>2. PaymentsStand
      BY <1>5, <1>6, <3>1 DEF Turns
    <3> QED
      BY <1>1, <3>1, <3>2, HeadersTurn
  <2>2. CASE Tick
    <3>1. now' = now + 1 /\ UNCHANGED <<meta, op>>
      BY <2>2 DEF Tick, storeVars
    <3>2. PaymentsStand
      BY <1>5, <1>6, <3>1
    <3>3. HeaderOK'
      BY <1>1, <3>1, <3>2 DEF HeaderOK, PaymentsStand, Shape
    <3>4. FlagsTrue'
      BY <1>1, <3>1, <3>2, EnoughStays DEF FlagsTrue
    <3> QED
      BY <3>2, <3>3, <3>4
  <2> QED
    BY <2>1, <2>2 DEF Elsewhere, LiveOpsNext
<1>8. \A w \in Worker : PassOK(w)'
  BY <1>1, <1>7, PassStays DEF PodInv
<1> QED
  BY <1>4, <1>7, <1>8 DEF PodInv

(* A player who is ranked stays ranked. *)
LEMMA ArrivesStep ==
  ASSUME PodInv, NEW a \in Arrival, Arrives(a)
  PROVE  PodInv'
<1>1. /\ PodiumTypeOK /\ onTime \subseteq Ranked(board) /\ HeaderOK /\ FlagsTrue
      /\ UNCHANGED <<meta, op, now, podium, pass, onTime>>
      /\ board' = Submit(board, a.player, a.score)
  BY DEF PodInv, Arrives, liveVars, storeVars
<1>2. a.player \in Player /\ a.score \in Nat
  OBVIOUS
<1>3. board' \in [Player -> {Unranked} \cup {b.score : b \in Arrival}] /\ Ranked(board) \subseteq Ranked(board')
  <2>1. board \in [Player -> {Unranked} \cup {b.score : b \in Arrival}] /\ board \in [Player -> Int]
    BY <1>1 DEF PodiumTypeOK, Unranked
  <2>2. /\ board' = [p \in Player |-> board'[p]]
        /\ \A p \in Player : board'[p] = board[p] \/ (board'[p] = a.score /\ p = a.player)
    BY <1>1, <2>1 DEF Submit
  <2>3. \A p \in Player : board'[p] \in {Unranked} \cup {b.score : b \in Arrival}
    BY <2>1, <2>2
  <2>4. \A p \in Player : board[p] # Unranked => board'[p] # Unranked
    BY <1>2, <2>1, <2>2 DEF Unranked
  <2> QED
    BY <2>1, <2>2, <2>3, <2>4 DEF Ranked
<1>4. PaymentsStand
  BY <1>1 DEF PaymentsStand, PodiumTypeOK, HeaderOK
<1>5. HeaderOK'
  BY <1>1 DEF HeaderOK, Shape
<1>6. FlagsTrue'
  BY <1>1, <1>4, EnoughStays DEF FlagsTrue
<1>7. \A w \in Worker : PassOK(w)'
  BY <1>1, <1>4, PassStays DEF PodInv
<1> QED
  BY <1>1, <1>3, <1>5, <1>6, <1>7 DEF PodInv, PodiumTypeOK

-----------------------------------------------------------------------------
(* The steps of the job. *)

(* A step of worker w that leaves header and operations as they should be. *)
LEMMA WorkerStep ==
  ASSUME PodInv, NEW w \in Worker, NEW x \in PassState, pass' = [pass EXCEPT ![w] = x],
         UNCHANGED <<board, onTime>>, PaymentsStand, HeaderOK', FlagsTrue', PassOK(w)'
  PROVE  PodInv'
<1>1. PodiumTypeOK' /\ (onTime \subseteq Ranked(board))'
  BY DEF PodInv, PodiumTypeOK, PaymentsStand, Ranked
<1>2. ASSUME NEW v \in Worker PROVE PassOK(v)'
  <2>1. CASE v = w
    BY <2>1
  <2>2. CASE v # w
    <3>1. pass'[v] = pass[v]
      BY <2>2
    <3> QED
      BY <3>1, PassStays DEF PodInv
  <2> QED
    BY <2>1, <2>2
<1> QED
  BY <1>1, <1>2 DEF PodInv

(* ... and that touches neither of them, nor the rewards. *)
LEMMA QuietWorker ==
  ASSUME PodInv, NEW w \in Worker, NEW x \in PassState, pass' = [pass EXCEPT ![w] = x],
         UNCHANGED <<board, onTime, meta, op, now, podium>>, PassOK(w)'
  PROVE  PodInv'
<1>1. PaymentsStand
  BY DEF PodInv, PaymentsStand, HeaderOK, PodiumTypeOK
<1>2. HeaderOK'
  BY DEF PodInv, HeaderOK, Shape
<1>3. FlagsTrue'
  BY <1>1, EnoughStays DEF PodInv, FlagsTrue
<1> QED
  BY <1>1, <1>2, <1>3, WorkerStep

LEMMA NoPassIsAPass ==
  NoPass \in PassState /\ NoPass.pc = "idle" /\ NoPass.top = NoTop /\ NoPass.next = 0
<1>1. NoTop \in [Player -> 0..PodiumSize]
  BY DEF NoTop
<1>2. NoMeta \in [version : 0..MaxVersion, distributed : BOOLEAN]
  BY DEF NoMeta
<1> QED
  BY <1>1, <1>2 DEF NoPass, PassState

LEMMA RestIsOK ==
  ASSUME PodiumTypeOK, NEW w \in Worker, Rest(w)
  PROVE  PassOK(w)'
  BY NoPassIsAPass DEF Rest, PassOK, PodiumTypeOK

LEMMA ListStep ==
  ASSUME PodInv, NEW w \in Worker, List(w)
  PROVE  PodInv'
<1> DEFINE x == [NoPass EXCEPT !.pc = "top", !.seen = meta]
<1>1. /\ pass' = [pass EXCEPT ![w] = x] /\ now >= EndsAt
      /\ UNCHANGED <<board, onTime, meta, op, now, podium>>
  BY DEF List, liveVars, storeVars
<1>2. meta \in [version : 0..MaxVersion, distributed : BOOLEAN]
  BY DEF PodInv, HeaderOK, Head
<1>3. x \in PassState /\ x.pc = "top"
  BY <1>2, NoPassIsAPass DEF PassState
<1>4. pass'[w] = x /\ now' >= EndsAt
  BY <1>1 DEF PodInv, PodiumTypeOK
<1>5. PassOK(w)'
  BY <1>3, <1>4 DEF PassOK
<1> HIDE DEF x
<1> QED
  BY <1>1, <1>3, <1>5, QuietWorker

LEMMA ReadTopStep ==
  ASSUME PodInv, NEW w \in Worker, ReadTop(w)
  PROVE  PodInv'
<1> DEFINE top == Top(board, PodiumSize)
<1> DEFINE x == [pass[w] EXCEPT !.pc = "grant", !.top = top, !.next = 1]
<1>1. /\ pass' = [pass EXCEPT ![w] = x] /\ pass[w].pc = "top" /\ pass[w] \in PassState
      /\ UNCHANGED <<board, onTime, meta, op, now, podium>>
  BY DEF ReadTop, liveVars, storeVars, PodInv, PodiumTypeOK
<1>2. board \in Board /\ PodiumSize \in Nat
  BY DEF PodInv, PodiumTypeOK, Board, Unranked
<1> DEFINE places == Cardinality({p \in Player : top[p] # 0})
<1>3. /\ top \in [Player -> 0..PodiumSize]
      /\ \A p \in Player : top[p] <= places
      /\ places >= PodiumSize \/ places >= Cardinality(Ranked(board))
      /\ \A p, q \in Player : top[p] # 0 /\ top[p] = top[q] => p = q
  BY <1>2, TopIsFull
<1> HIDE DEF top
<1>4. x \in PassState /\ x.pc = "grant" /\ x.top = top /\ x.next = 1
  <2>1. x = [pc |-> "grant", seen |-> pass[w].seen, top |-> top, next |-> 1]
    <3>1. pass[w] = [pc |-> pass[w].pc, seen |-> pass[w].seen, top |-> pass[w].top, next |-> pass[w].next]
      BY <1>1, Zenon DEF PassState
    <3>2. PICK pc, seen, tops, next : pass[w] = [pc |-> pc, seen |-> seen, top |-> tops, next |-> next]
      BY <3>1
    <3>3. pass[w].seen = seen
      BY <3>2
    <3>4. x = [[pc |-> pc, seen |-> seen, top |-> tops, next |-> next]
                 EXCEPT !.pc = "grant", !.top = top, !.next = 1]
      BY <3>2
    <3> HIDE DEF x
    <3> QED
      BY <3>3, <3>4
  <2>2. 1 \in 0..(PodiumSize + 1) /\ pass[w].seen \in [version : 0..MaxVersion, distributed : BOOLEAN]
    BY <1>1 DEF PassState
  <2> HIDE DEF x
  <2> QED
    BY <1>3, <2>1, <2>2 DEF PassState
<1> HIDE DEF x
<1>5. pass'[w] = x /\ now' >= EndsAt
  <2>1. pass[w].pc # "idle" /\ PassOK(w) /\ w \in DOMAIN pass
    BY <1>1 DEF PodInv, PodiumTypeOK
  <2> QED
    BY <1>1, <2>1 DEF PassOK
<1>6. Places(w)' = places /\ Placed(w)' = {p \in Player : top[p] # 0}
  BY <1>4, <1>5 DEF Places, Placed
<1>7. places >= PodiumSize \/ places >= Cardinality(onTime')
  <2>1. IsFiniteSet(Ranked(board)) /\ onTime \subseteq Ranked(board) /\ onTime' = onTime
    BY <1>1, <1>2, RankedFinite DEF PodInv
  <2>2. Cardinality(onTime') <= Cardinality(Ranked(board)) /\ IsFiniteSet(onTime')
    BY <2>1, FS_Subset
  <2>3. Cardinality(onTime') \in Nat /\ Cardinality(Ranked(board)) \in Nat
    BY <2>1, <2>2, FS_CardinalityType
  <2>4. places \in Nat
    BY FS_Subset, FS_CardinalityType
  <2> HIDE DEF places
  <2> QED
    BY <1>3, <2>2, <2>3, <2>4
<1>8. \A p \in Player : top[p] # 0 => ~(top[p] < 1)
  BY <1>3
<1> HIDE DEF places
<1>9. PassOK(w)'
  <2>1. pass'[w].top = top /\ pass'[w].next = 1
    BY <1>4, <1>5
  <2>2. \A p \in Player : pass'[w].top[p] <= Places(w)'
    BY <1>3, <1>6, <2>1
  <2>3. Places(w)' >= PodiumSize \/ Places(w)' >= Cardinality(onTime')
    BY <1>6, <1>7
  <2>4. \A p, q \in Placed(w)' : pass'[w].top[p] = pass'[w].top[q] => p = q
    BY <1>3, <1>6, <2>1
  <2>5. \A p \in Placed(w)' : ~(pass'[w].top[p] < pass'[w].next)
    BY <1>6, <1>8, <2>1
  <2> QED
    BY <1>5, <2>1, <2>2, <2>3, <2>4, <2>5 DEF PassOK
<1> QED
  BY <1>1, <1>4, <1>9, QuietWorker

(* The reward of the next place, and of no other, is there now. *)
LEMMA GrantStep ==
  ASSUME PodInv, NEW w \in Worker, NEW answered \in BOOLEAN, Grant(w, answered)
  PROVE  PodInv'
<1>1. /\ PodiumTypeOK /\ HeaderOK /\ FlagsTrue /\ PassOK(w) /\ pass[w].pc = "grant" /\ pass[w] \in PassState
      /\ UNCHANGED <<board, onTime, meta, op, now>>
  BY DEF Grant, liveVars, storeVars, PodInv, PodiumTypeOK
<1> DEFINE next == pass[w].next
<1>2. PICK p \in Player : pass[w].top[p] = next /\ Reward(p, next)
  BY DEF Grant
<1>3. next \in 1..PodiumSize
  <2>1. next \in 0..(PodiumSize + 1) /\ next >= 1
    BY <1>1 DEF PassOK, PassState
  <2>2. pass[w].top[p] \in 0..PodiumSize
    BY <1>1 DEF PassState
  <2> HIDE DEF next
  <2> QED
    BY <1>2, <2>1, <2>2
<1>4. LeaderboardCoins(next) > 0
  <2>1. next \in 1..100
    BY <1>3
  <2>2. next = 1 \/ (next # 1 /\ next <= 3) \/ next \in 4..10 \/ next \in 11..100
    BY <2>1
  <2> HIDE DEF next
  <2> QED
    BY <2>1, <2>2 DEF LeaderboardCoins
<1> HIDE DEF next
<1>5. /\ podium' \in [Player -> 0..PodiumSize] /\ podium'[p] # 0
      /\ \A q \in Player : podium[q] # 0 => podium'[q] = podium[q]
  <2>1. podium' = [podium EXCEPT ![p] = IF podium[p] = 0 THEN next ELSE podium[p]]
    BY <1>2, <1>4 DEF Reward
  <2>2. podium \in [Player -> 0..PodiumSize] /\ next \in 0..PodiumSize /\ next # 0
    BY <1>1, <1>3 DEF PodiumTypeOK
  <2>3. (IF podium[p] = 0 THEN next ELSE podium[p]) \in 0..PodiumSize
    BY <2>2
  <2> QED
    BY <2>1, <2>2, <2>3
<1>6. PaymentsStand
  BY <1>1, <1>5 DEF PaymentsStand, HeaderOK
<1>7. HeaderOK'
  BY <1>1 DEF HeaderOK, Shape
<1>8. FlagsTrue'
  BY <1>1, <1>6, EnoughStays DEF FlagsTrue
<1>9. CASE Rest(w)
  BY <1>1, <1>6, <1>7, <1>8, <1>9, NoPassIsAPass, RestIsOK, WorkerStep DEF Rest
<1>10. CASE pass' = [pass EXCEPT ![w].next = @ + 1]
  <2> DEFINE x == [pass[w] EXCEPT !.next = next + 1]
  <2>1. pass' = [pass EXCEPT ![w] = x]
    BY <1>10 DEF next
  <2>2. x \in PassState /\ x.pc = "grant" /\ x.top = pass[w].top /\ x.next = next + 1
    BY <1>1, <1>3 DEF PassState
  <2> HIDE DEF x
  <2>3. pass'[w] = x
    BY <1>1, <2>1 DEF PodiumTypeOK
  <2>4. Places(w)' = Places(w) /\ Placed(w)' = Placed(w)
    BY <2>2, <2>3 DEF Places, Placed
  <2>5. \A q \in Placed(w) : pass[w].top[q] < next + 1 => q \in Paid'
    <3> SUFFICES ASSUME NEW q \in Placed(w), pass[w].top[q] < next + 1 PROVE q \in Paid'
      OBVIOUS
    <3>0. pass[w].top \in [Player -> 0..PodiumSize]
      BY <1>1 DEF PassState
    <3>4. q \in Player /\ pass[w].top[q] \in 0..PodiumSize
      BY <3>0 DEF Placed
    <3>5. next # 0
      BY <1>3
    <3>6. p \in Placed(w)
      BY <1>2, <3>5 DEF Placed
    <3>1. q \in Player /\ pass[w].top[q] \in Nat /\ p \in Placed(w)
      BY <3>4, <3>6
    <3>2. CASE pass[w].top[q] = next
      <4>1. q = p
        BY <1>1, <1>2, <3>1, <3>2 DEF PassOK
      <4> QED
        BY <1>5, <4>1 DEF Paid
    <3>3. CASE pass[w].top[q] < next
      <4>1. q \in Paid
        BY <1>1, <3>3 DEF PassOK, next
      <4> QED
        BY <1>5, <4>1 DEF Paid
    <3> QED
      BY <1>3, <3>1, <3>2, <3>3
  <2>6. PassOK(w)'
    BY <1>1, <1>3, <2>2, <2>3, <2>4, <2>5 DEF PassOK
  <2> QED
    BY <1>1, <1>6, <1>7, <1>8, <2>1, <2>2, <2>6, WorkerStep
<1> QED
  BY <1>9, <1>10 DEF Grant

(* When no place is left to pay, enough players were paid to set the flag. *)
LEMMA FlagStep ==
  ASSUME PodInv, NEW w \in Worker, NEW answered \in BOOLEAN, Flag(w, answered)
  PROVE  PodInv'
<1>1. /\ PodiumTypeOK /\ HeaderOK /\ FlagsTrue /\ PassOK(w) /\ pass[w].pc = "grant" /\ pass[w] \in PassState
      /\ pass[w].next > Places(w)
      /\ meta' = [pass[w].seen EXCEPT !.distributed = TRUE]
      /\ UNCHANGED <<board, onTime, podium, op, now>>
  BY DEF Flag, Granted, Point, PodInv, PodiumTypeOK
<1>2. Enough
  <2>1. Placed(w) \subseteq Player /\ Paid \subseteq Player /\ onTime \subseteq Player
    BY <1>1 DEF Placed, Paid, PodiumTypeOK
  <2>2. IsFiniteSet(Placed(w)) /\ IsFiniteSet(Paid) /\ IsFiniteSet(onTime)
    BY <2>1, FS_Subset
  <2>3. Cardinality(Placed(w)) \in Nat /\ Cardinality(Paid) \in Nat /\ Cardinality(onTime) \in Nat
    BY <2>2, FS_CardinalityType
  <2>4. Places(w) = Cardinality(Placed(w))
    BY DEF Places, Placed
  <2>5. Placed(w) \subseteq Paid
    <3> SUFFICES ASSUME NEW p \in Placed(w) PROVE p \in Paid
      OBVIOUS
    <3>1. pass[w].top[p] \in Nat /\ pass[w].top[p] <= Places(w) /\ pass[w].next \in Nat
      BY <1>1, <2>1 DEF PassOK, PassState
    <3>2. pass[w].top[p] < pass[w].next
      BY <1>1, <2>3, <2>4, <3>1
    <3> QED
      BY <1>1, <3>2 DEF PassOK
  <2>6. Cardinality(Placed(w)) <= Cardinality(Paid)
    BY <2>2, <2>5, FS_Subset
  <2>7. Places(w) >= PodiumSize \/ Places(w) >= Cardinality(onTime)
    BY <1>1 DEF PassOK
  <2>8. now >= EndsAt
    BY <1>1 DEF PassOK
  <2> QED
    BY <2>3, <2>4, <2>6, <2>7, <2>8 DEF Enough
<1>3. meta' \in Head
  BY <1>1 DEF PassState, Head
<1>4. PaymentsStand
  BY <1>1 DEF PaymentsStand, HeaderOK, PodiumTypeOK
<1>5. HeaderOK'
  BY <1>1, <1>3 DEF HeaderOK, Shape
<1>6. FlagsTrue'
  BY <1>1, <1>2, <1>4, EnoughStays DEF FlagsTrue
<1>7. CASE Rest(w)
  BY <1>1, <1>4, <1>5, <1>6, <1>7, NoPassIsAPass, RestIsOK, WorkerStep DEF Rest
<1>8. CASE Step(w, "forget")
  <2> DEFINE x == [pass[w] EXCEPT !.pc = "forget"]
  <2>1. pass' = [pass EXCEPT ![w] = x] /\ x \in PassState /\ x.pc = "forget"
    BY <1>1, <1>8 DEF Step, PassState
  <2> HIDE DEF x
  <2>2. pass'[w] = x
    BY <1>1, <2>1 DEF PodiumTypeOK
  <2>3. now' >= EndsAt
    BY <1>1, <1>2 DEF Enough
  <2>4. PassOK(w)'
    BY <2>1, <2>2, <2>3 DEF PassOK
  <2> QED
    BY <1>1, <1>4, <1>5, <1>6, <2>1, <2>4, WorkerStep
<1> QED
  BY <1>7, <1>8 DEF Flag

LEMMA RestStep ==
  ASSUME PodInv, NEW w \in Worker, PassFails(w) \/ \E deleted \in BOOLEAN : FlagForget(w, deleted)
  PROVE  PodInv'
<1>1. Rest(w) /\ UNCHANGED <<board, onTime, meta, op, now, podium>>
  BY DEF PassFails, FlagForget, liveVars, storeVars
<1> QED
  BY <1>1, NoPassIsAPass, RestIsOK, QuietWorker DEF Rest, PodInv

-----------------------------------------------------------------------------
LEMMA InitPodInv == PodiumInit => PodInv
<1> SUFFICES ASSUME PodiumInit PROVE PodInv
  OBVIOUS
<1>1. /\ meta \in {NoMeta, Created} /\ now = 0 /\ op = [o \in Operation |-> Fresh(o)]
      /\ board = Empty(Player) /\ podium = [p \in Player |-> 0]
      /\ pass = [w \in Worker |-> NoPass] /\ onTime = {}
  BY DEF PodiumInit, LiveOpsInit, StoreInit
<1>2. PodiumTypeOK /\ onTime \subseteq Ranked(board)
  BY <1>1, NoPassIsAPass DEF PodiumTypeOK, Empty
<1>3. \A o \in Operation : Shape(Fresh(o)) /\ Fresh(o).pc \notin {"put", "point"}
  <2> SUFFICES ASSUME NEW o \in Operation PROVE Shape(Fresh(o)) /\ Fresh(o).pc \notin {"put", "point"}
    OBVIOUS
  <2>1. Agenda[o].kind \in {"current", "create", "publish"}
    BY DEF Task
  <2>2. FirstPc(o) \in {"meta", "create", "read"}
    BY <2>1 DEF FirstPc
  <2> QED
    BY <2>2 DEF Shape, Fresh
<1>4. HeaderOK
  <2>1. 0 \in 0..MaxVersion /\ 1 \in 0..MaxVersion
    OBVIOUS
  <2>2. NoMeta \in Head /\ Created \in Head
    BY <2>1 DEF Head, NoMeta, Created
  <2> QED BY <1>1, <1>3, <2>2 DEF HeaderOK
<1>5. FlagsTrue
  BY <1>1, <1>3 DEF FlagsTrue, NoMeta, Created
<1>6. \A w \in Worker : PassOK(w)
  BY <1>1, NoPassIsAPass DEF PassOK
<1> QED
  BY <1>2, <1>4, <1>5, <1>6 DEF PodInv

LEMMA StepPodInv == PodInv /\ [PodiumNext]_podiumVars => PodInv'
<1> SUFFICES ASSUME PodInv, [PodiumNext]_podiumVars PROVE PodInv'
  OBVIOUS
<1>1. CASE UNCHANGED podiumVars
  <2>1. UNCHANGED <<meta, op, now, board, podium, pass, onTime>>
    BY <1>1 DEF podiumVars, podiumOnly, liveVars, storeVars
  <2>2. PaymentsStand
    BY <2>1 DEF PodInv, PaymentsStand, HeaderOK, PodiumTypeOK
  <2>3. PodiumTypeOK' /\ (onTime \subseteq Ranked(board))'
    BY <2>1 DEF PodInv, PodiumTypeOK, Ranked
  <2>4. HeaderOK'
    BY <2>1 DEF PodInv, HeaderOK, Shape
  <2>5. FlagsTrue'
    BY <2>1, <2>2, EnoughStays DEF PodInv, FlagsTrue
  <2>6. \A w \in Worker : PassOK(w)'
    BY <2>1, <2>2, PassStays DEF PodInv
  <2> QED
    BY <2>3, <2>4, <2>5, <2>6 DEF PodInv
<1>2. CASE PodiumNext
  BY <1>2, ElsewhereStep, ArrivesStep, ListStep, ReadTopStep, GrantStep, FlagStep, RestStep DEF PodiumNext, RunOnce
<1> QED
  BY <1>1, <1>2

(* The invariant holds throughout. *)
LEMMA PodInvAlways == PodiumSpec => []PodInv
<1> QED
  BY InitPodInv, StepPodInv, PTL DEF PodiumSpec

(* The types of the leaderboard, the rewards and the job, for any players,   *)
(* scores, workers and publishers.                                          *)
THEOREM PodiumTypes == PodiumSpec => []PodiumTypeOK
<1>1. PodInv => PodiumTypeOK
  BY DEF PodInv
<1> QED
  BY <1>1, PodInvAlways, PTL

(* Whoever runs the job, fails in it, repeats it or writes an old header    *)
(* back: a flagged event has as many paid players as places, or as there    *)
(* were players when it ended.                                             *)
THEOREM FlaggedIsPaid == PodiumSpec => []FlagMeansPaid
<1>1. PodInv => FlagMeansPaid
  BY DEF PodInv, FlagsTrue, Enough, FlagMeansPaid
<1> QED
  BY <1>1, PodInvAlways, PTL

(* No step of a job, and none of LiveOps, rewrites a reward that exists. *)
THEOREM RewardsStay == PodiumSpec => RewardsAreFinal
<1>1. PodInv /\ [PodiumNext]_podiumVars =>
        [\A p \in Player : podium[p] # 0 => podium'[p] = podium[p]]_podiumVars
  <2> SUFFICES ASSUME PodInv, PodiumNext, NEW p \in Player, podium[p] # 0
               PROVE  podium'[p] = podium[p]
    OBVIOUS
  <2>1. podium \in [Player -> 0..PodiumSize]
    BY DEF PodInv, PodiumTypeOK
  <2>2. \/ podium' = podium
        \/ \E q \in Player : \E rank : Reward(q, rank)
    BY DEF PodiumNext, Elsewhere, Arrives, RunOnce, List, ReadTop, Grant, Flag, FlagForget, PassFails
  <2> QED
    BY <2>1, <2>2 DEF Reward
<1> QED
  BY <1>1, PodInvAlways, PTL DEF PodiumSpec, RewardsAreFinal
=============================================================================
