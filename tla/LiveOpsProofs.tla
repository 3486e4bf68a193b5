----------------------------- MODULE LiveOpsProofs -----------------------------
(***************************************************************************)
(* Proofs about LiveOps, for any number of operations, servers, versions   *)
(* and attempts and any faults: configs are immutable and every copy of    *)
(* one is true, publications are neither lost nor share a number, and the  *)
(* caches are never older than two lifetimes.                              *)
(***************************************************************************)
EXTENDS LiveOpsPromises, TLAPS

USE LiveOpsAssumption

Kind(o) == Agenda[o].kind

(* The store: versions are taken one after the other; only the one after    *)
(* the pointer, and the first, may be missing or there ahead of the pointer.*)
StoreInv ==
  /\ meta.version = 0 => meta = NoMeta /\ \A v \in Version : configs[v] = NoConfig
  /\ \A v \in Version : v > meta.version + 1 => configs[v] = NoConfig
  /\ \A v \in Version : v \in 2..meta.version => configs[v] # NoConfig
  /\ \A v \in Version : IF v <= meta.version THEN reached[v] <= now ELSE reached[v] = Never

(* The caches: copies are true, and an entry without version v was made at   *)
(* most one lifetime, in a server two, after the pointer moved there.       *)
CacheInv ==
  /\ \A v \in Version : kvConfigs[v] \in {NoConfig, configs[v]}
  /\ \A s \in Server, v \in Version : memConfigs[s][v] \in {NoConfig, configs[v]}
  /\ kvMeta.meta.version = 0 => kvMeta.exp = 0
  /\ kvMeta.meta.version <= meta.version /\ kvMeta.exp <= now + TTL
  /\ \A v \in Version : kvMeta.meta.version < v => kvMeta.exp <= reached[v] + TTL
  /\ \A s \in Server :
       /\ memMeta[s].meta.version = 0 => memMeta[s].exp = 0
       /\ memMeta[s].meta.version <= meta.version /\ memMeta[s].exp <= now + TTL
       /\ \A v \in Version : memMeta[s].meta.version < v => memMeta[s].exp <= reached[v] + 2 * TTL

(* What an operation knows where it stands. *)
Timely(o) ==
  Kind(o) = "current" =>
    \A v \in Version : op[o].version < v => op[o].asked < reached[v] + 2 * TTL
Holds(o, v, content) == v \in 1..meta.version /\ content = configs[v] /\ content # NoConfig

OpInv(o) ==
  /\ op[o].asked <= now
  /\ op[o].answer # "none" => op[o].pc = "done"
  /\ op[o].pc \in {"meta", "remember", "config", "hold"} => Kind(o) = "current"
  /\ op[o].pc \in {"create", "first"} => Kind(o) # "publish"
  /\ op[o].pc \in {"read", "put", "point", "forget"} => Kind(o) = "publish"
  /\ op[o].pc = "remember" =>
       /\ op[o].seen.version \in 1..meta.version /\ op[o].version = op[o].seen.version
       /\ \A v \in Version : op[o].seen.version < v => now <= reached[v]
       /\ Timely(o)
  /\ op[o].pc = "config" => op[o].version \in 1..meta.version /\ Timely(o)
  /\ op[o].pc = "hold" => Holds(o, op[o].version, op[o].content) /\ Timely(o)
  /\ op[o].pc = "first" =>
       op[o].version = 1 /\ meta.version >= 1 /\ configs[1] = NoConfig /\ Timely(o)
  /\ op[o].pc = "put" =>
       op[o].seen.version \in 1..meta.version /\ op[o].version = op[o].seen.version + 1
  /\ op[o].pc = "point" =>
       /\ op[o].version = meta.version + 1 /\ op[o].version \in Version /\ meta.version >= 1
       /\ configs[op[o].version] = Agenda[o].content
  /\ op[o].pc = "forget" =>
       op[o].version \in 2..meta.version /\ configs[op[o].version] = Agenda[o].content
  /\ Ok(o) =>
       /\ Holds(o, op[o].version, op[o].content) /\ Timely(o)
       /\ Kind(o) = "publish" => op[o].version >= 2 /\ op[o].content = Agenda[o].content

(* No two operations store the first config, or own the same version. *)
Owner(o) == Kind(o) = "publish" /\ (op[o].pc \in {"point", "forget"} \/ Ok(o))
Apart(o, p) ==
  /\ ~(op[o].pc = "first" /\ op[p].pc = "first")
  /\ Owner(o) /\ Owner(p) => op[o].version # op[p].version

LInv ==
  /\ LiveOpsTypeOK
  /\ StoreInv
  /\ CacheInv
  /\ \A o \in Operation : OpInv(o)
  /\ \A o, p \in Operation : o # p => Apart(o, p)

-----------------------------------------------------------------------------
(* What the steps do to an operation. *)

Steady(o) == \A p \in Operation : p # o => op'[p] = op[p]

LEMMA Moved ==
  ASSUME op \in [Operation -> OperationState], NEW o \in Operation,
         NEW pc \in ReadPc \cup CreatePc \cup PublishPc, Move(o, pc)
  PROVE  /\ op' \in [Operation -> OperationState] /\ Steady(o)
         /\ op'[o].pc = pc /\ op'[o].attempt = op[o].attempt /\ op'[o].seen = op[o].seen
         /\ op'[o].version = op[o].version /\ op'[o].content = op[o].content
         /\ op'[o].asked = op[o].asked /\ op'[o].answer = op[o].answer
<1>1. op' = [op EXCEPT ![o].pc = pc]
  BY DEF Move
<1>2. op' \in [Operation -> OperationState]
  BY <1>1 DEF OperationState
<1> QED BY <1>1, <1>2 DEF OperationState, Steady

LEMMA EndedWith ==
  ASSUME op \in [Operation -> OperationState], NEW o \in Operation,
         NEW answer \in {"ok", "notfound", "exists", "exhausted", "failed"},
         NEW version \in 0..(MaxVersion + 1), NEW content \in Content \cup {NoConfig},
         Ended(o, answer, version, content)
  PROVE  /\ op' \in [Operation -> OperationState] /\ Steady(o)
         /\ op'[o].pc = "done" /\ op'[o].answer = answer
         /\ op'[o].version = version /\ op'[o].content = content
         /\ op'[o].asked = op[o].asked
<1> DEFINE r == [pc |-> "done", attempt |-> 0, seen |-> NoMeta, version |-> version,
                 content |-> content, asked |-> op[o].asked, answer |-> answer]
<1>1. op' = [op EXCEPT ![o] = r]
  BY DEF Ended
<1>2. r \in OperationState
  BY DEF OperationState, NoMeta, Header
<1>3. r.pc = "done" /\ r.answer = answer /\ r.version = version /\ r.content = content
        /\ r.asked = op[o].asked
  OBVIOUS
<1> HIDE DEF r
<1> QED BY <1>1, <1>2, <1>3 DEF Steady

LEMMA Saw ==
  ASSUME op \in [Operation -> OperationState], NEW o \in Operation,
         NEW pc \in ReadPc \cup CreatePc \cup PublishPc, NEW header \in Header,
         NEW version \in 0..(MaxVersion + 1),
         now \in 0..MaxNow, Seeing(o, pc, header, version)
  PROVE  /\ op' \in [Operation -> OperationState] /\ Steady(o)
         /\ op'[o].pc = pc /\ op'[o].seen = header /\ op'[o].version = version
         /\ op'[o].answer = op[o].answer
         /\ op'[o].asked = IF Kind(o) = "current" THEN now ELSE 0
<1> DEFINE r == [pc |-> pc, attempt |-> op[o].attempt, seen |-> header,
                 version |-> version, content |-> op[o].content,
                 asked |-> IF Agenda[o].kind = "current" THEN now ELSE 0,
                 answer |-> op[o].answer]
<1>1. op' = [op EXCEPT ![o] = r]
  BY DEF Seeing
<1>2. r \in OperationState
  BY DEF OperationState
<1>3. r.pc = pc /\ r.seen = header /\ r.version = version
        /\ r.answer = op[o].answer /\ r.asked = IF Kind(o) = "current" THEN now ELSE 0
  BY DEF Kind
<1> HIDE DEF r
<1> QED BY <1>1, <1>2, <1>3 DEF Steady

(* One field at a time. *)
PutsPc(g, f, o, pc) == g = [f EXCEPT ![o].pc = pc]
PutsContent(g, f, o, content) == g = [f EXCEPT ![o].content = content]

LEMMA SetPc ==
  ASSUME NEW f \in [Operation -> OperationState], NEW o \in Operation,
         NEW pc \in ReadPc \cup CreatePc \cup PublishPc,
         NEW g, PutsPc(g, f, o, pc)
  PROVE  /\ g \in [Operation -> OperationState]
         /\ \A p \in Operation : p # o => g[p] = f[p]
         /\ g[o].pc = pc
         /\ g[o].seen = f[o].seen /\ g[o].version = f[o].version /\ g[o].content = f[o].content
         /\ g[o].asked = f[o].asked /\ g[o].answer = f[o].answer
<1>1. g \in [Operation -> OperationState]
  BY DEF OperationState, PutsPc
<1> QED BY <1>1 DEF OperationState, PutsPc

LEMMA SetContent ==
  ASSUME NEW f \in [Operation -> OperationState], NEW o \in Operation,
         NEW content \in Content,
         NEW g, PutsContent(g, f, o, content)
  PROVE  /\ g \in [Operation -> OperationState]
         /\ \A p \in Operation : p # o => g[p] = f[p]
         /\ g[o].content = content
         /\ g[o].pc = f[o].pc /\ g[o].seen = f[o].seen /\ g[o].version = f[o].version
         /\ g[o].asked = f[o].asked /\ g[o].answer = f[o].answer
<1>1. g \in [Operation -> OperationState]
  BY DEF OperationState, PutsContent
<1> QED BY <1>1 DEF OperationState, PutsContent

LEMMA Fetched ==
  ASSUME op \in [Operation -> OperationState], NEW o \in Operation,
         NEW content \in Content,
         op' = [op EXCEPT ![o].pc = "hold", ![o].content = content]
  PROVE  /\ op' \in [Operation -> OperationState] /\ Steady(o)
         /\ op'[o].pc = "hold" /\ op'[o].content = content
         /\ op'[o].version = op[o].version /\ op'[o].asked = op[o].asked
         /\ op'[o].answer = op[o].answer
<1>1. PICK a : a = [op EXCEPT ![o].pc = "hold"]
  OBVIOUS
<1>2. PutsPc(a, op, o, "hold") /\ PutsContent(op', a, o, content)
  BY <1>1 DEF PutsPc, PutsContent
<1>3. "hold" \in ReadPc \cup CreatePc \cup PublishPc
  BY DEF ReadPc
<1>4. /\ a \in [Operation -> OperationState]
      /\ \A p \in Operation : p # o => a[p] = op[p]
      /\ a[o].pc = "hold" /\ a[o].version = op[o].version
      /\ a[o].asked = op[o].asked /\ a[o].answer = op[o].answer
  BY <1>2, <1>3, SetPc
<1>5. /\ op' \in [Operation -> OperationState]
      /\ \A p \in Operation : p # o => op'[p] = a[p]
      /\ op'[o].pc = a[o].pc /\ op'[o].content = content /\ op'[o].version = a[o].version
      /\ op'[o].asked = a[o].asked /\ op'[o].answer = a[o].answer
  BY <1>2, <1>4, SetContent
<1> QED BY <1>4, <1>5 DEF Steady

(* The whole of what a retry of a publisher leaves. *)
LEMMA Reread ==
  ASSUME op \in [Operation -> OperationState], NEW o \in Operation,
         op[o].attempt + 1 < MaxAttempts,
         op' = [op EXCEPT ![o].pc = "read", ![o].attempt = @ + 1]
  PROVE  /\ op' \in [Operation -> OperationState] /\ Steady(o)
         /\ op'[o].pc = "read" /\ op'[o].asked = op[o].asked
         /\ op'[o].answer = op[o].answer
<1>1. op[o].attempt + 1 \in 0..(MaxAttempts - 1)
  BY DEF OperationState
<1>2. op' \in [Operation -> OperationState]
  BY <1>1 DEF OperationState, PublishPc
<1> QED BY <1>2 DEF OperationState, Steady

(* rememberConfig only adds the config it is given. *)
LEMMA Kept ==
  ASSUME memConfigs \in [Server -> Configs], NEW o \in Operation, Home(o) \in Server,
         op[o].version \in Version, NEW content \in Content, NEW full,
         KeepConfig(o, content, full)
  PROVE  /\ memConfigs' \in [Server -> Configs]
         /\ \A s \in Server, v \in Version :
              \/ memConfigs'[s][v] \in {NoConfig, memConfigs[s][v]}
              \/ v = op[o].version /\ memConfigs'[s][v] = content
  BY DEF KeepConfig, Configs
-----------------------------------------------------------------------------
(* What a step has to show about the operation that takes it. *)

OpTyped == op \in [Operation -> OperationState]
CacheTyped ==
  /\ kvMeta \in Entry /\ memMeta \in [Server -> Entry]
  /\ kvConfigs \in Configs /\ memConfigs \in [Server -> Configs]
StoreTyped ==
  /\ meta \in Header /\ configs \in Configs
  /\ reached \in [Version -> 0..Never] /\ now \in 0..MaxNow

LEMMA Types == LiveOpsTypeOK <=> OpTyped /\ CacheTyped /\ StoreTyped
  BY DEF LiveOpsTypeOK, OpTyped, CacheTyped, StoreTyped

LEMMA Numbers ==
  ASSUME StoreTyped
  PROVE  /\ TTL \in Nat /\ TTL >= 1 /\ MaxNow \in Nat /\ MaxVersion \in Nat /\ MaxVersion >= 1
         /\ now \in Nat /\ now <= MaxNow /\ now < Never /\ Never \in Nat
         /\ Version \subseteq Nat /\ \A v \in Version : reached[v] \in Nat
         /\ meta.version \in 0..MaxVersion
  BY DEF StoreTyped, Never, Version, Header

(* Owned versions are stored. *)
LEMMA OwnersStored ==
  ASSUME OpTyped, StoreTyped, NEW p \in Operation, OpInv(p), Owner(p)
  PROVE  op[p].version \in Version /\ configs[op[p].version] # NoConfig
<1>1. Agenda[p].content \in Content /\ NoConfig \notin Content
  BY DEF Owner, Kind, Task
<1>2. CASE op[p].pc = "point"
  BY <1>1, <1>2 DEF OpInv
<1>3. CASE op[p].pc = "forget"
  BY <1>1, <1>3, Numbers DEF OpInv, Version
<1>4. CASE Ok(p)
  BY <1>4, Numbers DEF OpInv, Holds, Version
<1> QED BY <1>2, <1>3, <1>4 DEF Owner

(* A step that touches neither the store nor the clock. *)
LEMMA Quiet ==
  ASSUME LInv, NEW o \in Operation, Steady(o), UNCHANGED <<storeVars, now>>,
         OpTyped', CacheTyped', CacheInv', OpInv(o)', op'[o].pc # "first",
         Owner(o)' => Owner(o) /\ op'[o].version = op[o].version
  PROVE  LInv'
<1>1. StoreTyped'
  BY Types DEF LInv, StoreTyped, storeVars
<1>2. LiveOpsTypeOK'
  BY <1>1 DEF LiveOpsTypeOK, OpTyped, CacheTyped, StoreTyped
<1>3. StoreInv'
  BY DEF LInv, StoreInv, storeVars
<1>4. ASSUME NEW p \in Operation, p # o
      PROVE  OpInv(p)' /\ (Owner(p)' <=> Owner(p)) /\ op'[p] = op[p]
  <2>1. op'[p] = op[p] /\ OpInv(p)
    BY <1>4 DEF Steady, LInv
  <2> QED BY <2>1 DEF OpInv, Timely, Holds, Owner, Ok, storeVars
<1>5. \A p \in Operation : OpInv(p)'
  BY <1>4
<1>6. ASSUME NEW p \in Operation, NEW q \in Operation, p # q
      PROVE  Apart(p, q)'
  <2>1. Apart(p, q)
    BY <1>6 DEF LInv
  <2> QED BY <1>4, <1>6, <2>1 DEF Apart
<1> QED BY <1>2, <1>3, <1>5, <1>6 DEF LInv
LEMMA Basics ==
  ASSUME LInv, NEW o \in Operation
  PROVE  /\ OpTyped /\ CacheTyped /\ StoreTyped /\ StoreInv /\ CacheInv /\ OpInv(o)
         /\ Home(o) \in Server
         /\ op[o].seen \in Header /\ op[o].version \in 0..(MaxVersion + 1)
         /\ op[o].content \in Content \cup {NoConfig} /\ op[o].asked \in Nat
<1>1. Home(o) \in Server
  BY DEF Home, Task
<1>2. OpTyped
  BY Types DEF LInv
<1>3. /\ op[o].seen \in Header /\ op[o].version \in 0..(MaxVersion + 1)
      /\ op[o].content \in Content \cup {NoConfig} /\ op[o].asked \in 0..MaxNow
  BY <1>2 DEF OpTyped, OperationState
<1> QED BY <1>1, <1>2, <1>3, Types DEF LInv

(* An operation that ends without success promises nothing. *)
LEMMA Failing ==
  ASSUME LInv, NEW o \in Operation,
         NEW answer \in {"notfound", "exists", "exhausted", "failed"}, Finished(o, answer),
         now' = now
  PROVE  /\ OpTyped' /\ Steady(o) /\ OpInv(o)' /\ ~Owner(o)' /\ op'[o].pc = "done"
<1>1. 0 \in 0..(MaxVersion + 1)
  BY Basics, Numbers
<1>2. /\ OpTyped' /\ Steady(o) /\ op'[o].pc = "done" /\ op'[o].answer = answer
      /\ op'[o].asked = op[o].asked
  BY <1>1, Basics, EndedWith DEF Finished, OpTyped
<1>3. op[o].asked <= now
  BY Basics DEF OpInv
<1> QED BY <1>2, <1>3 DEF OpInv, Owner, Ok

LEMMA CachesStay ==
  ASSUME LInv, UNCHANGED <<storeVars, cacheVars, now>>
  PROVE  CacheTyped' /\ CacheInv'
  BY Types DEF LInv, CacheTyped, CacheInv, storeVars, cacheVars

LEMMA MetaHitKeeps ==
  ASSUME LInv, NEW o \in Operation, MetaHit(o)
  PROVE  LInv'
<1> DEFINE e == memMeta[Home(o)]
<1>1. e \in Entry /\ e.meta \in Header /\ e.meta.version \in 0..MaxVersion /\ e.exp \in Nat
  BY Basics, Numbers DEF CacheTyped, Entry, Header
<1>2. /\ e.exp > now /\ e.meta.version <= meta.version
      /\ e.meta.version = 0 => e.exp = 0
      /\ \A v \in Version : e.meta.version < v => e.exp <= reached[v] + 2 * TTL
  BY Basics DEF CacheInv, MetaHit, Alive
<1> HIDE DEF e
<1>3. /\ OpTyped' /\ Steady(o) /\ op'[o].pc = "config" /\ op'[o].version = e.meta.version
      /\ op'[o].answer = op[o].answer
      /\ op'[o].asked = IF Kind(o) = "current" THEN now ELSE 0
  <2>1. Seeing(o, "config", e.meta, e.meta.version)
    BY DEF MetaHit, See, e
  <2>2. "config" \in ReadPc \cup CreatePc \cup PublishPc /\ now \in 0..MaxNow
        /\ e.meta.version \in 0..(MaxVersion + 1)
    BY <1>1, Basics, Numbers DEF ReadPc, StoreTyped
  <2> QED BY <1>1, <2>1, <2>2, Saw, Basics DEF OpTyped
<1>4. UNCHANGED <<storeVars, cacheVars, now>> /\ op[o].pc = "meta"
  BY DEF MetaHit
<1>5. Kind(o) = "current" /\ op[o].answer = "none"
  BY <1>4, Basics DEF OpInv, OpTyped, OperationState
<1>6. OpInv(o)'
  <2>1. e.meta.version \in 1..meta.version
    BY <1>1, <1>2, Basics, Numbers
  <2>2. \A v \in Version : e.meta.version < v => now < reached[v] + 2 * TTL
    BY <1>1, <1>2, Basics, Numbers
  <2> QED BY <1>3, <1>4, <1>5, <2>1, <2>2, Basics, Numbers
          DEF OpInv, Timely, Ok, storeVars
<1>7. ~Owner(o)'
  BY <1>3, <1>5 DEF Owner, Ok
<1> QED BY <1>3, <1>4, <1>6, <1>7, CachesStay, Quiet
LEMMA MetaSharedKeeps ==
  ASSUME LInv, NEW o \in Operation, MetaShared(o)
  PROVE  LInv'
<1> DEFINE new == [meta |-> kvMeta.meta, exp |-> now + TTL]
<1>1. kvMeta \in Entry /\ kvMeta.meta \in Header /\ kvMeta.meta.version \in 0..MaxVersion
        /\ kvMeta.exp \in Nat
  BY Basics, Numbers DEF CacheTyped, Entry, Header
<1>2. /\ kvMeta.exp > now /\ kvMeta.meta.version <= meta.version
      /\ kvMeta.meta.version = 0 => kvMeta.exp = 0
      /\ \A v \in Version : kvMeta.meta.version < v => kvMeta.exp <= reached[v] + TTL
  BY Basics DEF CacheInv, MetaShared, Alive
<1>3. /\ OpTyped' /\ Steady(o) /\ op'[o].pc = "config" /\ op'[o].version = kvMeta.meta.version
      /\ op'[o].answer = op[o].answer
      /\ op'[o].asked = IF Kind(o) = "current" THEN now ELSE 0
  <2>1. Seeing(o, "config", kvMeta.meta, kvMeta.meta.version)
    BY DEF MetaShared, See
  <2>2. "config" \in ReadPc \cup CreatePc \cup PublishPc /\ now \in 0..MaxNow
        /\ kvMeta.meta.version \in 0..(MaxVersion + 1)
    BY <1>1, Basics, Numbers DEF ReadPc, StoreTyped
  <2> QED BY <1>1, <2>1, <2>2, Saw, Basics DEF OpTyped
<1>4. /\ UNCHANGED <<storeVars, kvMeta, kvConfigs, memConfigs, now>> /\ op[o].pc = "meta"
      /\ memMeta' = [memMeta EXCEPT ![Home(o)] = new]
  BY DEF MetaShared
<1>5. Kind(o) = "current" /\ op[o].answer = "none"
  BY <1>4, Basics DEF OpInv, OpTyped, OperationState
<1>6. OpInv(o)'
  <2>1. kvMeta.meta.version \in 1..meta.version
    BY <1>1, <1>2, Basics, Numbers
  <2>2. \A v \in Version : kvMeta.meta.version < v => now < reached[v] + 2 * TTL
    BY <1>1, <1>2, Basics, Numbers
  <2> QED BY <1>3, <1>4, <1>5, <2>1, <2>2, Basics, Numbers
          DEF OpInv, Timely, Ok, storeVars
<1>7. /\ new \in Entry
      /\ new.meta.version # 0 /\ new.meta.version <= meta.version /\ new.exp <= now + TTL
      /\ \A v \in Version : new.meta.version < v => new.exp <= reached[v] + 2 * TTL
  <2>1. new.meta = kvMeta.meta /\ new.exp = now + TTL /\ now + TTL \in 0..(MaxNow + TTL)
    BY Basics, Numbers
  <2>2. new \in Entry
    BY <1>1, <2>1 DEF Entry
  <2>3. \A v \in Version : kvMeta.meta.version < v => now + TTL <= reached[v] + 2 * TTL
    BY <1>1, <1>2, Basics, Numbers
  <2> QED BY <1>1, <1>2, <2>1, <2>2, <2>3, Basics, Numbers
<1> HIDE DEF new
<1>8. memMeta' \in [Server -> Entry] /\ \A s \in Server : memMeta'[s] \in {memMeta[s], new}
  BY <1>4, <1>7, Basics DEF CacheTyped
<1>9. CacheTyped'
  BY <1>4, <1>8, Basics DEF CacheTyped
<1>10. CacheInv'
  <2>1. ASSUME NEW s \in Server
        PROVE  /\ memMeta'[s].meta.version = 0 => memMeta'[s].exp = 0
               /\ memMeta'[s].meta.version <= meta.version /\ memMeta'[s].exp <= now + TTL
               /\ \A v \in Version :
                    memMeta'[s].meta.version < v => memMeta'[s].exp <= reached[v] + 2 * TTL
    BY <1>7, <1>8, Basics DEF CacheInv
  <2> QED BY <1>4, <2>1, Basics DEF CacheInv, storeVars
<1>11. ~Owner(o)'
  BY <1>3, <1>5 DEF Owner, Ok
<1> QED BY <1>3, <1>4, <1>6, <1>9, <1>10, <1>11, Quiet

LEMMA MetaLoadKeeps ==
  ASSUME LInv, NEW o \in Operation, MetaLoad(o)
  PROVE  LInv'
<1>1. UNCHANGED <<storeVars, cacheVars, now>> /\ op[o].pc = "meta"
  BY DEF MetaLoad, MetaMissed
<1>2. Kind(o) = "current" /\ op[o].answer = "none" /\ op[o].asked <= now
  BY <1>1, Basics DEF OpInv, OpTyped, OperationState
<1>3. CASE meta = NoMeta
  <2>1. "create" \in ReadPc \cup CreatePc \cup PublishPc
    BY DEF CreatePc
  <2>2. /\ OpTyped' /\ Steady(o) /\ op'[o].pc = "create" /\ op'[o].answer = op[o].answer
        /\ op'[o].asked = op[o].asked
    BY <1>3, <2>1, Basics, Moved DEF MetaLoad, OpTyped
  <2>3. OpInv(o)' /\ ~Owner(o)'
    BY <1>1, <1>2, <2>2 DEF OpInv, Owner, Ok
  <2> QED BY <1>1, <2>2, <2>3, CachesStay, Quiet
<1>4. CASE meta # NoMeta
  <2>1. /\ "remember" \in ReadPc \cup CreatePc \cup PublishPc /\ now \in 0..MaxNow
        /\ meta \in Header /\ meta.version \in 0..(MaxVersion + 1)
    BY Basics, Numbers DEF ReadPc, StoreTyped
  <2>2. Seeing(o, "remember", meta, meta.version)
    BY <1>4 DEF MetaLoad, See
  <2>3. /\ OpTyped' /\ Steady(o) /\ op'[o].pc = "remember" /\ op'[o].answer = op[o].answer
        /\ op'[o].seen = meta /\ op'[o].version = meta.version
        /\ op'[o].asked = IF Kind(o) = "current" THEN now ELSE 0
    BY <2>1, <2>2, Saw, Basics DEF OpTyped
  <2>4. meta.version \in 1..meta.version /\ \A v \in Version : meta.version < v => reached[v] = Never
    BY <1>4, Basics, Numbers DEF StoreInv
  <2>5. meta' = meta /\ reached' = reached /\ now' = now
    BY <1>1 DEF storeVars
  <2>6. Timely(o)'
    BY <1>2, <2>3, <2>4, <2>5, Basics, Numbers DEF Timely
  <2>7. OpInv(o)'
    BY <1>2, <2>3, <2>4, <2>5, <2>6, Basics, Numbers DEF OpInv, Ok
  <2> QED BY <1>1, <1>2, <2>3, <2>7, CachesStay, Quiet DEF Owner, Ok
<1> QED BY <1>3, <1>4

LEMMA RememberKeeps ==
  ASSUME LInv, NEW o \in Operation, NEW shared \in BOOLEAN, Remember(o, shared)
  PROVE  LInv'
<1> DEFINE new == [meta |-> op[o].seen, exp |-> now + TTL]
<1>1. /\ UNCHANGED <<storeVars, kvConfigs, memConfigs, now>> /\ op[o].pc = "remember"
      /\ memMeta' = [memMeta EXCEPT ![Home(o)] = new]
      /\ kvMeta' \in {new, kvMeta} /\ Move(o, "config")
  BY DEF Remember
<1>2. "config" \in ReadPc \cup CreatePc \cup PublishPc
  BY DEF ReadPc
<1>3. /\ OpTyped' /\ Steady(o) /\ op'[o].pc = "config" /\ op'[o].answer = op[o].answer
      /\ op'[o].version = op[o].version /\ op'[o].asked = op[o].asked
  BY <1>1, <1>2, Basics, Moved DEF OpTyped
<1>4. /\ Kind(o) = "current" /\ op[o].answer = "none" /\ op[o].asked <= now /\ Timely(o)
      /\ op[o].seen.version \in 1..meta.version /\ op[o].version = op[o].seen.version
      /\ \A v \in Version : op[o].seen.version < v => now <= reached[v]
  BY <1>1, Basics DEF OpInv, OpTyped, OperationState
<1>5. OpInv(o)' /\ ~Owner(o)'
  BY <1>1, <1>3, <1>4 DEF OpInv, Owner, Ok, Timely, storeVars
<1>6. /\ new \in Entry
      /\ new.meta.version # 0 /\ new.meta.version <= meta.version /\ new.exp <= now + TTL
      /\ \A v \in Version : new.meta.version < v =>
           new.exp <= reached[v] + TTL /\ new.exp <= reached[v] + 2 * TTL
  <2>1. new.meta = op[o].seen /\ new.exp = now + TTL /\ now + TTL \in 0..(MaxNow + TTL)
    BY Basics, Numbers
  <2>2. new \in Entry
    BY <2>1, Basics DEF Entry
  <2>3. \A v \in Version : op[o].seen.version < v =>
          now + TTL <= reached[v] + TTL /\ now + TTL <= reached[v] + 2 * TTL
    BY <1>4, Basics, Numbers
  <2> QED BY <1>4, <2>1, <2>2, <2>3, Basics, Numbers
<1> HIDE DEF new
<1>7. memMeta' \in [Server -> Entry] /\ \A s \in Server : memMeta'[s] \in {memMeta[s], new}
  BY <1>1, <1>6, Basics DEF CacheTyped
<1>8. CacheTyped'
  BY <1>1, <1>6, <1>7, Basics DEF CacheTyped
<1>9. CacheInv'
  <2>1. ASSUME NEW s \in Server
        PROVE  /\ memMeta'[s].meta.version = 0 => memMeta'[s].exp = 0
               /\ memMeta'[s].meta.version <= meta.version /\ memMeta'[s].exp <= now + TTL
               /\ \A v \in Version :
                    memMeta'[s].meta.version < v => memMeta'[s].exp <= reached[v] + 2 * TTL
    BY <1>6, <1>7, Basics DEF CacheInv
  <2>2. /\ kvMeta'.meta.version = 0 => kvMeta'.exp = 0
        /\ kvMeta'.meta.version <= meta.version /\ kvMeta'.exp <= now + TTL
        /\ \A v \in Version : kvMeta'.meta.version < v => kvMeta'.exp <= reached[v] + TTL
    BY <1>1, <1>6, Basics DEF CacheInv
  <2> QED BY <1>1, <2>1, <2>2, Basics DEF CacheInv, storeVars
<1> QED BY <1>1, <1>3, <1>5, <1>8, <1>9, Quiet
(* An answer is what the store holds. *)
LEMMA Serving ==
  ASSUME LInv, NEW o \in Operation, NEW content, Served(o, content),
         Holds(o, op[o].version, content), Timely(o), UNCHANGED <<storeVars, now>>,
         Kind(o) = "publish" => op[o].version >= 2 /\ content = Agenda[o].content
  PROVE  /\ OpTyped' /\ Steady(o) /\ OpInv(o)' /\ op'[o].pc = "done"
         /\ op'[o].version = op[o].version
<1>1. op[o].version \in 0..(MaxVersion + 1) /\ op[o].version \in Version /\ content \in Content
  BY Basics, Numbers DEF Holds, StoreTyped, Configs, Version
<1>2. /\ OpTyped' /\ Steady(o) /\ op'[o].pc = "done" /\ op'[o].answer = "ok"
      /\ op'[o].version = op[o].version /\ op'[o].content = content
      /\ op'[o].asked = op[o].asked
  BY <1>1, Basics, EndedWith DEF Served, OpTyped
<1>3. op[o].asked <= now
  BY Basics DEF OpInv
<1> QED BY <1>2, <1>3 DEF OpInv, Timely, Holds, Ok, storeVars

(* rememberConfig of what the store holds keeps the caches true. *)
LEMMA Keeping ==
  ASSUME LInv, NEW o \in Operation, NEW content \in Content, NEW full,
         KeepConfig(o, content, full), op[o].version \in Version,
         content = configs'[op[o].version],
         \A v \in Version : configs[v] # NoConfig => configs'[v] = configs[v]
  PROVE  /\ memConfigs' \in [Server -> Configs]
         /\ \A s \in Server, v \in Version : memConfigs'[s][v] \in {NoConfig, configs'[v]}
<1>1. /\ memConfigs' \in [Server -> Configs]
      /\ \A s \in Server, v \in Version :
           \/ memConfigs'[s][v] \in {NoConfig, memConfigs[s][v]}
           \/ v = op[o].version /\ memConfigs'[s][v] = content
  BY Basics, Kept DEF CacheTyped
<1>2. \A s \in Server, v \in Version : memConfigs[s][v] \in {NoConfig, configs[v]}
  BY Basics DEF CacheInv
<1> QED BY <1>1, <1>2

LEMMA ConfigHitKeeps ==
  ASSUME LInv, NEW o \in Operation, ConfigHit(o)
  PROVE  LInv'
<1> DEFINE content == memConfigs[Home(o)][op[o].version]
<1>1. /\ UNCHANGED <<storeVars, cacheVars, now>> /\ op[o].pc = "config"
      /\ content # NoConfig /\ Served(o, content)
  BY DEF ConfigHit
<1>2. Kind(o) = "current" /\ op[o].version \in 1..meta.version /\ Timely(o)
  BY <1>1, Basics DEF OpInv
<1>3. content = configs[op[o].version]
  BY <1>1, <1>2, Basics, Numbers DEF CacheInv, Version
<1>4. /\ OpTyped' /\ Steady(o) /\ OpInv(o)' /\ op'[o].pc = "done"
  BY <1>1, <1>2, <1>3, Serving DEF Holds
<1> QED BY <1>1, <1>2, <1>4, CachesStay, Quiet DEF Owner

LEMMA ConfigSharedKeeps ==
  ASSUME LInv, NEW o \in Operation, NEW full \in BOOLEAN, ConfigShared(o, full)
  PROVE  LInv'
<1> DEFINE content == kvConfigs[op[o].version]
<1>1. /\ UNCHANGED <<storeVars, kvMeta, kvConfigs, memMeta, now>> /\ op[o].pc = "config"
      /\ content # NoConfig /\ Served(o, content) /\ KeepConfig(o, content, full)
  BY DEF ConfigShared
<1>2. Kind(o) = "current" /\ op[o].version \in 1..meta.version /\ Timely(o)
  BY <1>1, Basics DEF OpInv
<1>3. /\ op[o].version \in Version /\ content = configs[op[o].version] /\ content \in Content
      /\ configs' = configs
  <2>1. op[o].version \in Version /\ configs \in Configs
    BY <1>2, Basics, Numbers DEF Version, StoreTyped
  <2>2. content = configs[op[o].version]
    BY <1>1, <2>1, Basics DEF CacheInv
  <2> QED BY <1>1, <2>1, <2>2 DEF Configs, storeVars
<1>4. /\ OpTyped' /\ Steady(o) /\ OpInv(o)' /\ op'[o].pc = "done"
  BY <1>1, <1>2, <1>3, Serving DEF Holds
<1>5. /\ memConfigs' \in [Server -> Configs]
      /\ \A s \in Server, v \in Version : memConfigs'[s][v] \in {NoConfig, configs'[v]}
  BY <1>1, <1>3, Keeping
<1>6. CacheTyped' /\ CacheInv'
  BY <1>1, <1>5, Basics DEF CacheTyped, CacheInv, storeVars
<1> QED BY <1>1, <1>2, <1>4, <1>6, Quiet DEF Owner

LEMMA ConfigFetchKeeps ==
  ASSUME LInv, NEW o \in Operation, ConfigFetch(o)
  PROVE  LInv'
<1>1. UNCHANGED <<storeVars, cacheVars, now>> /\ op[o].pc = "config"
  BY DEF ConfigFetch, ConfigMissed
<1>2. /\ Kind(o) = "current" /\ op[o].version \in 1..meta.version /\ Timely(o)
      /\ op[o].asked <= now /\ op[o].answer = "none"
  BY <1>1, Basics DEF OpInv, OpTyped, OperationState
<1>3. CASE configs[op[o].version] = NoConfig
  <2>1. Finished(o, "notfound")
    BY <1>3 DEF ConfigFetch
  <2> QED BY <1>1, <2>1, Failing, CachesStay, Quiet
<1>4. CASE configs[op[o].version] # NoConfig
  <2> DEFINE content == configs[op[o].version]
  <2>1. op[o].version \in Version /\ content \in Content
    BY <1>2, <1>4, Basics, Numbers DEF StoreTyped, Configs, Version
  <2>2. op' = [op EXCEPT ![o].pc = "hold", ![o].content = content]
    BY <1>4 DEF ConfigFetch
  <2> HIDE DEF content
  <2>3. /\ OpTyped' /\ Steady(o) /\ op'[o].pc = "hold" /\ op'[o].content = content
        /\ op'[o].version = op[o].version /\ op'[o].asked = op[o].asked
        /\ op'[o].answer = op[o].answer
    BY <2>1, <2>2, Fetched, Basics DEF OpTyped
  <2>4. OpInv(o)'
    BY <1>1, <1>2, <1>4, <2>3 DEF OpInv, Timely, Holds, Ok, storeVars, content
  <2> QED BY <1>1, <1>2, <2>3, <2>4, CachesStay, Quiet DEF Owner, Ok
<1> QED BY <1>3, <1>4

LEMMA ConfigHoldKeeps ==
  ASSUME LInv, NEW o \in Operation, NEW full \in BOOLEAN, NEW shared \in BOOLEAN,
         ConfigHold(o, full, shared)
  PROVE  LInv'
<1> DEFINE content == op[o].content
<1>1. /\ UNCHANGED <<storeVars, kvMeta, memMeta, now>> /\ op[o].pc = "hold"
      /\ Served(o, content) /\ KeepConfig(o, content, full)
      /\ kvConfigs' \in {kvConfigs, [kvConfigs EXCEPT ![op[o].version] = content]}
  BY DEF ConfigHold
<1>2. Kind(o) = "current" /\ Holds(o, op[o].version, content) /\ Timely(o)
  BY <1>1, Basics DEF OpInv
<1>3. /\ op[o].version \in Version /\ content = configs[op[o].version] /\ content \in Content
      /\ configs' = configs
  BY <1>1, <1>2, Basics, Numbers DEF Holds, Version, StoreTyped, Configs, storeVars
<1>4. /\ OpTyped' /\ Steady(o) /\ OpInv(o)' /\ op'[o].pc = "done"
  BY <1>1, <1>2, Serving
<1>5. /\ memConfigs' \in [Server -> Configs]
      /\ \A s \in Server, v \in Version : memConfigs'[s][v] \in {NoConfig, configs'[v]}
  BY <1>1, <1>3, Keeping
<1> HIDE DEF content
<1>6. kvConfigs' \in Configs /\ \A v \in Version : kvConfigs'[v] \in {NoConfig, configs[v]}
  <2>1. kvConfigs \in Configs /\ \A v \in Version : kvConfigs[v] \in {NoConfig, configs[v]}
    BY Basics DEF CacheTyped, CacheInv
  <2>2. CASE kvConfigs' = kvConfigs
    BY <2>1, <2>2
  <2>3. CASE kvConfigs' = [kvConfigs EXCEPT ![op[o].version] = content]
    BY <1>3, <2>1, <2>3 DEF Configs
  <2> QED BY <1>1, <2>2, <2>3
<1>7. CacheTyped' /\ CacheInv'
  BY <1>1, <1>3, <1>5, <1>6, Basics DEF CacheTyped, CacheInv, storeVars
<1> QED BY <1>1, <1>2, <1>4, <1>7, Quiet DEF Owner
(* A step that writes to the store: configs stay what they are, the pointer  *)
(* does not fall back, and it does not pass a publisher about to move it.   *)
LEMMA Storing ==
  ASSUME LInv, NEW o \in Operation, Steady(o), now' = now,
         OpTyped', CacheTyped', StoreTyped', StoreInv', CacheInv', OpInv(o)',
         meta.version <= meta'.version,
         \A v \in Version : configs[v] # NoConfig => configs'[v] = configs[v],
         \A v \in Version : reached'[v] \in {reached[v], now},
         \A p \in Operation : p # o /\ op[p].pc = "point" => meta'.version = meta.version,
         \A p \in Operation : p # o /\ op[p].pc = "first" =>
           configs'[1] = NoConfig /\ op'[o].pc # "first",
         Owner(o)' => \A p \in Operation : p # o /\ Owner(p) => op[p].version # op'[o].version
  PROVE  LInv'
<1>1. LiveOpsTypeOK'
  BY DEF LiveOpsTypeOK, OpTyped, CacheTyped, StoreTyped
<1>2. ASSUME NEW p \in Operation, p # o
      PROVE  op'[p] = op[p] /\ OpInv(p) /\ (Owner(p)' <=> Owner(p))
  BY <1>2 DEF Steady, LInv, Owner, Ok
<1>3. meta'.version \in 0..MaxVersion
  BY Basics DEF StoreTyped, Header
<1>4. ASSUME NEW p \in Operation, p # o, NEW v, NEW content, Holds(p, v, content)
      PROVE  Holds(p, v, content)'
  <2>1. v \in Version
    BY <1>4, Basics, Numbers DEF Holds, Version
  <2> QED BY <1>3, <1>4, <2>1, Basics, Numbers DEF Holds
<1>5. ASSUME NEW p \in Operation, p # o, Timely(p) PROVE Timely(p)'
  <2>1. op[p].asked <= now /\ op[p].asked \in Nat /\ op'[p] = op[p]
    BY <1>2, <1>5, Basics DEF OpInv, OpTyped, OperationState
  <2>2. ASSUME NEW v \in Version, op[p].version < v, Kind(p) = "current"
        PROVE  op[p].asked < reached'[v] + 2 * TTL
    <3>1. op[p].asked < reached[v] + 2 * TTL
      BY <1>5, <2>2 DEF Timely
    <3>2. reached'[v] = reached[v] \/ reached'[v] = now
      OBVIOUS
    <3> QED BY <2>1, <3>1, <3>2, Basics, Numbers
  <2> QED BY <2>1, <2>2 DEF Timely
<1>6. ASSUME NEW p \in Operation, p # o PROVE OpInv(p)'
  <2>1. op'[p] = op[p] /\ OpInv(p)
    BY <1>2, <1>6
  <2>2. op[p].seen \in Header /\ op[p].seen.version \in 0..MaxVersion
        /\ op[p].version \in 0..(MaxVersion + 1)
    BY Basics DEF Header
  <2>3. op[p].pc = "remember" => \A v \in Version : op[p].seen.version < v => now <= reached'[v]
    BY <2>1, Basics, Numbers DEF OpInv
  <2>4. op[p].pc = "first" =>
          op[p].version = 1 /\ meta'.version >= 1 /\ configs'[1] = NoConfig
    BY <1>3, <1>6, <2>1, Basics, Numbers DEF OpInv
  <2>5. op[p].pc = "point" =>
          /\ op[p].version = meta'.version + 1 /\ op[p].version \in Version /\ meta'.version >= 1
          /\ configs'[op[p].version] = Agenda[p].content
    <3>1. HAVE op[p].pc = "point"
    <3>2. Owner(p)
      BY <2>1, <3>1 DEF OpInv, Owner
    <3> QED BY <1>6, <2>1, <3>1, <3>2, OwnersStored, Basics DEF OpInv
  <2>6. op[p].pc = "forget" =>
          op[p].version \in 2..meta'.version /\ configs'[op[p].version] = Agenda[p].content
    <3>1. HAVE op[p].pc = "forget"
    <3>2. Owner(p)
      BY <2>1, <3>1 DEF OpInv, Owner
    <3>3. configs'[op[p].version] = configs[op[p].version]
      BY <1>6, <2>1, <3>2, OwnersStored, Basics
    <3> QED BY <1>3, <2>1, <3>1, <3>3, Basics, Numbers DEF OpInv
  <2>7. /\ op[p].pc = "remember" => op[p].seen.version \in 1..meta'.version
        /\ op[p].pc = "config" => op[p].version \in 1..meta'.version
        /\ op[p].pc = "put" => op[p].seen.version \in 1..meta'.version
    BY <1>3, <2>1, <2>2, Basics, Numbers DEF OpInv
  <2>8. Timely(p) => Timely(p)'
    BY <1>5, <1>6
  <2>9. Holds(p, op[p].version, op[p].content) => Holds(p, op[p].version, op[p].content)'
    BY <1>4, <1>6, <2>1
  <2> QED BY <2>1, <2>3, <2>4, <2>5, <2>6, <2>7, <2>8, <2>9 DEF OpInv, Ok
<1>7. ASSUME NEW p \in Operation, NEW q \in Operation, p # q PROVE Apart(p, q)'
  <2>1. Apart(p, q)
    BY <1>7 DEF LInv
  <2> QED BY <1>2, <1>7, <2>1 DEF Apart
<1> QED BY <1>1, <1>6, <1>7 DEF LInv
(* The pointer moves to a version that is stored. *)
LEMMA Pointing ==
  ASSUME LInv, NEW header \in Header, Point(header), UNCHANGED <<configs, cacheVars, now>>,
         header.version = meta.version + 1,
         header.version >= 2 => configs[header.version] # NoConfig
  PROVE  /\ CacheTyped' /\ StoreTyped' /\ StoreInv' /\ CacheInv'
         /\ \A v \in Version : reached'[v] \in {reached[v], now}
<1>1. /\ CacheTyped /\ StoreTyped /\ StoreInv /\ CacheInv
  BY Types DEF LInv
<1>2. /\ meta' = header /\ configs' = configs /\ now' = now
      /\ kvMeta' = kvMeta /\ memMeta' = memMeta
      /\ kvConfigs' = kvConfigs /\ memConfigs' = memConfigs
      /\ reached' = [v \in Version |-> IF v <= header.version /\ reached[v] = Never
                                       THEN now ELSE reached[v]]
  BY DEF Point, cacheVars
<1>3. \A v \in Version : /\ reached'[v] \in {reached[v], now}
                         /\ reached'[v] \in 0..Never
                         /\ v <= meta.version => reached'[v] = reached[v]
                         /\ v = meta.version + 1 => reached'[v] = now
                         /\ v > meta.version + 1 => reached'[v] = reached[v]
  BY <1>1, <1>2, Numbers DEF StoreInv, StoreTyped
<1>4. StoreTyped'
  BY <1>1, <1>2, <1>3 DEF StoreTyped, Never
<1>5. CacheTyped'
  BY <1>1, <1>2 DEF CacheTyped
<1>6. StoreInv'
  <2>1. \A v \in Version : v > meta'.version + 1 => configs'[v] = NoConfig
    BY <1>1, <1>2, Numbers DEF StoreInv
  <2>2. \A v \in Version : v \in 2..meta'.version => configs'[v] # NoConfig
    BY <1>1, <1>2, Numbers DEF StoreInv
  <2>3. \A v \in Version : IF v <= meta'.version THEN reached'[v] <= now' ELSE reached'[v] = Never
    BY <1>1, <1>2, <1>3, Numbers DEF StoreInv
  <2>4. meta'.version # 0
    BY <1>1, <1>2, Numbers
  <2>5. Never' = Never
    BY DEF Never
  <2> QED BY <2>1, <2>2, <2>3, <2>4, <2>5 DEF StoreInv
<1>7. CacheInv'
  <2>1. ASSUME NEW v \in Version, NEW e \in Entry, e.exp <= now + TTL,
               NEW k \in {TTL, 2 * TTL}, e.exp <= reached[v] + k
        PROVE  e.exp <= reached'[v] + k
    <3>1. e.exp \in Nat /\ k \in Nat /\ k >= TTL
      BY <1>1, Numbers DEF Entry
    <3>2. reached'[v] = reached[v] \/ reached'[v] = now
      BY <1>3
    <3> QED BY <1>1, <2>1, <3>1, <3>2, Numbers
  <2>2. \A v \in Version : kvMeta.meta.version < v => kvMeta.exp <= reached'[v] + TTL
    BY <1>1, <2>1 DEF CacheInv, CacheTyped
  <2>3. \A s \in Server, v \in Version :
          memMeta[s].meta.version < v => memMeta[s].exp <= reached'[v] + 2 * TTL
    BY <1>1, <2>1 DEF CacheInv, CacheTyped
  <2>4. /\ kvMeta.meta.version <= meta'.version
        /\ \A s \in Server : memMeta[s].meta.version <= meta'.version
    BY <1>1, <1>2, Numbers DEF CacheInv, CacheTyped, Entry, Header
  <2> QED BY <1>1, <1>2, <2>2, <2>3, <2>4 DEF CacheInv
<1> QED BY <1>3, <1>4, <1>5, <1>6, <1>7

LEMMA CreateMetaKeeps ==
  ASSUME LInv, NEW o \in Operation, NEW answered \in BOOLEAN, CreateMeta(o, answered)
  PROVE  LInv'
<1> DEFINE header == Created
<1>1. /\ op[o].pc = "create" /\ meta = NoMeta /\ Point(header)
      /\ UNCHANGED <<configs, cacheVars, now>>
      /\ IF answered THEN Seeing(o, "first", header, header.version) ELSE Finished(o, "failed")
  BY DEF CreateMeta, See
<1>2. header \in Header /\ header.version = 1
  BY Numbers, Basics DEF Header, Created
<1> HIDE DEF header
<1>3. meta.version = 0 /\ meta' = header /\ configs' = configs /\ now' = now
  BY <1>1 DEF NoMeta, Point
<1>4. \A v \in Version : configs[v] = NoConfig /\ reached[v] = Never
  BY <1>3, Basics, Numbers DEF StoreInv, Version
<1>5. /\ CacheTyped' /\ StoreTyped' /\ StoreInv' /\ CacheInv'
      /\ \A v \in Version : reached'[v] \in {reached[v], now}
  BY <1>1, <1>2, <1>3, Pointing
<1>6. /\ OpTyped' /\ Steady(o) /\ OpInv(o)' /\ ~Owner(o)'
  <2>1. CASE answered
    <3>1. /\ "first" \in ReadPc \cup CreatePc \cup PublishPc /\ now \in 0..MaxNow
          /\ header.version \in 0..(MaxVersion + 1)
      BY <1>2, Basics, Numbers DEF CreatePc, StoreTyped
    <3>2. /\ OpTyped' /\ Steady(o) /\ op'[o].pc = "first" /\ op'[o].version = 1
          /\ op'[o].answer = op[o].answer
          /\ op'[o].asked = IF Kind(o) = "current" THEN now ELSE 0
      BY <1>1, <1>2, <2>1, <3>1, Saw, Basics DEF OpTyped
    <3>3. Kind(o) # "publish" /\ op[o].answer = "none"
      BY <1>1, Basics DEF OpInv, OpTyped, OperationState
    <3>4. \A v \in Version : 1 < v => reached'[v] = Never
      <4>1. reached' = [v \in Version |-> IF v <= header.version /\ reached[v] = Never
                                          THEN now ELSE reached[v]]
        BY <1>1 DEF Point
      <4> QED BY <1>2, <1>4, <4>1, Basics, Numbers
    <3>5. Timely(o)'
      BY <1>3, <3>2, <3>4, Basics, Numbers DEF Timely
    <3>6. 1 \in Version
      BY Basics, Numbers DEF Version
    <3>7. OpInv(o)'
      BY <1>2, <1>3, <1>4, <3>2, <3>3, <3>5, <3>6, Basics, Numbers DEF OpInv, Ok
    <3> QED BY <3>2, <3>3, <3>7 DEF Owner, Ok
  <2>2. CASE ~answered
    BY <1>1, <1>3, <2>2, Failing
  <2> QED BY <2>1, <2>2
<1>7. \A p \in Operation : op[p].pc # "first" /\ op[p].pc # "point"
  BY <1>3, Basics DEF OpInv
<1> QED BY <1>2, <1>3, <1>4, <1>5, <1>6, <1>7, Storing

LEMMA CreateLostKeeps ==
  ASSUME LInv, NEW o \in Operation, CreateLost(o)
  PROVE  LInv'
<1>1. UNCHANGED <<storeVars, cacheVars, now>> /\ op[o].pc = "create"
  BY DEF CreateLost
<1>2. CASE Agenda[o].kind = "current"
  <2>1. "meta" \in ReadPc \cup CreatePc \cup PublishPc /\ Move(o, "meta")
    BY <1>2 DEF ReadPc, CreateLost
  <2>2. /\ OpTyped' /\ Steady(o) /\ op'[o].pc = "meta" /\ op'[o].answer = op[o].answer
        /\ op'[o].asked = op[o].asked
    BY <2>1, Basics, Moved DEF OpTyped
  <2>3. op[o].answer = "none" /\ op[o].asked <= now
    BY <1>1, Basics DEF OpInv, OpTyped, OperationState
  <2>4. OpInv(o)' /\ ~Owner(o)'
    BY <1>1, <1>2, <2>2, <2>3 DEF OpInv, Owner, Ok, Kind
  <2> QED BY <1>1, <2>2, <2>4, CachesStay, Quiet
<1>3. CASE Agenda[o].kind # "current"
  <2>1. Finished(o, "exists")
    BY <1>3 DEF CreateLost
  <2> QED BY <1>1, <2>1, Failing, CachesStay, Quiet
<1> QED BY <1>2, <1>3
(* PutConfig of a version that is missing, at or next after the pointer. *)
LEMMA Putting ==
  ASSUME LInv, NEW v \in Version, NEW content \in Content, configs[v] = NoConfig,
         PutConfig(v, content), UNCHANGED <<meta, reached, now>>,
         v <= meta.version + 1, meta.version >= 1
  PROVE  /\ StoreTyped' /\ StoreInv' /\ configs'[v] = content
         /\ \A w \in Version : w # v => configs'[w] = configs[w]
<1>1. StoreTyped /\ StoreInv
  BY Types DEF LInv
<1>2. configs' = [configs EXCEPT ![v] = content]
  BY DEF PutConfig
<1>3. /\ configs' \in Configs /\ configs'[v] = content
      /\ \A w \in Version : w # v => configs'[w] = configs[w]
  BY <1>1, <1>2 DEF StoreTyped, Configs
<1>4. StoreTyped'
  BY <1>1, <1>3 DEF StoreTyped, Never
<1>5. content # NoConfig
  OBVIOUS
<1>6. /\ \A w \in Version : w > meta.version + 1 => configs'[w] = NoConfig
      /\ \A w \in Version : w \in 2..meta.version => configs'[w] # NoConfig
  BY <1>1, <1>3, <1>5, Numbers DEF StoreInv
<1>7. StoreInv'
  BY <1>1, <1>6, Numbers DEF StoreInv, Never
<1> QED BY <1>3, <1>4, <1>7

LEMMA PutFirstKeeps ==
  ASSUME LInv, NEW o \in Operation, NEW answered \in BOOLEAN, NEW full \in BOOLEAN,
         PutFirst(o, answered, full)
  PROVE  LInv'
<1> DEFINE content == Written(o)
<1>1. /\ op[o].pc = "first" /\ PutConfig(1, content)
      /\ UNCHANGED <<meta, reached, kvMeta, kvConfigs, memMeta, now>>
  BY DEF PutFirst
<1>2. /\ Kind(o) # "publish" /\ op[o].version = 1 /\ meta.version >= 1
      /\ configs[1] = NoConfig /\ Timely(o) /\ op[o].asked <= now /\ op[o].answer = "none"
  BY <1>1, Basics DEF OpInv, OpTyped, OperationState
<1>3. content \in Content
  BY <1>2 DEF Written, Kind, Task
<1>4. 1 \in Version /\ op[o].version \in Version
  BY <1>2, Basics, Numbers DEF Version
<1>5. /\ StoreTyped' /\ StoreInv' /\ configs'[1] = content
      /\ \A v \in Version : v # 1 => configs'[v] = configs[v]
  <2>1. 1 <= meta.version + 1
    BY <1>2, Basics, Numbers
  <2> HIDE DEF content
  <2> QED BY <1>1, <1>2, <1>3, <1>4, <2>1, Putting
<1>6. \A v \in Version : configs[v] # NoConfig => configs'[v] = configs[v]
  BY <1>2, <1>5
<1>7. /\ memConfigs' \in [Server -> Configs]
      /\ \A s \in Server, v \in Version : memConfigs'[s][v] \in {NoConfig, configs'[v]}
  <2>1. CASE answered
    <3>1. KeepConfig(o, content, full)
      BY <2>1 DEF PutFirst
    <3> HIDE DEF content
    <3> QED BY <1>2, <1>3, <1>4, <1>5, <1>6, <3>1, Keeping
  <2>2. CASE ~answered
    <3>1. memConfigs' = memConfigs
      BY <2>2 DEF PutFirst
    <3> QED BY <1>6, <3>1, Basics DEF CacheTyped, CacheInv
  <2> QED BY <2>1, <2>2
<1>8. CacheTyped'
  BY <1>1, <1>7, Basics DEF CacheTyped
<1>9. CacheInv'
  <2>1. \A v \in Version : kvConfigs'[v] \in {NoConfig, configs'[v]}
    BY <1>1, <1>6, Basics DEF CacheInv
  <2> QED BY <1>1, <1>7, <2>1, Basics DEF CacheInv
<1>10. OpTyped' /\ Steady(o) /\ OpInv(o)' /\ ~Owner(o)' /\ op'[o].pc # "first"
  <2>1. CASE ~answered
    <3>1. Finished(o, "failed")
      BY <2>1 DEF PutFirst
    <3> QED BY <1>1, <3>1, Failing
  <2>2. CASE answered /\ Agenda[o].kind = "current"
    <3>1. "config" \in ReadPc \cup CreatePc \cup PublishPc /\ Move(o, "config")
      BY <2>2 DEF PutFirst, ReadPc
    <3>2. /\ OpTyped' /\ Steady(o) /\ op'[o].pc = "config" /\ op'[o].answer = op[o].answer
          /\ op'[o].version = op[o].version /\ op'[o].asked = op[o].asked
      BY <3>1, Basics, Moved DEF OpTyped
    <3>3. 1 \in 1..meta.version
      BY <1>2, Basics, Numbers
    <3>4. OpInv(o)'
      BY <1>1, <1>2, <2>2, <3>2, <3>3 DEF OpInv, Timely, Ok, Kind
    <3> QED BY <1>2, <3>2, <3>4 DEF Owner
  <2>3. CASE answered /\ Agenda[o].kind # "current"
    <3>1. Served(o, content)
      BY <2>3 DEF PutFirst
    <3>2. /\ OpTyped' /\ Steady(o) /\ op'[o].pc = "done" /\ op'[o].answer = "ok"
          /\ op'[o].version = op[o].version /\ op'[o].content = content
          /\ op'[o].asked = op[o].asked
      <4>1. op[o].version \in 0..(MaxVersion + 1)
        BY Basics
      <4> HIDE DEF content
      <4> QED BY <1>3, <3>1, <4>1, Basics, EndedWith DEF Served, OpTyped
    <3>3. 1 \in 1..meta.version /\ content # NoConfig
      BY <1>2, <1>3, Basics, Numbers
    <3>4. OpInv(o)'
      <4> HIDE DEF content
      <4> QED BY <1>1, <1>2, <1>5, <3>2, <3>3 DEF OpInv, Timely, Holds, Ok, Kind
    <3> QED BY <1>2, <3>2, <3>4 DEF Owner
  <2> QED BY <2>1, <2>2, <2>3
<1>11. \A p \in Operation : p # o => op[p].pc # "first"
  BY <1>1 DEF LInv, Apart
<1> QED
  BY <1>1, <1>5, <1>6, <1>8, <1>9, <1>10, <1>11, Basics, Numbers, Storing
LEMMA PublishReadKeeps ==
  ASSUME LInv, NEW o \in Operation, PublishRead(o)
  PROVE  LInv'
<1>1. UNCHANGED <<storeVars, cacheVars, now>> /\ op[o].pc = "read"
  BY DEF PublishRead
<1>2. CASE meta = NoMeta
  <2>1. Finished(o, "notfound")
    BY <1>2 DEF PublishRead
  <2> QED BY <1>1, <2>1, Failing, CachesStay, Quiet
<1>3. CASE meta # NoMeta
  <2>1. /\ "put" \in ReadPc \cup CreatePc \cup PublishPc /\ now \in 0..MaxNow
        /\ meta \in Header /\ meta.version + 1 \in 0..(MaxVersion + 1)
    BY Basics, Numbers DEF PublishPc, StoreTyped
  <2>2. Seeing(o, "put", meta, meta.version + 1)
    BY <1>3 DEF PublishRead
  <2>3. /\ OpTyped' /\ Steady(o) /\ op'[o].pc = "put" /\ op'[o].answer = op[o].answer
        /\ op'[o].seen = meta /\ op'[o].version = meta.version + 1
        /\ op'[o].asked = IF Kind(o) = "current" THEN now ELSE 0
    BY <2>1, <2>2, Saw, Basics DEF OpTyped
  <2>4. Kind(o) = "publish" /\ op[o].answer = "none"
    BY <1>1, Basics DEF OpInv, OpTyped, OperationState
  <2>5. meta.version \in 1..meta.version
    BY <1>3, Basics, Numbers DEF StoreInv
  <2>6. meta' = meta /\ now' = now
    BY <1>1 DEF storeVars
  <2>7. OpInv(o)' /\ ~Owner(o)'
    BY <2>3, <2>4, <2>5, <2>6, Basics, Numbers DEF OpInv, Ok, Owner
  <2> QED BY <1>1, <2>3, <2>7, CachesStay, Quiet
<1> QED BY <1>2, <1>3

LEMMA PublishTakenKeeps ==
  ASSUME LInv, NEW o \in Operation, PublishTaken(o)
  PROVE  LInv'
<1>1. UNCHANGED <<storeVars, cacheVars, now>> /\ op[o].pc = "put"
  BY DEF PublishTaken
<1>2. CASE op[o].attempt + 1 < MaxAttempts
  <2>1. op' = [op EXCEPT ![o].pc = "read", ![o].attempt = @ + 1]
    BY <1>2 DEF PublishTaken
  <2>2. /\ OpTyped' /\ Steady(o) /\ op'[o].pc = "read" /\ op'[o].asked = op[o].asked
        /\ op'[o].answer = op[o].answer
    BY <1>2, <2>1, Reread, Basics DEF OpTyped
  <2>3. Kind(o) = "publish" /\ op[o].answer = "none" /\ op[o].asked <= now
    BY <1>1, Basics DEF OpInv, OpTyped, OperationState
  <2>4. OpInv(o)' /\ ~Owner(o)'
    BY <1>1, <2>2, <2>3 DEF OpInv, Ok, Owner
  <2> QED BY <1>1, <2>2, <2>4, CachesStay, Quiet
<1>3. CASE ~(op[o].attempt + 1 < MaxAttempts)
  <2>1. Finished(o, "exhausted")
    BY <1>3 DEF PublishTaken
  <2> QED BY <1>1, <2>1, Failing, CachesStay, Quiet
<1> QED BY <1>2, <1>3

LEMMA PublishPutKeeps ==
  ASSUME LInv, NEW o \in Operation, NEW answered \in BOOLEAN, PublishPut(o, answered)
  PROVE  LInv'
<1> DEFINE v == op[o].version
<1>1. /\ op[o].pc = "put" /\ v \in Version /\ configs[v] = NoConfig
      /\ PutConfig(v, Agenda[o].content)
      /\ UNCHANGED <<meta, reached, cacheVars, now>>
      /\ IF answered THEN Move(o, "point") ELSE Finished(o, "failed")
  BY DEF PublishPut
<1>2. /\ Kind(o) = "publish" /\ op[o].answer = "none" /\ op[o].asked <= now
      /\ op[o].seen.version \in 1..meta.version /\ v = op[o].seen.version + 1
  BY <1>1, Basics DEF OpInv, OpTyped, OperationState
<1>3. Agenda[o].content \in Content
  BY <1>2 DEF Kind, Task
<1>4. v = meta.version + 1 /\ meta.version >= 1 /\ v >= 2
  BY <1>1, <1>2, Basics, Numbers DEF StoreInv
<1> HIDE DEF v
<1>5. /\ StoreTyped' /\ StoreInv' /\ configs'[v] = Agenda[o].content
      /\ \A w \in Version : w # v => configs'[w] = configs[w]
  BY <1>1, <1>3, <1>4, Basics, Numbers, Putting
<1>6. \A w \in Version : configs[w] # NoConfig => configs'[w] = configs[w]
  BY <1>1, <1>5
<1>7. CacheTyped' /\ CacheInv'
  BY <1>1, <1>6, Basics DEF CacheTyped, CacheInv, cacheVars
<1>8. /\ OpTyped' /\ Steady(o) /\ OpInv(o)' /\ op'[o].pc # "first"
      /\ Owner(o)' => op'[o].version = v
  <2>1. CASE answered
    <3>1. "point" \in ReadPc \cup CreatePc \cup PublishPc
      BY DEF PublishPc
    <3>2. /\ OpTyped' /\ Steady(o) /\ op'[o].pc = "point" /\ op'[o].answer = op[o].answer
          /\ op'[o].version = v /\ op'[o].asked = op[o].asked
      BY <1>1, <2>1, <3>1, Basics, Moved DEF OpTyped, v
    <3> QED BY <1>1, <1>2, <1>4, <1>5, <3>2 DEF OpInv, Ok
  <2>2. CASE ~answered
    BY <1>1, <2>2, Failing
  <2> QED BY <2>1, <2>2
<1>9. ASSUME NEW p \in Operation, p # o, Owner(p) PROVE op[p].version # v
  BY <1>1, <1>9, OwnersStored, Basics
<1>10. ASSUME NEW p \in Operation, op[p].pc = "first" PROVE configs'[1] = NoConfig
  <2>1. configs[1] = NoConfig
    BY <1>10, Basics DEF OpInv
  <2>2. 1 \in Version /\ 1 # v
    BY <1>4, Basics, Numbers DEF Version
  <2> QED BY <1>5, <2>1, <2>2
<1>11. /\ meta'.version = meta.version /\ meta.version <= meta'.version /\ now' = now
       /\ \A w \in Version : reached'[w] \in {reached[w], now}
  BY <1>1, Basics, Numbers
<1> QED BY <1>5, <1>6, <1>7, <1>8, <1>9, <1>10, <1>11, Storing

LEMMA PublishPointKeeps ==
  ASSUME LInv, NEW o \in Operation, NEW answered \in BOOLEAN, PublishPoint(o, answered)
  PROVE  LInv'
<1> DEFINE header == [version |-> op[o].version, distributed |-> op[o].seen.distributed]
<1>1. /\ op[o].pc = "point" /\ Point(header) /\ UNCHANGED <<configs, cacheVars, now>>
      /\ IF answered THEN Move(o, "forget") ELSE Finished(o, "failed")
  BY DEF PublishPoint
<1>2. /\ Kind(o) = "publish" /\ op[o].answer = "none" /\ op[o].asked <= now
      /\ op[o].version = meta.version + 1 /\ op[o].version \in Version /\ meta.version >= 1
      /\ configs[op[o].version] = Agenda[o].content
  BY <1>1, Basics DEF OpInv, OpTyped, OperationState
<1>3. header \in Header /\ header.version = op[o].version
  BY <1>2, Basics, Numbers DEF Header, Version
<1> HIDE DEF header
<1>4. Owner(o)
  BY <1>1, <1>2 DEF Owner
<1>5. configs[op[o].version] # NoConfig
  BY <1>4, OwnersStored, Basics
<1>6. /\ CacheTyped' /\ StoreTyped' /\ StoreInv' /\ CacheInv'
      /\ \A v \in Version : reached'[v] \in {reached[v], now}
  BY <1>1, <1>2, <1>3, <1>5, Pointing
<1>7. meta' = header /\ configs' = configs /\ now' = now
  BY <1>1 DEF Point
<1>8. /\ OpTyped' /\ Steady(o) /\ OpInv(o)' /\ op'[o].pc # "first"
      /\ Owner(o)' => op'[o].version = op[o].version
  <2>1. CASE answered
    <3>1. "forget" \in ReadPc \cup CreatePc \cup PublishPc
      BY DEF PublishPc
    <3>2. /\ OpTyped' /\ Steady(o) /\ op'[o].pc = "forget" /\ op'[o].answer = op[o].answer
          /\ op'[o].version = op[o].version /\ op'[o].asked = op[o].asked
      BY <1>1, <2>1, <3>1, Basics, Moved DEF OpTyped
    <3>3. op[o].version \in 2..header.version
      BY <1>2, <1>3, Basics, Numbers
    <3> QED BY <1>2, <1>7, <3>2, <3>3 DEF OpInv, Ok
  <2>2. CASE ~answered
    BY <1>1, <1>7, <2>2, Failing
  <2> QED BY <2>1, <2>2
<1>9. ASSUME NEW p \in Operation, p # o, Owner(p) PROVE op[p].version # op[o].version
  BY <1>4, <1>9 DEF LInv, Apart
<1>10. ASSUME NEW p \in Operation, p # o PROVE op[p].pc # "point"
  <2>1. op[p].pc = "point" => Owner(p) /\ op[p].version = meta.version + 1
    BY Basics DEF OpInv, Owner
  <2> QED BY <1>2, <1>9, <1>10, <2>1
<1>11. \A p \in Operation : op[p].pc = "first" => configs'[1] = NoConfig
  BY <1>7, Basics DEF OpInv
<1>12. meta.version <= meta'.version
  BY <1>2, <1>3, <1>7, Basics, Numbers
<1>13. \A v \in Version : configs[v] # NoConfig => configs'[v] = configs[v]
  BY <1>7
<1> QED BY <1>6, <1>7, <1>8, <1>9, <1>10, <1>11, <1>12, <1>13, Storing
LEMMA PublishForgetKeeps ==
  ASSUME LInv, NEW o \in Operation, NEW deleted \in BOOLEAN, NEW full \in BOOLEAN,
         PublishForget(o, deleted, full)
  PROVE  LInv'
<1> DEFINE content == Agenda[o].content
<1>1. /\ op[o].pc = "forget" /\ KeepConfig(o, content, full) /\ Served(o, content)
      /\ memMeta' = [memMeta EXCEPT ![Home(o)] = NoEntry] /\ kvMeta' \in {NoEntry, kvMeta}
      /\ UNCHANGED <<storeVars, kvConfigs, now>>
  BY DEF PublishForget
<1>2. /\ Kind(o) = "publish" /\ op[o].version \in 2..meta.version
      /\ configs[op[o].version] = content
  BY <1>1, Basics DEF OpInv
<1>3. content \in Content /\ content # NoConfig
  BY <1>2 DEF Kind, Task
<1>4. Owner(o)
  BY <1>1, <1>2 DEF Owner
<1> HIDE DEF content
<1>5. /\ op[o].version \in Version /\ op[o].version \in 1..meta.version /\ op[o].version >= 2
      /\ configs' = configs
  BY <1>1, <1>2, Basics, Numbers DEF Version, storeVars
<1>6. /\ OpTyped' /\ Steady(o) /\ OpInv(o)' /\ op'[o].pc = "done"
      /\ op'[o].version = op[o].version
  <2>1. Timely(o) /\ Holds(o, op[o].version, content)
    BY <1>2, <1>3, <1>5 DEF Timely, Holds
  <2>2. content = Agenda[o].content
    BY DEF content
  <2> QED BY <1>1, <1>5, <2>1, <2>2, Serving
<1>7. /\ memConfigs' \in [Server -> Configs]
      /\ \A s \in Server, v \in Version : memConfigs'[s][v] \in {NoConfig, configs'[v]}
  BY <1>1, <1>2, <1>3, <1>5, Keeping
<1>8. NoEntry \in Entry /\ NoEntry.meta.version = 0 /\ NoEntry.exp = 0
  BY Basics, Numbers DEF NoEntry, NoMeta, Entry, Header
<1>9. memMeta' \in [Server -> Entry] /\ \A s \in Server : memMeta'[s] \in {memMeta[s], NoEntry}
  BY <1>1, <1>8, Basics DEF CacheTyped
<1>10. CacheTyped'
  BY <1>1, <1>7, <1>8, <1>9, Basics DEF CacheTyped
<1>11. CacheInv'
  <2>1. /\ 0 <= meta.version /\ 0 <= now + TTL
        /\ \A v \in Version : 0 <= reached[v] + TTL /\ 0 <= reached[v] + 2 * TTL
    BY Basics, Numbers
  <2>2. ASSUME NEW s \in Server
        PROVE  /\ memMeta'[s].meta.version = 0 => memMeta'[s].exp = 0
               /\ memMeta'[s].meta.version <= meta.version /\ memMeta'[s].exp <= now + TTL
               /\ \A v \in Version :
                    memMeta'[s].meta.version < v => memMeta'[s].exp <= reached[v] + 2 * TTL
    BY <1>8, <1>9, <2>1, Basics DEF CacheInv
  <2>3. /\ kvMeta'.meta.version = 0 => kvMeta'.exp = 0
        /\ kvMeta'.meta.version <= meta.version /\ kvMeta'.exp <= now + TTL
        /\ \A v \in Version : kvMeta'.meta.version < v => kvMeta'.exp <= reached[v] + TTL
    BY <1>1, <1>8, <2>1, Basics DEF CacheInv
  <2> QED BY <1>1, <1>5, <1>7, <2>2, <2>3, Basics DEF CacheInv, storeVars
<1> QED BY <1>1, <1>4, <1>6, <1>10, <1>11, Quiet

LEMMA StoreFailsKeeps ==
  ASSUME LInv, NEW o \in Operation, StoreFails(o)
  PROVE  LInv'
<1>1. UNCHANGED <<storeVars, cacheVars, now>> /\ Finished(o, "failed")
  BY DEF StoreFails
<1> QED BY <1>1, Failing, CachesStay, Quiet

LEMMA TickKeeps ==
  ASSUME LInv, Tick
  PROVE  LInv'
<1>1. /\ UNCHANGED <<storeVars, cacheVars, op>> /\ now' = now + 1 /\ now < MaxNow
      /\ \A p \in Operation : op[p].pc # "remember"
  BY DEF Tick
<1>2. OpTyped /\ CacheTyped /\ StoreTyped /\ StoreInv /\ CacheInv
  BY Types DEF LInv
<1>3. now' \in 0..MaxNow /\ now <= now'
  BY <1>1, <1>2, Numbers
<1>4. LiveOpsTypeOK'
  BY <1>1, <1>2, <1>3, Types DEF LiveOpsTypeOK, OpTyped, CacheTyped, StoreTyped, storeVars, cacheVars
<1>5. StoreInv'
  <2>1. \A v \in Version : IF v <= meta.version THEN reached[v] <= now' ELSE reached[v] = Never
    BY <1>1, <1>2, <1>3, Numbers DEF StoreInv
  <2> QED BY <1>1, <1>2, <2>1 DEF StoreInv, storeVars, Never
<1>6. CacheInv'
  <2>1. kvMeta.exp \in Nat /\ \A s \in Server : memMeta[s].exp \in Nat
    BY <1>2, Numbers DEF CacheTyped, Entry
  <2>2. kvMeta.exp <= now' + TTL /\ \A s \in Server : memMeta[s].exp <= now' + TTL
    BY <1>1, <1>2, <2>1, Numbers DEF CacheInv
  <2> QED BY <1>1, <1>2, <2>2 DEF CacheInv, storeVars, cacheVars
<1>7. ASSUME NEW p \in Operation PROVE OpInv(p)'
  <2>1. OpInv(p) /\ op[p].asked \in Nat
    BY Basics
  <2>2. op[p].asked <= now'
    BY <1>2, <1>3, <2>1, Numbers DEF OpInv
  <2> QED BY <1>1, <2>1, <2>2 DEF OpInv, Timely, Holds, Ok, storeVars
<1>8. ASSUME NEW p \in Operation, NEW q \in Operation, p # q PROVE Apart(p, q)'
  BY <1>1, <1>8 DEF LInv, Apart, Owner, Ok
<1> QED BY <1>4, <1>5, <1>6, <1>7, <1>8 DEF LInv

-----------------------------------------------------------------------------
(* The theorems. *)

LEMMA Initially ==
  ASSUME LiveOpsInit
  PROVE  LInv
<1> USE DEF LiveOpsInit
<1>1. /\ NoMeta \in Header /\ NoEntry \in Entry /\ NoConfigs \in Configs /\ Created \in Header
      /\ Never \in 0..Never /\ 0 \in 0..MaxNow /\ 0 \in 0..Never /\ now \in Nat
  BY DEF NoMeta, Header, NoEntry, Entry, NoConfigs, Configs, Never, Created
<1>2. ASSUME NEW o \in Operation
      PROVE  /\ Fresh(o) \in OperationState /\ op[o] = Fresh(o)
             /\ FirstPc(o) = CASE Kind(o) = "current" -> "meta"
                               [] Kind(o) = "create" -> "create"
                               [] Kind(o) = "publish" -> "read"
             /\ Kind(o) \in {"current", "create", "publish"}
  <2>1. Kind(o) \in {"current", "create", "publish"}
    BY DEF Kind, Task
  <2>2. FirstPc(o) \in {"meta", "create", "read"}
    BY <2>1 DEF FirstPc, Kind
  <2>3. Fresh(o) \in OperationState
    BY <1>1, <2>2 DEF Fresh, OperationState, ReadPc, CreatePc, PublishPc, NoMeta
  <2> QED BY <2>1, <2>3 DEF FirstPc, Kind
<1>3. OpTyped
  BY <1>2 DEF OpTyped
<1>4. StoreTyped /\ CacheTyped
  <2>1. StoreTyped
    BY <1>1 DEF StoreTyped, StoreInit, Configs
  <2> QED BY <1>1, <2>1 DEF CacheTyped
<1>5. LiveOpsTypeOK
  BY <1>3, <1>4, Types
<1>6. \A v \in Version : v \in Nat /\ v >= 1
  BY DEF Version
<1>7. StoreInv
  <2>1. CASE meta = NoMeta /\ configs = NoConfigs /\ reached = [v \in Version |-> Never]
    BY <1>6, <2>1 DEF StoreInv, NoConfigs, NoMeta
  <2>2. CASE /\ meta = Created
             /\ configs = [v \in Version |-> IF v = 1 THEN Daily ELSE NoConfig]
             /\ reached = [v \in Version |-> IF v = 1 THEN 0 ELSE Never]
    BY <1>6, <2>2 DEF StoreInv, Created
  <2> QED BY <2>1, <2>2 DEF StoreInit
<1>8. CacheInv
  <2>1. NoEntry.meta.version = 0 /\ NoEntry.exp = 0
    BY DEF NoEntry, NoMeta
  <2>2. 0 <= now + TTL /\ \A v \in Version : 0 <= reached[v] + TTL /\ 0 <= reached[v] + 2 * TTL
    BY <1>4, Numbers
  <2>3. 0 <= meta.version
    BY <1>4 DEF StoreTyped, Header
  <2> QED BY <1>6, <2>1, <2>2, <2>3 DEF CacheInv, NoConfigs
<1>9. ASSUME NEW o \in Operation
      PROVE  OpInv(o) /\ op[o].pc # "first" /\ ~Owner(o)
  <2>1. /\ op[o].pc = FirstPc(o) /\ op[o].asked = 0 /\ op[o].answer = "none"
    BY <1>2 DEF Fresh
  <2> QED BY <1>2, <2>1 DEF OpInv, Owner, Ok
<1> QED BY <1>5, <1>7, <1>8, <1>9 DEF LInv, Apart

LEMMA Stuttering ==
  ASSUME LInv, UNCHANGED liveVars
  PROVE  LInv'
<1>1. UNCHANGED <<storeVars, cacheVars, op, now>>
  BY DEF liveVars
<1>2. /\ meta' = meta /\ configs' = configs /\ reached' = reached /\ now' = now /\ op' = op
      /\ kvMeta' = kvMeta /\ memMeta' = memMeta
      /\ kvConfigs' = kvConfigs /\ memConfigs' = memConfigs
  BY <1>1 DEF storeVars, cacheVars
<1> QED BY <1>2 DEF LInv, LiveOpsTypeOK, StoreInv, CacheInv, OpInv, Timely, Holds, Ok,
                    Apart, Owner, Never

(* Every step preserves the invariant. *)
LEMMA Inductive ==
  ASSUME LInv, [LiveOpsNext]_liveVars
  PROVE  LInv'
<1>1. CASE UNCHANGED liveVars
  BY <1>1, Stuttering
<1>2. CASE Tick
  BY <1>2, TickKeeps
<1>3. ASSUME NEW o \in Operation, Work(o) PROVE LInv'
  <2>1. CASE GetMeta(o)
    BY <2>1, MetaHitKeeps, MetaSharedKeeps, MetaLoadKeeps, RememberKeeps DEF GetMeta
  <2>2. CASE GetConfig(o)
    BY <2>2, ConfigHitKeeps, ConfigSharedKeeps, ConfigFetchKeeps, ConfigHoldKeeps DEF GetConfig
  <2>3. CASE Create(o)
    BY <2>3, CreateMetaKeeps, CreateLostKeeps, PutFirstKeeps DEF Create
  <2>4. CASE PublishConfig(o)
    BY <2>4, PublishReadKeeps, PublishTakenKeeps, PublishPutKeeps, PublishPointKeeps,
       PublishForgetKeeps DEF PublishConfig
  <2>5. CASE StoreFails(o)
    BY <2>5, StoreFailsKeeps
  <2> QED BY <1>3, <2>1, <2>2, <2>3, <2>4, <2>5 DEF Work
<1> QED BY <1>1, <1>2, <1>3 DEF LiveOpsNext

LEMMA Always == LiveOpsSpec => []LInv
<1>1. LiveOpsInit => LInv
  BY Initially
<1>2. LInv /\ [LiveOpsNext]_liveVars => LInv'
  BY Inductive
<1> QED BY <1>1, <1>2, PTL DEF LiveOpsSpec

(* Every state is well typed. *)
THEOREM LiveOpsTyped == LiveOpsSpec => []LiveOpsTypeOK
<1>1. LInv => LiveOpsTypeOK
  BY DEF LInv
<1> QED BY <1>1, Always, PTL

(* Every copy of a config, in a server, in the shared cache or in an answer,  *)
(* is the config stored under its version: PutConfig never overwrites, and  *)
(* no cache is filled with anything but what PutConfig stored.              *)
THEOREM CopiesAreTrue == LiveOpsSpec => []CachesAgree
<1>1. LInv => CachesAgree
  <2> SUFFICES ASSUME LInv PROVE CachesAgree
    OBVIOUS
  <2>1. /\ \A v \in Version : kvConfigs[v] \in {NoConfig, configs[v]}
        /\ \A s \in Server, v \in Version : memConfigs[s][v] \in {NoConfig, configs[v]}
    BY DEF LInv, CacheInv
  <2>2. ASSUME NEW o \in Operation
        PROVE  /\ op[o].pc = "hold" => op[o].version \in Version
               /\ Ok(o) \/ op[o].pc = "hold" =>
                    /\ op[o].content = configs[op[o].version]
                    /\ op[o].content # NoConfig
    BY Basics, Numbers DEF OpInv, Holds, Version
  <2> QED BY <2>1, <2>2 DEF CachesAgree
<1> QED BY <1>1, Always, PTL

(* The config a run was started with is the one every server replays it      *)
(* against, for ever: an answer's version is stored, and copies are true.   *)
THEOREM ReplaysStayFaithful == LiveOpsSpec => []ReplaysAreFaithful
<1>1. LInv => ReplaysAreFaithful
  <2> SUFFICES ASSUME LInv, NEW o \in Operation, Ok(o), NEW s \in Server
               PROVE  Findable(s, op[o].version) = {op[o].content}
    BY DEF ReplaysAreFaithful
  <2>1. Holds(o, op[o].version, op[o].content)
    BY Basics DEF OpInv
  <2>2. op[o].version \in Version
    BY <2>1, Basics, Numbers DEF Holds, Version
  <2>3. /\ kvConfigs[op[o].version] \in {NoConfig, op[o].content}
        /\ memConfigs[s][op[o].version] \in {NoConfig, op[o].content}
    BY <2>1, <2>2, Basics DEF CacheInv, Holds
  <2> QED BY <2>1, <2>3 DEF Findable, Holds
<1> QED BY <1>1, Always, PTL

(* A publication that succeeded owns its version number and the pointer is   *)
(* there or beyond, whatever other publishers do and whatever fails.        *)
THEOREM PublicationsStand == LiveOpsSpec => []PublishedStaysCurrent
<1>1. LInv => PublishedStaysCurrent
  <2> SUFFICES ASSUME LInv, NEW o \in Published
               PROVE  /\ op[o].version <= meta.version
                      /\ configs[op[o].version] = Agenda[o].content
                      /\ \A p \in Published : op[p].version = op[o].version => p = o
    BY DEF PublishedStaysCurrent
  <2>1. o \in Operation /\ Kind(o) = "publish" /\ Ok(o)
    BY DEF Published, Kind
  <2>2. Holds(o, op[o].version, op[o].content) /\ op[o].content = Agenda[o].content
    BY <2>1, Basics DEF OpInv
  <2>3. op[o].version <= meta.version
    BY <2>1, <2>2, Basics, Numbers DEF Holds
  <2>4. ASSUME NEW p \in Published, p # o PROVE op[p].version # op[o].version
    <3>1. p \in Operation /\ Owner(p) /\ Owner(o)
      BY <2>1 DEF Published, Owner, Kind
    <3> QED BY <2>1, <2>4, <3>1 DEF LInv, Apart
  <2> QED BY <2>2, <2>3, <2>4 DEF Holds
<1> QED BY <1>1, Always, PTL

(* Whoever asks two cache lifetimes after the pointer moved is not answered   *)
(* with an older version: one lifetime in the shared cache, and one more in  *)
(* a server that copied it from there.                                      *)
THEOREM NewRunsAreFresh == LiveOpsSpec => []NewRunsPickUpPublished
<1>1. LInv => NewRunsPickUpPublished
  <2> SUFFICES ASSUME LInv, NEW o \in Operation, NEW v \in Version, Kind(o) = "current", Ok(o),
                      reached[v] + 2 * TTL <= op[o].asked
               PROVE  op[o].version >= v
    BY DEF NewRunsPickUpPublished, Kind
  <2>1. Timely(o)
    BY Basics DEF OpInv
  <2>2. ~(op[o].version < v)
    BY <2>1, Basics, Numbers DEF Timely
  <2> QED BY <2>2, Basics, Numbers
<1> QED BY <1>1, Always, PTL
=============================================================================
