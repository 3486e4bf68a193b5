-------------------------------- MODULE LiveOps --------------------------------
(***************************************************************************)
(* One event of the LiveOps service: its header (META, with the pointer to *)
(* the live config version and the rewards flag), its config versions, the *)
(* shared KV cache and the in-process caches of every server.              *)
(* Operations are sequences of store and cache calls that interleave; any  *)
(* store call may fail, or take effect and lose its answer.                *)
(***************************************************************************)
EXTENDS Integers, FiniteSets

CONSTANTS
  Server,       \* processes with caches of their own
  Operation,    \* operations on the event
  Agenda,       \* Agenda[o]: what operation o is, and on which server
  Content,      \* what a config may say
  Daily,        \* engine.DefaultConfig of the day
  NoConfig,     \* no such config
  MaxVersion,   \* bound: versions a config can be stored under
  MaxAttempts,  \* the five attempts of PublishConfig
  TTL,          \* metaTTL
  MaxNow,       \* bound on the clock
  Faults        \* what goes wrong: "error" a store call, "acklost" its answer, "kv" the
                \* shared cache; "full": other events fill the servers' config maps

Version == 1..MaxVersion

(* current: Current, behind GET /v1/events/current and POST /v1/heists/start. *)
(* create, publish: the admin's Create and PublishConfig.                     *)
Task ==
  [kind : {"current"}, at : Server] \cup
  [kind : {"create", "publish"}, at : Server, content : Content]

ASSUME LiveOpsAssumption ==
  /\ Agenda \in [Operation -> Task]
  /\ Daily \in Content /\ NoConfig \notin Content
  /\ MaxVersion \in Nat \ {0} /\ MaxAttempts \in Nat \ {0}
  /\ TTL \in Nat \ {0} /\ MaxNow \in Nat
  /\ Faults \subseteq {"error", "acklost", "kv", "full"}

VARIABLES
  meta,         \* the header in the store; version 0: it does not exist
  configs,      \* configs[v]: the config stored as version v
  kvMeta,       \* the header in the shared cache
  kvConfigs,    \* the configs in the shared cache
  memMeta,      \* memMeta[s]: the header in server s
  memConfigs,   \* memConfigs[s]: the configs in server s
  op,           \* op[o]: where operation o stands
  now,          \* the clock
  reached       \* history: reached[v] is when the pointer first was at v or beyond

storeVars == <<meta, configs, reached>>
cacheVars == <<kvMeta, kvConfigs, memMeta, memConfigs>>
liveVars == <<storeVars, cacheVars, op, now>>

NoMeta == [version |-> 0, distributed |-> FALSE]
NoEntry == [meta |-> NoMeta, exp |-> 0]
NoConfigs == [v \in Version |-> NoConfig]
Never == MaxNow + 1

ReadPc == {"meta", "remember", "config", "hold"}
CreatePc == {"create", "first"}
PublishPc == {"read", "put", "point", "forget"}
FirstPc(o) == CASE Agenda[o].kind = "current" -> "meta"
                [] Agenda[o].kind = "create" -> "create"
                [] Agenda[o].kind = "publish" -> "read"
Fresh(o) == [pc |-> FirstPc(o), attempt |-> 0, seen |-> NoMeta, version |-> 0,
             content |-> NoConfig, asked |-> 0, answer |-> "none"]

(* The servers start with cold caches, before the first event or beside the  *)
(* one that was created earlier.                                             *)
Created == [version |-> 1, distributed |-> FALSE]
StoreInit ==
  \/ /\ meta = NoMeta
     /\ configs = NoConfigs
     /\ reached = [v \in Version |-> Never]
  \/ /\ meta = Created
     /\ configs = [v \in Version |-> IF v = 1 THEN Daily ELSE NoConfig]
     /\ reached = [v \in Version |-> IF v = 1 THEN 0 ELSE Never]
LiveOpsInit ==
  /\ StoreInit
  /\ kvMeta = NoEntry
  /\ kvConfigs = NoConfigs
  /\ memMeta = [s \in Server |-> NoEntry]
  /\ memConfigs = [s \in Server |-> NoConfigs]
  /\ op = [o \in Operation |-> Fresh(o)]
  /\ now = 0

Move(o, pc) == op' = [op EXCEPT ![o].pc = pc]
(* Nothing but the answer outlives an operation. *)
Ended(o, answer, version, content) ==
  op' = [op EXCEPT ![o] =
           [pc |-> "done", attempt |-> 0, seen |-> NoMeta, version |-> version,
            content |-> content, asked |-> op[o].asked, answer |-> answer]]
Finished(o, answer) == Ended(o, answer, 0, NoConfig)
Home(o) == Agenda[o].at

(* An entry is served until it expires. *)
Alive_OneTooLong(entry) == entry.meta.version # 0 /\ entry.exp >= now
Alive_Forever(entry) == entry.meta.version # 0
Alive(entry) == entry.exp > now

(* The header an operation goes on with, and the version it is about. *)
Seeing(o, pc, header, version) ==
  op' = [op EXCEPT ![o] =
           [pc |-> pc, attempt |-> op[o].attempt, seen |-> header,
            version |-> version, content |-> op[o].content,
            asked |-> IF Agenda[o].kind = "current" THEN now ELSE 0,
            answer |-> op[o].answer]]
See(o, pc, header) == Seeing(o, pc, header, header.version)

-----------------------------------------------------------------------------
(* GetMeta: the server's cache, the shared cache, the store. *)

MetaHit(o) ==
  /\ op[o].pc = "meta"
  /\ Alive(memMeta[Home(o)])
  /\ See(o, "config", memMeta[Home(o)].meta)
  /\ UNCHANGED <<storeVars, cacheVars, now>>

MetaShared(o) ==
  /\ op[o].pc = "meta"
  /\ ~Alive(memMeta[Home(o)])
  /\ Alive(kvMeta)
  /\ See(o, "config", kvMeta.meta)
  /\ memMeta' = [memMeta EXCEPT ![Home(o)] = [meta |-> kvMeta.meta, exp |-> now + TTL]]
  /\ UNCHANGED <<storeVars, kvMeta, kvConfigs, memConfigs, now>>

(* The shared cache misses what it holds when it fails. *)
MetaMissed(o) ==
  /\ op[o].pc = "meta"
  /\ ~Alive(memMeta[Home(o)])
  /\ ~Alive(kvMeta) \/ "kv" \in Faults

(* An event that does not exist is provisioned (EnsureDaily). *)
MetaLoad(o) ==
  /\ MetaMissed(o)
  /\ IF meta = NoMeta THEN Move(o, "create") ELSE See(o, "remember", meta)
  /\ UNCHANGED <<storeVars, cacheVars, now>>

(* rememberMeta and KV.Set; errors of the shared cache are dropped. *)
Remember(o, shared) ==
  /\ op[o].pc = "remember"
  /\ shared \/ "kv" \in Faults
  /\ memMeta' = [memMeta EXCEPT ![Home(o)] = [meta |-> op[o].seen, exp |-> now + TTL]]
  /\ kvMeta' = IF shared THEN [meta |-> op[o].seen, exp |-> now + TTL] ELSE kvMeta
  /\ Move(o, "config")
  /\ UNCHANGED <<storeVars, kvConfigs, memConfigs, now>>

-----------------------------------------------------------------------------
(* GetConfig: the same three places; nothing expires in the process. *)

(* rememberConfig empties the map first when, with other events, it is full. *)
KeepConfig(o, content, full) ==
  /\ full => "full" \in Faults
  /\ memConfigs' = [memConfigs EXCEPT ![Home(o)] =
       [v \in Version |-> CASE v = op[o].version -> content
                            [] v # op[o].version /\ full -> NoConfig
                            [] OTHER -> @[v]]]

Served(o, content) == Ended(o, "ok", op[o].version, content)

ConfigHit(o) ==
  /\ op[o].pc = "config"
  /\ memConfigs[Home(o)][op[o].version] # NoConfig
  /\ Served(o, memConfigs[Home(o)][op[o].version])
  /\ UNCHANGED <<storeVars, cacheVars, now>>

ConfigShared(o, full) ==
  /\ op[o].pc = "config"
  /\ memConfigs[Home(o)][op[o].version] = NoConfig
  /\ kvConfigs[op[o].version] # NoConfig
  /\ KeepConfig(o, kvConfigs[op[o].version], full)
  /\ Served(o, kvConfigs[op[o].version])
  /\ UNCHANGED <<storeVars, kvMeta, kvConfigs, memMeta, now>>

(* The shared cache misses when it fails, and after configTTL. *)
ConfigMissed(o) ==
  /\ op[o].pc = "config"
  /\ memConfigs[Home(o)][op[o].version] = NoConfig
  /\ kvConfigs[op[o].version] = NoConfig \/ "kv" \in Faults

ConfigFetch(o) ==
  /\ ConfigMissed(o)
  /\ IF configs[op[o].version] = NoConfig
     THEN Finished(o, "notfound")
     ELSE op' = [op EXCEPT ![o].pc = "hold", ![o].content = configs[op[o].version]]
  /\ UNCHANGED <<storeVars, cacheVars, now>>

ConfigHold(o, full, shared) ==
  /\ op[o].pc = "hold"
  /\ shared \/ "kv" \in Faults
  /\ KeepConfig(o, op[o].content, full)
  /\ kvConfigs' = IF shared THEN [kvConfigs EXCEPT ![op[o].version] = op[o].content]
                  ELSE kvConfigs
  /\ Served(o, op[o].content)
  /\ UNCHANGED <<storeVars, kvMeta, memMeta, now>>

-----------------------------------------------------------------------------
(* Create, by the admin or by EnsureDaily. *)

Told(answered) == answered \/ "acklost" \in Faults
Point(header) ==
  /\ meta' = header
  /\ reached' = [v \in Version |-> IF v <= header.version /\ reached[v] = Never
                                   THEN now ELSE reached[v]]
Written(o) == IF Agenda[o].kind = "current" THEN Daily ELSE Agenda[o].content

(* Events.CreateMeta, on the condition that there is no header. *)
CreateMeta(o, answered) ==
  /\ op[o].pc = "create"
  /\ meta = NoMeta
  /\ Told(answered)
  /\ Point(Created)
  /\ IF answered THEN See(o, "first", Created)
     ELSE Finished(o, "failed")
  /\ UNCHANGED <<configs, cacheVars, now>>

(* EnsureDaily then reads the header that somebody else created. *)
CreateLost(o) ==
  /\ op[o].pc = "create"
  /\ meta # NoMeta
  /\ IF Agenda[o].kind = "current" THEN Move(o, "meta") ELSE Finished(o, "exists")
  /\ UNCHANGED <<storeVars, cacheVars, now>>

(* Events.PutConfig, on the condition that there is no such version. *)
PutConfig(v, content) ==
  configs' = [configs EXCEPT ![v] = IF @ = NoConfig THEN content ELSE @]

(* A first version that exists already is not an error. *)
PutFirst(o, answered, full) ==
  /\ op[o].pc = "first"
  /\ Told(answered)
  /\ PutConfig(1, Written(o))
  /\ IF answered
     THEN /\ KeepConfig(o, Written(o), full)
          /\ IF Agenda[o].kind = "current" THEN Move(o, "config") ELSE Served(o, Written(o))
     ELSE /\ UNCHANGED memConfigs
          /\ Finished(o, "failed")
  /\ UNCHANGED <<meta, reached, kvMeta, kvConfigs, memMeta, now>>

-----------------------------------------------------------------------------
(* PublishConfig *)

PublishRead(o) ==
  /\ op[o].pc = "read"
  /\ IF meta = NoMeta THEN Finished(o, "notfound")
     ELSE Seeing(o, "put", meta, meta.version + 1)
  /\ UNCHANGED <<storeVars, cacheVars, now>>

PublishPut_Unconditional(o, answered) ==
  /\ op[o].pc = "put"
  /\ op[o].version \in Version
  /\ Told(answered)
  /\ configs' = [configs EXCEPT ![op[o].version] = Agenda[o].content]
  /\ IF answered THEN Move(o, "point") ELSE Finished(o, "failed")
  /\ UNCHANGED <<meta, reached, cacheVars, now>>
PublishPut(o, answered) ==
  /\ op[o].pc = "put"
  /\ op[o].version \in Version
  /\ configs[op[o].version] = NoConfig
  /\ Told(answered)
  /\ PutConfig(op[o].version, Agenda[o].content)
  /\ IF answered THEN Move(o, "point") ELSE Finished(o, "failed")
  /\ UNCHANGED <<meta, reached, cacheVars, now>>

(* The version number is taken: read the header again, a bounded number of times. *)
PublishTaken_GoesOn(o) ==
  /\ op[o].pc = "put"
  /\ op[o].version \in Version
  /\ configs[op[o].version] # NoConfig
  /\ Move(o, "point")
  /\ UNCHANGED <<storeVars, cacheVars, now>>
PublishTaken_CountsOn(o) ==
  /\ op[o].pc = "put"
  /\ op[o].version \in Version
  /\ configs[op[o].version] # NoConfig
  /\ op' = [op EXCEPT ![o].version = @ + 1]
  /\ UNCHANGED <<storeVars, cacheVars, now>>
PublishTaken(o) ==
  /\ op[o].pc = "put"
  /\ op[o].version \in Version
  /\ configs[op[o].version] # NoConfig
  /\ IF op[o].attempt + 1 < MaxAttempts
     THEN op' = [op EXCEPT ![o].pc = "read", ![o].attempt = @ + 1]
     ELSE Finished(o, "exhausted")
  /\ UNCHANGED <<storeVars, cacheVars, now>>

(* Events.UpdateMeta writes the whole header that was read, with the new     *)
(* pointer, whatever the header is by now.                                  *)
PublishPoint(o, answered) ==
  /\ op[o].pc = "point"
  /\ Told(answered)
  /\ Point([version |-> op[o].version, distributed |-> op[o].seen.distributed])
  /\ IF answered THEN Move(o, "forget") ELSE Finished(o, "failed")
  /\ UNCHANGED <<configs, cacheVars, now>>

(* forgetMeta, then rememberConfig *)
PublishForget(o, deleted, full) ==
  /\ op[o].pc = "forget"
  /\ deleted \/ "kv" \in Faults
  /\ memMeta' = [memMeta EXCEPT ![Home(o)] = NoEntry]
  /\ kvMeta' = IF deleted THEN NoEntry ELSE kvMeta
  /\ KeepConfig(o, Agenda[o].content, full)
  /\ Served(o, Agenda[o].content)
  /\ UNCHANGED <<storeVars, kvConfigs, now>>

-----------------------------------------------------------------------------
(* A store call fails and leaves nothing. *)
StoreFails(o) ==
  /\ "error" \in Faults
  /\ \/ MetaMissed(o) \/ ConfigMissed(o)
     \/ op[o].pc \in {"create", "first", "read", "put", "point"}
  /\ Finished(o, "failed")
  /\ UNCHANGED <<storeVars, cacheVars, now>>

(* A GetMeta that has read the header caches it within the same second. *)
Tick ==
  /\ now < MaxNow
  /\ \A o \in Operation : op[o].pc # "remember"
  /\ now' = now + 1
  /\ UNCHANGED <<storeVars, cacheVars, op>>

GetMeta(o) ==
  \/ MetaHit(o) \/ MetaShared(o) \/ MetaLoad(o)
  \/ \E shared \in BOOLEAN : Remember(o, shared)

GetConfig(o) ==
  \/ ConfigHit(o) \/ ConfigFetch(o)
  \/ \E full, shared \in BOOLEAN : ConfigShared(o, full) \/ ConfigHold(o, full, shared)

Create(o) ==
  \/ CreateLost(o)
  \/ \E answered, full \in BOOLEAN : CreateMeta(o, answered) \/ PutFirst(o, answered, full)

PublishConfig(o) ==
  \/ PublishRead(o) \/ PublishTaken(o)
  \/ \E answered \in BOOLEAN : PublishPut(o, answered) \/ PublishPoint(o, answered)
  \/ \E deleted, full \in BOOLEAN : PublishForget(o, deleted, full)

Work(o) == GetMeta(o) \/ GetConfig(o) \/ Create(o) \/ PublishConfig(o) \/ StoreFails(o)

LiveOpsNext ==
  \/ \E o \in Operation : Work(o)
  \/ Tick

LiveOpsSpec == LiveOpsInit /\ [][LiveOpsNext]_liveVars
=============================================================================
