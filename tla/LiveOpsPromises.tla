---------------------------- MODULE LiveOpsPromises ----------------------------
(***************************************************************************)
(* What the LiveOps service promises: the properties of LiveOps.           *)
(***************************************************************************)
EXTENDS LiveOps

Header == [version : 0..MaxVersion, distributed : BOOLEAN]
Entry == [meta : Header, exp : 0..(MaxNow + TTL)]
Configs == [Version -> Content \cup {NoConfig}]
OperationState ==
  [pc : ReadPc \cup CreatePc \cup PublishPc \cup {"done"}, attempt : 0..(MaxAttempts - 1),
   seen : Header, version : 0..(MaxVersion + 1), content : Content \cup {NoConfig},
   asked : 0..MaxNow,
   answer : {"none", "ok", "notfound", "exists", "exhausted", "failed"}]

(* Types of the header, the configs, their caches and the operations. *)
LiveOpsTypeOK ==
  /\ meta \in Header
  /\ configs \in Configs
  /\ kvMeta \in Entry /\ memMeta \in [Server -> Entry]
  /\ kvConfigs \in Configs /\ memConfigs \in [Server -> Configs]
  /\ op \in [Operation -> OperationState]
  /\ now \in 0..MaxNow
  /\ reached \in [Version -> 0..Never]

Ok(o) == op[o].answer = "ok"

(* A finish replays against exactly the config that its start was given     *)
(* (ADR-007): from then on GetConfig returns that config on every server,   *)
(* from whichever cache or the store, whatever is created or published.     *)
Findable(s, v) == {memConfigs[s][v], kvConfigs[v], configs[v]} \ {NoConfig}
ReplaysAreFaithful ==
  \A o \in Operation : (Agenda[o].kind = "current" /\ Ok(o)) =>
    \A s \in Server : Findable(s, op[o].version) = {op[o].content}

(* Configs are cached forever without invalidation (package liveops): every  *)
(* copy, in a server, in the shared cache or in an answer, is the config    *)
(* stored under its version.                                                *)
CachesAgree ==
  /\ \A v \in Version : kvConfigs[v] \in {NoConfig, configs[v]}
  /\ \A s \in Server, v \in Version : memConfigs[s][v] \in {NoConfig, configs[v]}
  /\ \A o \in Operation :
       /\ op[o].pc = "hold" => op[o].version \in Version
       /\ Ok(o) \/ op[o].pc = "hold" =>
            /\ op[o].content = configs[op[o].version]
            /\ op[o].content # NoConfig

(* Two publications never share a version number, and the pointer never      *)
(* falls behind one that succeeded (LiveOps.PublishConfig), whatever else   *)
(* publishes and whatever fails.                                            *)
Published == {o \in Operation : Agenda[o].kind = "publish" /\ Ok(o)}
PublishedStaysCurrent ==
  \A o \in Published :
    /\ op[o].version <= meta.version
    /\ configs[op[o].version] = Agenda[o].content
    /\ \A p \in Published : op[p].version = op[o].version => p = o

(* New runs pick up a new version (ADR-007): who asks for the current event  *)
(* two cache lifetimes after the pointer moved does not get an older one.   *)
NewRunsPickUpPublished ==
  \A o \in Operation, v \in Version :
    (Agenda[o].kind = "current" /\ Ok(o) /\ reached[v] + 2 * TTL <= op[o].asked)
      => op[o].version >= v

(* liveops/service.go: "concurrent publisher won this version number; take   *)
(* the next": a publisher that finds its number taken gets another one.     *)
PublisherTakesTheNext == \A o \in Operation : op[o].answer # "exhausted"
=============================================================================
