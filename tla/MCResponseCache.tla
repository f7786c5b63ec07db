--------------------------- MODULE MCResponseCache ---------------------------
(***************************************************************************)
(* The response cache's file and what is kept there of a response, side by *)
(* side: a behaviour moves one and leaves the other as it began.           *)
(*                                                                         *)
(* The file: a process of the current build, one of a build with an older  *)
(* policy that misses a secret, and one whose triggers miss writes as well. *)
(***************************************************************************)
EXTENDS ResponseCache, ResponsePipeline, TLC

CONSTANTS new, old, older, plain, secret, toc, newPolicy, oldPolicy, newSql, oldSql

VARIABLE part

MCProcesses == {new, old, older}
MCBodies == {plain, secret, toc}
MCPolicyOf == [p \in MCProcesses |-> IF p \in {old, older} THEN oldPolicy ELSE newPolicy]
MCTriggersOf == [p \in MCProcesses |-> IF p = older THEN oldSql ELSE newSql]
MCSensitive == [P \in {newPolicy, oldPolicy} |-> IF P = newPolicy THEN {secret} ELSE {}]
MCPolicies == {newPolicy, oldPolicy}
MCTriggerTexts == {newSql, oldSql}
MCTransient == {toc}
MCCareful == {newPolicy}
MCTracking == {newSql}

\* Every strategy, store and stage once, and each cache setting; replies that differ in
\* what the stages branch on.
Setting(caching, strategy, structured, persists, index, extract) ==
  [caching |-> caching, strategy |-> strategy, structured |-> structured, persists |-> persists,
   index |-> index, extract |-> extract]
SettingSet == {Setting("on", "progressive", FALSE, TRUE, "off", "off"),
               Setting("on", "hybrid", TRUE, TRUE, "background", "inline"),
               Setting("on", "selective", TRUE, FALSE, "off", "off"),
               Setting("on", "plain", FALSE, TRUE, "inline", "off"),
               Setting("off", "selective", TRUE, FALSE, "inline", "background"),
               Setting("ineligible", "hybrid", FALSE, FALSE, "off", "background")}
ReplySet == {[kind |-> "text", big |-> TRUE, secret |-> s] : s \in BOOLEAN}
              \cup {[kind |-> k, big |-> FALSE, secret |-> FALSE] : k \in {"text", "mixed", "error", "bypass"}}

cacheVars == vars
parts == <<part, cacheVars, pipelineVars>>

CachesInit == /\ part \in {"cache", "pipeline"} /\ Init /\ PipelineInit
              /\ part # "cache" => rows = [k \in Keys |-> None] /\ ~outdated

Moves(name, A) == part = name /\ A /\ UNCHANGED part

CachesNext == \/ Moves("cache", Next) /\ UNCHANGED pipelineVars
              \/ Moves("pipeline", PipelineNext) /\ UNCHANGED cacheVars

CachesSpec ==
  /\ CachesInit /\ [][CachesNext]_parts
  /\ \A p \in Processes : WF_parts(Moves("cache", RepairStep(p)) /\ UNCHANGED pipelineVars)
=============================================================================
