-------------------------- MODULE ResponsePipeline --------------------------
(***************************************************************************)
(* What ProxyManager does with an upstream's reply: shape, compress (with  *)
(* the pending store and the ladder of fallbacks), surface, index,         *)
(* extract, count, and cache.  Calls of one tool with one set of           *)
(* arguments, so one cache row; the connection and the stampede lock are   *)
(* those of GuardedCalls.                                                  *)
(***************************************************************************)
EXTENDS Naturals, FiniteSets

CONSTANTS PipelineCalls,     \* concurrent calls
          PipelineSettings,  \* [caching, strategy, structured, persists, index, extract]
          Replies,           \* [kind, big, secret]
          MaxJobs            \* _background_tasks' cap

ASSUME PipelineAssumption ==
  /\ MaxJobs \in Nat /\ PipelineSettings # {}
  /\ Replies \subseteq [kind : STRING, big : BOOLEAN, secret : BOOLEAN]

\* A compressed body: its form ("full" text, "cut" text, a "page" or a "toc" that point
\* into the pending store) and what the pending store answered on the way to it.
Body(form, met) == [form |-> form, met |-> met]

NoRow == [form |-> "none", met |-> {}, mixed |-> FALSE, index |-> "off", extract |-> "off"]

VARIABLES run,    \* the calls
          row,    \* the cache row
          jobs,   \* background stages that run
          closing \* _stopping

pipelineVars == <<run, row, jobs, closing>>

\* index and extract: "off", "done" (also for content that must not be kept), "lost"
\* (failed or shed) or "under way" in the background.
Fresh(s) == [step |-> "done", set |-> s, secret |-> FALSE, mixed |-> FALSE, body |-> Body("none", {}),
             index |-> "off", extract |-> "off", hit |-> FALSE, missed |-> FALSE,
             unstorable |-> FALSE, stored |-> FALSE, rows |-> 0, left |-> TRUE]

PipelineInit == /\ run = [c \in PipelineCalls |-> Fresh(CHOOSE s \in PipelineSettings : TRUE)] /\ row = NoRow
                /\ jobs = [s \in {"index", "extract"} |-> 0] /\ closing = FALSE
-----------------------------------------------------------------------------
(* Compression.                                                            *)

\* _apply_progressive: an envelope that does not fit, a store that refuses credentials
\* on disk, one that fails, or a page.
PageEnds(s, secret) ==
  (IF s.structured THEN {"budget"} ELSE {})
    \cup (IF s.persists /\ secret THEN {"refused"} ELSE {"page", "failed"})

\* SELECTIVE and HYBRID: a table, text that needs none, or the store's refusal or failure.
TocEnds(s, secret) ==
  (IF s.structured THEN {"budget"} ELSE {})
    \cup (IF s.persists /\ secret THEN {"cut", "refused"} ELSE {"cut", "toc", "failed"})

Undeliverable == Body("undeliverable", {})

ProgressiveBodies(s, r) ==
  IF ~r.big THEN {Body("full", {})}
  ELSE {CASE e = "page" -> Body("page", {})
          [] e = "budget" -> Undeliverable
          [] e = "refused" -> Body("full", {"pageRefused"})
          [] e = "failed" -> Body("full", {"pageFailed"}) : e \in PageEnds(s, r.secret)}

\* A table that exceeds the budget becomes a page; what the store then answers is the
\* table's own refusal or failure.
TocBodies(s, r) ==
  LET ends == TocEnds(s, r.secret)
      pages == IF "budget" \in ends THEN PageEnds(s, r.secret) ELSE {}
  IN {CASE e \in {"page", "toc", "cut"} -> Body(e, {})
        [] e = "refused" -> Body("cut", {"tocRefused"})
        [] e = "failed" -> Body("cut", {"tocFailed"})
        [] e = "budget" -> Undeliverable : e \in (ends \ {"budget"}) \cup pages}

\* The ladder under a body that fell short of the retention floor: a page, a hybrid that
\* keeps enough, a truncation.
LadderBodies(s, r) ==
  LET pages == IF r.big THEN PageEnds(s, r.secret) ELSE {"small"}
      page == {Body("page", {}) : e \in pages \cap {"page"}}
      spent(e) == IF e = "refused" THEN {"ladderRefused"} ELSE IF e = "failed" THEN {"ladderFailed"} ELSE {}
      hybrids == IF s.structured \/ s.strategy = "hybrid" THEN {"cut"} ELSE TocEnds(s, r.secret)
  IN page \cup {Body(IF h = "toc" THEN "toc" ELSE "cut", spent(e) \cup spent(h)) :
                  e \in pages \ {"page"}, h \in hybrids}

\* The guard leaves a table of SELECTIVE, a degraded body and a structured envelope alone.
FallsShort(s, b) ==
  /\ s.strategy # "selective" /\ b.met = {}
  /\ b.form \in (IF s.structured THEN {"cut"} ELSE {"cut", "toc"})

Deliveries(s, r) ==
  IF s.strategy = "progressive" THEN ProgressiveBodies(s, r)
  ELSE LET first == IF s.strategy = "plain" THEN {Body("cut", {}), Body("full", {})} ELSE TocBodies(s, r)
       IN first \cup UNION {LadderBodies(s, r) : b \in {f \in first : FallsShort(s, f)}}

\* The flags of CompressionResult that _store_cache reads.
(* A bug: what the store refuses the ladder is forgotten.                  *)
RefusedAtFirst(b) == b.met \cap {"pageRefused", "tocRefused"} # {}

CredentialRefused(b) == b.met \cap {"pageRefused", "tocRefused", "ladderRefused"} # {}
Degraded(b) == b.met \cap {"pageFailed", "pageRefused", "tocFailed", "tocRefused"} # {}
CarriesKey(b) == b.form \in {"page", "toc"}
-----------------------------------------------------------------------------
(* The ends of a call.                                                     *)

\* What is kept of a call: how it was counted.
EndedCall(k) == [Fresh(CHOOSE s \in PipelineSettings : TRUE) EXCEPT
               !.hit = k.hit, !.missed = k.missed, !.unstorable = k.unstorable,
               !.stored = k.stored, !.rows = k.rows, !.left = k.left]

End(c, k) == run' = [run EXCEPT ![c] = EndedCall(k)]

\* _invalidate_disabled_cache
RowAfter(s) == IF s.caching = "off" THEN NoRow ELSE row

\* _record_unstorable_response counts an eligible call's response once.
Counted(k) == [k EXCEPT !.rows = @ + 1, !.unstorable = k.set.caching = "on"]

\* A response that is recorded where it is returned or raised.
EndsRecorded(c) == /\ End(c, [run[c] EXCEPT !.rows = @ + 1])
                   /\ row' = RowAfter(run[c].set) /\ UNCHANGED <<jobs, closing>>

\* An exception nobody recorded: call_tool records it, once.
Raises(c) == EndsRecorded(c)

\* ttl off: the row of an earlier positive TTL is removed, whatever is returned.
EndsUnstorable(c) == /\ End(c, Counted(run[c])) /\ row' = RowAfter(run[c].set)
                     /\ UNCHANGED <<jobs, closing>>
-----------------------------------------------------------------------------

\* The stampede lock of the row.
Free == ~\E d \in PipelineCalls : run[d].step # "done" /\ run[d].set.caching = "on" /\ ~run[d].hit

CallEnters(c, s) ==
  /\ run[c].step = "done" /\ ~closing
  /\ LET k == [Fresh(s) EXCEPT !.left = FALSE]
     IN IF s.caching = "on"
        THEN \/ row # NoRow /\ run' = [run EXCEPT ![c] = [k EXCEPT !.step = "surfacing", !.hit = TRUE]]
             \/ row = NoRow /\ Free /\ run' = [run EXCEPT ![c] = [k EXCEPT !.step = "fetching", !.missed = TRUE]]
        ELSE run' = [run EXCEPT ![c] = [k EXCEPT !.step = "fetching"]]
  /\ UNCHANGED <<row, jobs, closing>>

HitReturns(c) == /\ run[c].step = "surfacing" /\ run[c].hit /\ End(c, run[c])
                 /\ UNCHANGED <<row, jobs, closing>>

\* The fetch failed, or the manager stopped meanwhile.
FetchRaises(c) == run[c].step = "fetching" /\ Raises(c)

FetchReturns(c, r) ==
  /\ run[c].step = "fetching" /\ ~closing
  /\ \/ r.kind \in {"oversize", "error"} /\ EndsRecorded(c)
     \/ r.kind \in {"bypass", "empty"} /\ EndsUnstorable(c)
     \/ /\ r.kind \in {"text", "mixed"}
        /\ \E b \in Deliveries(run[c].set, r) :
             run' = [run EXCEPT ![c] = [@ EXCEPT !.step = "compressing", !.secret = r.secret,
                                                 !.mixed = r.kind = "mixed", !.body = b]]
        /\ UNCHANGED <<row, jobs, closing>>

\* A lock that timed out, or an error outside the store.
CompressionRaises(c) == run[c].step = "compressing" /\ Raises(c)

\* DeliveryError: no envelope fits the budget.
CompressionUndeliverable(c) ==
  run[c].step = "compressing" /\ run[c].body = Undeliverable /\ EndsRecorded(c)

Compressed(c) ==
  /\ run[c].step = "compressing" /\ run[c].body # Undeliverable
  /\ run' = [run EXCEPT ![c].step = "surfacing"] /\ UNCHANGED <<row, jobs, closing>>
-----------------------------------------------------------------------------
(* Caching, the last stage.                                                *)

RetryRequired(k) == k.index \in {"lost", "under way"} \/ k.extract \in {"lost", "under way"}

Row(k) == [form |-> k.body.form, met |-> k.body.met, mixed |-> k.mixed,
           index |-> k.index, extract |-> k.extract]

\* A row that may stand for the body: text, whole, and without a key that dies first.
Storable(k) == ~CredentialRefused(k.body) /\ ~Degraded(k.body) /\ ~CarriesKey(k.body)

\* _store_cache after the row of metrics, in the order of its returns.
Stores(c, k) ==
  \/ \* the reply came on another connection than the key's
     End(c, Counted(k)) /\ row' = RowAfter(k.set)
  \/ RetryRequired(k) /\ End(c, Counted(k)) /\ UNCHANGED row
  \/ ~RetryRequired(k) /\ k.mixed /\ End(c, Counted(k)) /\ row' = RowAfter(k.set)
  \/ /\ ~RetryRequired(k) /\ ~k.mixed
     /\ \/ k.set.caching # "on" /\ End(c, [k EXCEPT !.rows = @ + 1]) /\ row' = RowAfter(k.set)
        \/ k.set.caching = "on" /\ ~Storable(k) /\ End(c, Counted(k)) /\ UNCHANGED row
        \/ /\ k.set.caching = "on" /\ Storable(k)
           /\ \/ End(c, [k EXCEPT !.rows = @ + 1, !.stored = TRUE]) /\ row' = Row(k)
              \/ End(c, [k EXCEPT !.rows = @ + 1]) /\ UNCHANGED row   \* set() failed
-----------------------------------------------------------------------------
(* Surfacing, indexing and extraction.                                     *)

\* _spawn_background sheds at the cap and while stopping.
Sheds(j) == closing \/ j["index"] + j["extract"] >= MaxJobs
Spawned(j, stage) == IF Sheds(j) THEN j ELSE [j EXCEPT ![stage] = @ + 1]
Started(j) == IF Sheds(j) THEN "lost" ELSE "under way"

Extracts(c, k, j) ==
  /\ UNCHANGED closing
  /\ \/ k.set.extract = "off" /\ Stores(c, k) /\ jobs' = j
     \/ /\ k.set.extract = "background"
        /\ Stores(c, [k EXCEPT !.extract = Started(j)]) /\ jobs' = Spawned(j, "extract")
     \/ /\ k.set.extract = "inline" /\ jobs' = j /\ UNCHANGED row
        /\ run' = [run EXCEPT ![c] = [k EXCEPT !.step = "extracting"]]

\* Surfacing never fails the call.  Indexing in the background leaves out content that
\* matches a privacy pattern.
Surfaced(c) ==
  LET k == run[c]
  IN /\ k.step = "surfacing" /\ ~k.hit
     /\ \/ k.set.index = "off" /\ Extracts(c, k, jobs)
        \/ k.set.index = "background" /\ k.secret /\ Extracts(c, [k EXCEPT !.index = "done"], jobs)
        \/ /\ k.set.index = "background" /\ ~k.secret
           /\ Extracts(c, [k EXCEPT !.index = Started(jobs)], Spawned(jobs, "index"))
        \/ /\ k.set.index = "inline" /\ UNCHANGED <<row, jobs, closing>>
           /\ run' = [run EXCEPT ![c].step = "indexing"]

\* The LTM indexed the response, or did not; the response is returned either way.
Indexed(c) ==
  /\ run[c].step = "indexing"
  /\ \E end \in {"done", "lost"} : Extracts(c, [run[c] EXCEPT !.index = end], jobs)

\* Inline extraction that finds the manager stopping is lost.
Extracted(c) ==
  /\ run[c].step = "extracting" /\ UNCHANGED <<jobs, closing>>
  /\ \E end \in IF closing THEN {"lost"} ELSE {"done", "lost"} : Stores(c, [run[c] EXCEPT !.extract = end])

\* The extractor's lock timed out: the one failure of the stage that fails the call.
ExtractionRaises(c) == run[c].step = "extracting" /\ Raises(c)

CallCancelled(c) == /\ run[c].step # "done" /\ End(c, [run[c] EXCEPT !.left = TRUE])
                /\ UNCHANGED <<row, jobs, closing>>

JobEnds(stage) == /\ jobs[stage] > 0 /\ jobs' = [jobs EXCEPT ![stage] = @ - 1]
                  /\ UNCHANGED <<run, row, closing>>
TtlEnds == row # NoRow /\ row' = NoRow /\ UNCHANGED <<run, jobs, closing>>
Stopping == ~closing /\ closing' = TRUE /\ UNCHANGED <<run, row, jobs>>

PipelineNext ==
  \/ \E c \in PipelineCalls :
       \/ \E s \in PipelineSettings : CallEnters(c, s)
       \/ \E r \in Replies : FetchReturns(c, r)
       \/ HitReturns(c) \/ FetchRaises(c) \/ CompressionRaises(c) \/ CompressionUndeliverable(c)
       \/ Compressed(c) \/ Surfaced(c) \/ Indexed(c) \/ Extracted(c) \/ ExtractionRaises(c)
       \/ CallCancelled(c)
  \/ \E stage \in {"index", "extract"} : JobEnds(stage)
  \/ TtlEnds \/ Stopping

PipelineSpec == PipelineInit /\ [][PipelineNext]_pipelineVars
-----------------------------------------------------------------------------
(* A hit skips everything after the fetch, so a row stands only for a body *)
(* that lost nothing: whole text, no key into the pending store, none that *)
(* the store refused or failed to keep (the ladder's failed attempts       *)
(* aside, which leave what the settings deliver without it), indexed and   *)
(* extracted if its settings ask for it.                                   *)
RowIsWhole ==
  row # NoRow =>
    /\ row.form \in {"full", "cut"} /\ ~row.mixed /\ row.met \subseteq {"ladderFailed"}
    /\ row.index \in {"off", "done"} /\ row.extract \in {"off", "done"}

(* Every call that ends by itself left one row of metrics or one hit,      *)
(* wherever it ended; a cancelled one left none.                           *)
OneRowPerCall ==
  \A c \in PipelineCalls :
    run[c].step = "done" => run[c].rows = IF run[c].left \/ run[c].hit THEN 0 ELSE 1

(* The responses counted as unstorable are among the misses, so that their *)
(* difference is what the cache could have kept.                           *)
MissesConvert ==
  \A c \in PipelineCalls :
    /\ run[c].unstorable => run[c].missed /\ ~run[c].stored
    /\ run[c].stored => run[c].missed

(* What becomes of a response: cached only whole, counted once, and never  *)
(* with more background stages than the cap.                               *)
PipelineIsSound ==
  RowIsWhole /\ OneRowPerCall /\ MissesConvert /\ jobs["index"] + jobs["extract"] <= MaxJobs
=============================================================================
