--------------------------- MODULE SurfacingEngine ---------------------------
(***************************************************************************)
(* The calls of SurfacingEngine.surface (surfacing/engine.py) in one event *)
(* loop, with the gate of surfacing/relevance.py, the result cache of      *)
(* surfacing/cache.py and the circuit breaker they share.  A call looks    *)
(* its query up, waits for the lock of the query, and searches the LTM in  *)
(* an operation of its own that a timer may abandon.  The stretch between  *)
(* two awaits is one action; a constant set of calls, each made once.      *)
(*                                                                         *)
(* Left out: excluded tools, the draws of the holdout arm, pinned items,   *)
(* demotion, the pruning of the dedup map at 10000 entries.                *)
(***************************************************************************)
EXTENDS CircuitBreaker, Sequences, SequencesExt, FiniteSets

CONSTANTS
  Calls,        \* the calls of surface()
  Queries,      \* the cache keys: server, tool, query and project
  Memories,     \* the memories of the LTM
  RateLimit,    \* max_surfacings_per_minute
  MaxAbandoned, \* _MAX_ABANDONED_OPS
  NoRow,        \* no cached results
  Nobody        \* no holder of a lock

ASSUME EngineAssumption ==
  /\ RateLimit \in Nat \ {0} /\ MaxAbandoned \in Nat \ {0}
  /\ (\A s \in SUBSET Memories : s # NoRow) /\ Nobody \notin Calls
  /\ IsFiniteSet(Calls)

VARIABLES
  call,      \* per call: its place, its operation, its claims, what it showed
  claims,    \* RelevanceGate._surfacing_timestamps: the calls that hold a slot
  recent,    \* the queries still in their cooldown
  rows,      \* SurfacingCache: the results of each key, or NoRow
  surfaced,  \* _surfaced_ids
  inside     \* _key_locks: the call inside each key's lock

vars == <<breaker, call, claims, recent, rows, surfaced, inside>>

Running == {"scoping", "queued", "op", "recording"}

\* ready: created, not yet run; rpc: waits for the LTM; answered: the answer is
\* there; ranking and writing: awaits past the LTM; over: finished, its result
\* not yet taken; unwinding: cancelled, in the adapter
OpStates == {"none", "ready", "rpc", "answered", "ranking", "writing", "over", "unwinding"}

Outcomes == {"pending", "skip", "fault", "found"}

TypeOK ==
  /\ breaker \in Breakers
  /\ call \in [Calls -> [at: Running \cup {"idle", "done"}, query: Queries, op: OpStates,
                         fired: BOOLEAN, cut: BOOLEAN, attempted: BOOLEAN,
                         outcome: Outcomes, found: SUBSET Memories,
                         introduced: SUBSET Memories, shown: SUBSET Memories]]
  /\ claims \in Seq(Calls)
  /\ recent \subseteq Queries
  /\ rows \in [Queries -> {NoRow} \cup SUBSET Memories]
  /\ surfaced \subseteq Memories
  /\ inside \in [Queries -> Calls \cup {Nobody}]

NewCall(q) == [at |-> "idle", query |-> q, op |-> "none", fired |-> FALSE, cut |-> FALSE,
            attempted |-> FALSE, outcome |-> "pending", found |-> {},
            introduced |-> {}, shown |-> {}]

EngineInit ==
  /\ Init
  /\ \E asks \in [Calls -> Queries] : call = [c \in Calls |-> NewCall(asks[c])]
  /\ claims = <<>> /\ recent = {} /\ surfaced = {}
  /\ rows = [q \in Queries |-> NoRow]
  /\ inside = [q \in Queries |-> Nobody]

(* The operations whose caller has left and that have not finished.        *)
Abandoned ==
  {c \in Calls : call[c].at = "done" /\ call[c].op # "none"}
-----------------------------------------------------------------------------
(* The gate.                                                               *)

Admits(q) == Len(claims) < RateLimit /\ q \notin recent

(* release_claim: by identity, nothing when the window dropped it already. *)
Released(c) ==
  IF c \in ToSet(claims)
  THEN RemoveAt(claims, CHOOSE i \in DOMAIN claims : claims[i] = c) ELSE claims

(* A bug: the rate slot is kept by a call that never reached the LTM.      *)
SettledAlways(c) == claims

(* A bug: every exit hands its slot back.                                  *)
SettledNever(c) == Released(c)

(* The finally of _surface_entered.                                        *)
Settled(c) == IF call[c].attempted THEN claims ELSE Released(c)

Unlocked(c) == [q \in Queries |-> IF inside[q] = c THEN Nobody ELSE inside[q]]

(* What is left of a call that returns or raises: what it showed, what its *)
(* operation found and nobody was shown, and an operation still running.   *)
Left(c, showing) ==
  LET o == call[c].op IN
  [at |-> "done", query |-> call[c].query, op |-> IF o = "over" THEN "none" ELSE o,
   fired |-> FALSE, cut |-> FALSE, attempted |-> call[c].attempted, outcome |-> "pending",
   found |-> IF o = "over" /\ showing = {} THEN call[c].found ELSE {},
   introduced |-> IF o = "writing" THEN call[c].introduced ELSE {}, shown |-> showing]

(* The call returns or raises: its slot is settled and its lock released.  *)
Leave(c, showing) ==
  /\ call' = [call EXCEPT ![c] = Left(c, showing)]
  /\ claims' = Settled(c)
  /\ inside' = Unlocked(c)
-----------------------------------------------------------------------------
(* surface(), up to the lock of the key.                                   *)

Enter(c) ==
  /\ call[c].at = "idle"
  /\ IF ~IsOpen /\ Admits(call[c].query)
     THEN /\ claims' = Append(claims, c)
          /\ call' = [call EXCEPT ![c].at = "scoping"]
     ELSE /\ call' = [call EXCEPT ![c].at = "done"]
          /\ UNCHANGED claims
  /\ UNCHANGED <<breaker, recent, rows, surfaced, inside>>

(* _render_cached, up to the store write: what is rendered is claimed, and *)
(* what was not claimed before is this call's to give back.                *)
RenderCached(c) ==
  \E delivered \in SUBSET rows[call[c].query] :
    /\ delivered # {}
    /\ surfaced' = surfaced \cup delivered
    /\ call' = [call EXCEPT ![c].at = "recording", ![c].found = delivered,
                            ![c].introduced = delivered \ surfaced]
    /\ UNCHANGED claims

(* Nothing cached to show, or nothing that fits.                           *)
RenderNothing(c) ==
  /\ call' = [call EXCEPT ![c] = Left(c, {})]
  /\ claims' = Released(c)
  /\ UNCHANGED surfaced

(* The lookup without the lock, after the project scope.                   *)
Lookup(c) ==
  /\ call[c].at = "scoping" /\ ~call[c].cut
  /\ IF rows[call[c].query] # NoRow
     THEN /\ RenderCached(c) \/ RenderNothing(c)
     ELSE /\ call' = [call EXCEPT ![c].at = "queued"]
          /\ UNCHANGED <<claims, surfaced>>
  /\ UNCHANGED <<breaker, recent, rows, inside>>

Free(c) == call[c].at = "queued" /\ ~call[c].cut /\ inside[call[c].query] = Nobody

(* The lock, then the second lookup: a predecessor has filled the row.     *)
AcquireHit(c) ==
  /\ Free(c) /\ rows[call[c].query] # NoRow
  /\ \/ RenderCached(c) /\ inside' = [inside EXCEPT ![call[c].query] = c]
     \/ RenderNothing(c) /\ UNCHANGED inside
  /\ UNCHANGED <<breaker, recent, rows>>

(* No row and a deadline already spent: a timeout without a search.        *)
AcquireSpent(c) ==
  /\ Free(c) /\ rows[call[c].query] = NoRow
  /\ Leave(c, {})
  /\ RecordFailure
  /\ UNCHANGED <<recent, rows, surfaced>>

(* No row: _run_within creates the operation and arms the timer.           *)
AcquireMiss(c) ==
  /\ Free(c) /\ rows[call[c].query] = NoRow
  /\ inside' = [inside EXCEPT ![call[c].query] = c]
  /\ call' = [call EXCEPT ![c].at = "op", ![c].op = "ready"]
  /\ UNCHANGED <<breaker, claims, recent, rows, surfaced>>

(* The store write of a hit ends, well or not: the memories are shown.     *)
Recorded(c) ==
  /\ call[c].at = "recording" /\ ~call[c].cut
  /\ Leave(c, call[c].found)
  /\ UNCHANGED <<breaker, recent, rows, surfaced>>
-----------------------------------------------------------------------------
(* The operation: a task of its own, _do_surface_miss.                     *)

(* A bug: the operation is left to run when its caller leaves.             *)
ServingOnAlone(c, stage) == call[c].op = stage /\ call[c].at \in {"op", "done"}

Serving(c, stage) == call[c].at = "op" /\ call[c].op = stage

OpRefused(c) ==
  /\ Serving(c, "ready") /\ Cardinality(Abandoned) >= MaxAbandoned
  /\ call' = [call EXCEPT ![c].op = "over", ![c].outcome = "skip"]
  /\ UNCHANGED <<breaker, claims, recent, rows, surfaced, inside>>

(* The marker is set where the spending starts.                            *)
OpStart(c) ==
  /\ Serving(c, "ready") /\ Cardinality(Abandoned) < MaxAbandoned
  /\ call' = [call EXCEPT ![c].op = "rpc", ![c].attempted = TRUE]
  /\ UNCHANGED <<breaker, claims, recent, rows, surfaced, inside>>

(* The LTM answers; a caller already woken leaves before the answer can be *)
(* read.                                                                   *)
OpAnswer(c, outcome, found) ==
  /\ Serving(c, "rpc") /\ ~call[c].fired /\ ~call[c].cut
  /\ call' = [call EXCEPT ![c].op = "answered", ![c].outcome = outcome, ![c].found = found]
  /\ UNCHANGED <<breaker, claims, recent, rows, surfaced, inside>>

(* The answer is read: a daemon that starts or is busy, a failed LTM.      *)
OpFailed(c) ==
  /\ Serving(c, "answered") /\ call[c].outcome \in {"skip", "fault"}
  /\ call' = [call EXCEPT ![c].op = "over"]
  /\ UNCHANGED <<breaker, claims, recent, rows, surfaced, inside>>

(* The answer is read: the LTM works.  Tuning and the scratch list are     *)
(* awaited before the results are filtered.                                *)
OpRead(c) ==
  /\ Serving(c, "answered") /\ call[c].outcome = "found"
  /\ RecordSuccess
  /\ call' = [call EXCEPT ![c].op = "ranking"]
  /\ UNCHANGED <<claims, recent, rows, surfaced, inside>>

(* A bug: the results are filtered before the awaits, with the claims of   *)
(* an earlier moment.                                                      *)
RankStale(c) ==
  \E delivered \in SUBSET call[c].found :
    /\ rows' = [rows EXCEPT ![call[c].query] = call[c].found]
    /\ surfaced' = surfaced \cup delivered
    /\ call' = [call EXCEPT ![c].op = IF delivered = {} THEN "over" ELSE "writing",
                            ![c].found = delivered, ![c].introduced = delivered]
    /\ recent' = IF delivered = {} THEN recent ELSE recent \cup {call[c].query}

(* A bug: what did not fit in the rendering stays claimed.                 *)
RankKeepsUndelivered(c) ==
  LET relevant == call[c].found \ surfaced IN
  \E delivered \in SUBSET relevant :
    /\ rows' = [rows EXCEPT ![call[c].query] = relevant]
    /\ surfaced' = surfaced \cup relevant
    /\ call' = [call EXCEPT ![c].op = IF delivered = {} THEN "over" ELSE "writing",
                            ![c].found = delivered, ![c].introduced = delivered]
    /\ recent' = IF delivered = {} THEN recent ELSE recent \cup {call[c].query}

(* Without an await: drop what the session has seen, cache the rest, claim *)
(* it, render, give back what does not fit.                                *)
Rank(c) ==
  LET relevant == call[c].found \ surfaced IN
  \E delivered \in SUBSET relevant :
    /\ rows' = [rows EXCEPT ![call[c].query] = relevant]
    /\ surfaced' = surfaced \cup delivered
    /\ call' = [call EXCEPT ![c].op = IF delivered = {} THEN "over" ELSE "writing",
                            ![c].found = delivered, ![c].introduced = delivered]
    /\ recent' = IF delivered = {} THEN recent ELSE recent \cup {call[c].query}

OpRank(c) == Serving(c, "ranking") /\ Rank(c) /\ UNCHANGED <<breaker, claims, inside>>

(* The store write ends, well or not.                                      *)
OpWritten(c) ==
  /\ Serving(c, "writing")
  /\ call' = [call EXCEPT ![c].op = "over"]
  /\ UNCHANGED <<breaker, claims, recent, rows, surfaced, inside>>

(* The caller has left: the operation ends where its cancellation reaches  *)
(* it, at once or after the unwinding of the adapter.                      *)
OpCancelled(c) ==
  /\ c \in Abandoned /\ call[c].op # "unwinding"
  /\ call' = [call EXCEPT ![c].op = IF @ \in {"rpc", "answered"} THEN "unwinding" ELSE "none",
                          ![c].introduced = {}]
  /\ surfaced' = IF call[c].op = "writing" THEN surfaced \ call[c].introduced ELSE surfaced
  /\ UNCHANGED <<breaker, claims, recent, rows, inside>>

OpUnwound(c) ==
  /\ c \in Abandoned /\ call[c].op = "unwinding"
  /\ call' = [call EXCEPT ![c].op = "none"]
  /\ UNCHANGED <<breaker, claims, recent, rows, surfaced, inside>>
-----------------------------------------------------------------------------
(* _run_within: the timer, the caller's cancellation, and who comes first. *)

(* A bug: past_ltm is set with ltm_attempted, before the round trip.       *)
ArmedTooBriefly(c) == call[c].op = "ready"

Armed(c) == call[c].op \in {"ready", "rpc", "answered"}

Fire(c) ==
  /\ call[c].at = "op" /\ Armed(c) /\ ~call[c].fired /\ ~call[c].cut
  /\ call' = [call EXCEPT ![c].fired = TRUE]
  /\ UNCHANGED <<breaker, claims, recent, rows, surfaced, inside>>

Cancel(c) ==
  /\ call[c].at \in Running /\ ~call[c].cut
  /\ call' = [call EXCEPT ![c].cut = TRUE]
  /\ UNCHANGED <<breaker, claims, recent, rows, surfaced, inside>>

(* The caller wakes to a shield its timer cancelled; a cancellation that   *)
(* came later is not told apart.                                           *)
TimedOut(c) ==
  /\ call[c].at = "op" /\ call[c].fired
  /\ Leave(c, {})
  /\ RecordFailure
  /\ UNCHANGED <<recent, rows, surfaced>>

(* The caller wakes to a cancellation that is its own.                     *)
LeaveCancelled(c) ==
  /\ call[c].cut /\ ~call[c].fired /\ call[c].at \in Running
  /\ Leave(c, {})
  /\ surfaced' = IF call[c].at = "recording" THEN surfaced \ call[c].introduced ELSE surfaced
  /\ UNCHANGED <<breaker, recent, rows>>

(* The caller wakes to the result of its operation.                        *)
Finish(c) ==
  /\ Serving(c, "over") /\ ~call[c].fired /\ ~call[c].cut
  /\ Leave(c, IF call[c].outcome = "found" THEN call[c].found ELSE {})
  /\ IF call[c].outcome = "fault" THEN RecordFailure ELSE UNCHANGED breaker
  /\ UNCHANGED <<recent, rows, surfaced>>
-----------------------------------------------------------------------------
(* Time: the breaker's clock, the rate window, a cooldown, a cache row.    *)

BreakerTick == Tick /\ UNCHANGED <<call, claims, recent, rows, surfaced, inside>>

WindowPasses ==
  /\ claims # <<>> /\ claims' = Tail(claims)
  /\ UNCHANGED <<breaker, call, recent, rows, surfaced, inside>>

CooldownEnds(q) ==
  /\ q \in recent /\ recent' = recent \ {q}
  /\ UNCHANGED <<breaker, call, claims, rows, surfaced, inside>>

RowExpires(q) ==
  /\ rows[q] # NoRow /\ rows' = [rows EXCEPT ![q] = NoRow]
  /\ UNCHANGED <<breaker, call, claims, recent, surfaced, inside>>

CallStep(c) ==
  \/ Enter(c) \/ Lookup(c) \/ AcquireHit(c) \/ AcquireSpent(c) \/ AcquireMiss(c)
  \/ Recorded(c) \/ TimedOut(c) \/ LeaveCancelled(c) \/ Finish(c)

OpStep(c) ==
  \/ OpRefused(c) \/ OpStart(c) \/ OpFailed(c) \/ OpRead(c) \/ OpRank(c)
  \/ OpWritten(c) \/ OpCancelled(c)

Answers == ({"skip", "fault"} \X {{}}) \cup ({"found"} \X SUBSET Memories)

Next ==
  \/ \E c \in Calls :
       \/ CallStep(c) \/ OpStep(c) \/ Fire(c) \/ Cancel(c) \/ OpUnwound(c)
       \/ \E a \in Answers : OpAnswer(c, a[1], a[2])
  \/ BreakerTick \/ WindowPasses
  \/ \E q \in Queries : CooldownEnds(q) \/ RowExpires(q)

Spec == EngineInit /\ [][Next]_vars

(* The loop runs what is ready, timers fire, clocks run.  An LTM need not  *)
(* answer, nor an abandoned operation unwind.                              *)
FairSpec ==
  /\ Spec
  /\ \A c \in Calls : WF_vars(CallStep(c)) /\ WF_vars(OpStep(c)) /\ WF_vars(Fire(c))
  /\ WF_vars(BreakerTick)
-----------------------------------------------------------------------------
(* The call that introduced a memory and may still give it back.           *)
MayRelease(c, m) ==
  /\ m \in call[c].introduced
  /\ \/ call[c].at = "recording" \/ call[c].op = "writing"

(* A rate slot is one search: a call that ended without reaching the LTM   *)
(* holds none, no call holds two, and there are never more than the limit. *)
SlotsAreAttempts ==
  /\ Len(claims) <= RateLimit
  /\ Cardinality(ToSet(claims)) = Len(claims)
  /\ \A c \in ToSet(claims) : call[c].at = "done" => call[c].attempted

(* A call that reached the LTM never gets its slot back: it leaves the     *)
(* window only by age.                                                     *)
AttemptsAreCounted ==
  [][\A c \in Calls :
       c \in ToSet(claims) /\ c \notin ToSet(claims') /\ call'[c].attempted
         => claims' = Tail(claims) /\ call' = call]_vars

(* A search shows only what the session has not seen: no memory is shown   *)
(* by two searches.                                                        *)
MissesShowOnce ==
  \A c, d \in Calls :
    c # d /\ call[c].attempted /\ call[d].attempted => call[c].shown \cap call[d].shown = {}

(* A claimed memory was shown, or is about to be, or was lost with a call  *)
(* whose caller left in the moment its operation finished.                 *)
NoSilentSuppression ==
  \A m \in surfaced : \E c \in Calls :
    \/ m \in call[c].shown
    \/ MayRelease(c, m)
    \/ m \in call[c].found /\ (call[c].op = "over" \/ call[c].at = "done")

(* An abandoned operation never fills the cache once its caller has left   *)
(* the key: a row is written while a call holds the key's lock and keeps   *)
(* it, and only where there was none.                                      *)
RowsUnderLock ==
  [][\A q \in Queries : rows'[q] # rows[q] /\ rows'[q] # NoRow =>
       rows[q] = NoRow /\ inside[q] # Nobody /\ inside'[q] = inside[q]]_vars

(* Every call returns, whatever the LTM does.                              *)
CallsEnd == \A c \in Calls : call[c].at # "idle" ~> call[c].at = "done"

(* Slots and claims are accounted for.                                     *)
ClaimsAreSound == TypeOK /\ SlotsAreAttempts /\ NoSilentSuppression

(* Every call returns, and every outage of the LTM is probed again.        *)
EngineAnswers == CallsEnd /\ OutageEnds
=============================================================================
