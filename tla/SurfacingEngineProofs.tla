----------------------- MODULE SurfacingEngineProofs ------------------------
(***************************************************************************)
(* Proofs about SurfacingEngine, the breaker it carries and the keyed      *)
(* locks it takes, for every set of calls, queries, memories and keys:     *)
(* what a session has claimed is exactly what was shown or is about to be, *)
(* no two searches show the same memory, an outage is extended only by a   *)
(* failed probe, and a key's lock is one mutex however its entry comes and *)
(* goes.                                                                   *)
(***************************************************************************)
EXTENDS SurfacingEngine, KeyedLocks, TLAPS, SequenceTheorems, FiniteSetTheorems

(* The circuit breaker, for every threshold and reset timeout, whatever    *)
(* callers record in whatever order.                                       *)
LEMMA ClosedInit == Init => ClosedBelowThreshold
BY BreakerAssumption DEF Init, Closed, ClosedBelowThreshold, Breakers

(* A recorded failure either stays below the threshold or opens it.        *)
LEMMA FailureKeepsClosed ==
  ASSUME ClosedBelowThreshold, RecordFailure PROVE ClosedBelowThreshold'
<1> DEFINE trips == HalfOpen \/ (Bumped >= MaxFailures /\ ~breaker.open)
<1>1. Bumped \in 0..MaxFailures
  BY BreakerAssumption DEF Bumped, ClosedBelowThreshold, Breakers
<1>2. CASE trips
  <2>1. breaker' = [failures |-> Bumped, open |-> TRUE, age |-> 0]
    <3>1. breaker' = [failures |-> Bumped, open |-> breaker.open \/ trips,
                      age |-> IF trips THEN 0 ELSE breaker.age]
      BY DEF RecordFailure
    <3> HIDE DEF trips
    <3>2. QED
      BY <1>2, <3>1
  <2>2. QED
    BY <1>1, <2>1, BreakerAssumption DEF ClosedBelowThreshold, Breakers
<1>3. CASE ~trips
  <2>1. breaker' = [failures |-> Bumped, open |-> breaker.open, age |-> breaker.age]
    <3>1. breaker' = [failures |-> Bumped, open |-> breaker.open \/ trips,
                      age |-> IF trips THEN 0 ELSE breaker.age]
      BY DEF RecordFailure
    <3>2. (breaker.open \/ trips) = breaker.open
      BY <1>3, BreakerAssumption DEF ClosedBelowThreshold, Breakers
    <3> HIDE DEF trips
    <3>3. QED
      BY <1>3, <3>1, <3>2
  <2>2. ~breaker.open => Bumped < MaxFailures
    BY <1>1, <1>3, BreakerAssumption DEF ClosedBelowThreshold, Breakers
  <2>3. QED
    BY <1>1, <2>1, <2>2, BreakerAssumption DEF ClosedBelowThreshold, Breakers
<1>4. QED
  BY <1>2, <1>3

LEMMA ClosedStep ==
  ClosedBelowThreshold /\ [RecordSuccess \/ RecordFailure \/ Tick]_breaker
    => ClosedBelowThreshold'
<1> SUFFICES ASSUME ClosedBelowThreshold, [RecordSuccess \/ RecordFailure \/ Tick]_breaker
    PROVE  ClosedBelowThreshold'
  OBVIOUS
<1>1. CASE RecordFailure
  BY <1>1, FailureKeepsClosed
<1>2. CASE RecordSuccess
  BY <1>2, BreakerAssumption DEF RecordSuccess, Closed, ClosedBelowThreshold, Breakers
<1>3. CASE Tick
  BY <1>3, BreakerAssumption DEF Tick, ClosedBelowThreshold, Breakers
<1>4. CASE breaker' = breaker
  BY <1>4 DEF ClosedBelowThreshold
<1>5. QED
  BY <1>1, <1>2, <1>3, <1>4

(* However many calls overlap, a breaker that reads as closed has counted  *)
(* fewer failures than the threshold.                                      *)
THEOREM BreakerSafe == BreakerSpec => []ClosedBelowThreshold
BY ClosedInit, ClosedStep, PTL DEF BreakerSpec

(* The window of an open breaker is restarted only when the breaker reads  *)
(* as half-open: a late failure of a call admitted earlier only counts.    *)
THEOREM OutageNeverExtended == BreakerSpec => OutageNotExtended
<1> DEFINE Extends == breaker.open /\ breaker'.open /\ breaker'.age < breaker.age
<1>1. ClosedBelowThreshold /\ [RecordSuccess \/ RecordFailure \/ Tick]_breaker
        => [Extends => HalfOpen]_breaker
  BY BreakerAssumption DEF RecordSuccess, Closed, Tick, RecordFailure, HalfOpen, ClosedBelowThreshold, Breakers
<1>2. QED
  BY <1>1, ClosedInit, ClosedStep, PTL DEF BreakerSpec, OutageNotExtended
-----------------------------------------------------------------------------
(* The memories a call may still give back, and those its search keeps.    *)
Held(c) ==
  IF call[c].at = "recording" \/ call[c].op = "writing" THEN call[c].introduced ELSE {}

Kept(c) ==
  IF call[c].attempted
  THEN call[c].shown \cup (IF call[c].op = "over" THEN call[c].found ELSE {}) ELSE {}

CallRecords ==
  [at: Running \cup {"idle", "done"}, query: Queries, op: OpStates, fired: BOOLEAN,
   cut: BOOLEAN, attempted: BOOLEAN, outcome: Outcomes, found: SUBSET Memories,
   introduced: SUBSET Memories, shown: SUBSET Memories]

CallType == call \in [Calls -> CallRecords]

Types ==
  /\ CallType
  /\ rows \in [Queries -> {NoRow} \cup SUBSET Memories]
  /\ surfaced \subseteq Memories
  /\ inside \in [Queries -> Calls \cup {Nobody}]

(* What each place of a call says about its operation and its finds.       *)
Places(c) ==
  /\ call[c].at = "op" => call[c].op \notin {"none", "unwinding"}
  /\ call[c].at \in {"idle", "scoping", "queued", "recording"} =>
       call[c].op = "none" /\ ~call[c].attempted
  /\ call[c].at = "done" => call[c].op # "over"
  /\ call[c].at # "done" => call[c].shown = {}
  /\ call[c].op = "writing" => call[c].attempted
  /\ call[c].at = "op" /\ call[c].op \in {"ready", "rpc"} => call[c].found = {}
  /\ call[c].op = "over" /\ call[c].found # {} => call[c].attempted /\ call[c].outcome = "found"
  /\ call[c].op = "answered" /\ call[c].outcome # "found" => call[c].found = {}
  /\ call[c].at = "op" /\ call[c].op = "writing" =>
       call[c].found = call[c].introduced /\ call[c].outcome = "found"
  /\ call[c].at = "op" /\ call[c].op = "ranking" => call[c].outcome = "found"
  /\ call[c].op \in {"rpc", "answered", "ranking"} => call[c].attempted
  /\ call[c].at = "recording" => call[c].introduced \subseteq call[c].found

(* An operation that has not ranked yet holds the lock of an absent row.   *)
Locks(c) ==
  /\ call[c].at = "op" => inside[call[c].query] = c
  /\ call[c].at = "op" /\ call[c].op \in {"ready", "rpc", "answered", "ranking"} =>
       rows[call[c].query] = NoRow

(* A memory has one call that may give it back, and none once a search     *)
(* keeps it; both are claimed.                                             *)
Claims ==
  /\ \A c \in Calls : Held(c) \cup Kept(c) \subseteq surfaced
  /\ \A c, d \in Calls : Kept(c) \cap Held(d) = {}
  /\ \A c, d \in Calls : c # d => Held(c) \cap Held(d) = {} /\ Kept(c) \cap Kept(d) = {}

Inv ==
  /\ Types
  /\ \A c \in Calls : Places(c) /\ Locks(c)
  /\ Claims
  /\ NoSilentSuppression

USE EngineAssumption DEF CallType, CallRecords, Running, OpStates, Outcomes

LEMMA InvInit == EngineInit => Inv
BY DEF EngineInit, Inv, Types, Places, Locks, Claims, NoSilentSuppression, Held, Kept,
       NewCall, MayRelease

(* Only the call c has changed.                                            *)
Others(c) == \A d \in Calls : d # c => call'[d] = call[d]

(* An action that leaves surfaced, the rows and the locks alone, and what  *)
(* c holds, keeps and shows, preserves the claims.                         *)
LEMMA QuietStep ==
  ASSUME NEW c \in Calls, Inv, Types', Others(c), Places(c)', Locks(c)',
         UNCHANGED <<rows, surfaced>>,
         \A q \in Queries : inside'[q] = inside[q] \/ inside[q] \in {c, Nobody},
         Held(c)' = Held(c), Kept(c)' \subseteq Kept(c),
         \A m \in Memories :
           m \in call[c].shown \/ (m \in call[c].found /\ (call[c].op = "over" \/ call[c].at = "done"))
             => m \in call'[c].shown
                \/ (m \in call'[c].found /\ (call'[c].op = "over" \/ call'[c].at = "done"))
  PROVE  Inv'
<1>1. \A d \in Calls : Held(d)' = Held(d) /\ Kept(d)' \subseteq Kept(d)
  BY DEF Others, Held, Kept
<1>2. \A d \in Calls : Places(d)'
  BY DEF Others, Inv, Places
<1>3. \A d \in Calls : Locks(d)'
  BY DEF Others, Inv, Locks, Types
<1>4. Claims'
  BY <1>1 DEF Inv, Claims
<1>5. NoSilentSuppression'
  BY DEF Inv, NoSilentSuppression, MayRelease, Others, Types, Held
<1>6. QED
  BY <1>2, <1>3, <1>4, <1>5 DEF Inv

LEMMA CallTyped == ASSUME NEW c \in Calls, Inv PROVE call[c] \in CallRecords
BY DEF Inv, Types

(* A record of a call with some fields replaced is a record of a call.     *)
LEMMA Replaced ==
  ASSUME NEW k \in CallRecords, NEW f \in SUBSET Memories, NEW i \in SUBSET Memories
  PROVE  /\ \A u \in Outcomes :
              [k EXCEPT !.op = "answered", !.outcome = u, !.found = f] \in CallRecords
         /\ [k EXCEPT !.at = "recording", !.found = f, !.introduced = i] \in CallRecords
         /\ \A o \in OpStates : [k EXCEPT !.op = o, !.found = f, !.introduced = i] \in CallRecords
         /\ \A o \in OpStates : [k EXCEPT !.op = o, !.introduced = i] \in CallRecords
BY Zenon

(* The record of one call is replaced.                                     *)
LEMMA CallChange ==
  ASSUME NEW c \in Calls, Inv, NEW r \in CallRecords, call' = [call EXCEPT ![c] = r]
  PROVE  CallType' /\ Others(c) /\ call'[c] = r
BY DEF Inv, Types, Others

LEMMA EnterStep == ASSUME NEW c \in Calls, Inv, Enter(c) PROVE Inv'
<1> DEFINE r == [call[c] EXCEPT !.at = IF ~IsOpen /\ Admits(call[c].query) THEN "scoping" ELSE "done"]
<1>a. r \in CallRecords
  BY CallTyped
<1>b. call' = [call EXCEPT ![c] = r]
  BY DEF Inv, Types, Enter
<1>1. Types' /\ Others(c) /\ UNCHANGED <<rows, surfaced, inside>>
  BY <1>a, <1>b, CallChange DEF Inv, Types, Enter
<1>2. Places(c)' /\ Locks(c)' /\ Held(c)' = Held(c) /\ Kept(c)' \subseteq Kept(c)
  BY DEF Enter, Inv, Types, Places, Locks, Held, Kept
<1>3. QED
  BY <1>1, <1>2, QuietStep DEF Enter, Inv, Types, Places

LEMMA SpentStep == ASSUME NEW c \in Calls, Inv, AcquireSpent(c) PROVE Inv'
<1> DEFINE r == Left(c, {})
<1>a. r \in CallRecords
  BY CallTyped DEF Left
<1>b. call' = [call EXCEPT ![c] = r]
  BY DEF Inv, Types, AcquireSpent, Free, Leave, Unlocked
<1>1. Types' /\ Others(c) /\ UNCHANGED <<rows, surfaced>>
  <2> HIDE DEF r
  <2>1. CallType' /\ Others(c)
    BY <1>a, <1>b, CallChange
  <2>2. QED
    BY <2>1 DEF Inv, Types, AcquireSpent, Free, Leave, Unlocked
<1>2. Places(c)' /\ Locks(c)' /\ Held(c)' = Held(c) /\ Kept(c)' \subseteq Kept(c)
  BY DEF AcquireSpent, Free, Leave, Left, Inv, Types, Places, Locks, Held, Kept
<1>3. QED
  BY <1>1, <1>2, QuietStep DEF AcquireSpent, Free, Leave, Left, Unlocked, Inv, Types, Places

LEMMA MissStep == ASSUME NEW c \in Calls, Inv, AcquireMiss(c) PROVE Inv'
<1> DEFINE r == [call[c] EXCEPT !.at = "op", !.op = "ready"]
<1>a. r \in CallRecords
  BY CallTyped
<1>b. call' = [call EXCEPT ![c] = r]
  BY DEF Inv, Types, AcquireMiss, Free
<1>1. Types' /\ Others(c) /\ UNCHANGED <<rows, surfaced>>
  <2> HIDE DEF r
  <2>1. CallType' /\ Others(c)
    BY <1>a, <1>b, CallChange
  <2>2. QED
    BY <2>1 DEF Inv, Types, AcquireMiss, Free
<1>2. Places(c)' /\ Locks(c)' /\ Held(c)' = Held(c) /\ Kept(c)' \subseteq Kept(c)
  BY DEF AcquireMiss, Free, Inv, Types, Places, Locks, Held, Kept
<1>3. QED
  BY <1>1, <1>2, QuietStep DEF AcquireMiss, Free, Inv, Types, Places

(* The steps of the operation before it ranks, the timer and a             *)
(* cancellation change only the call's own place.                          *)
LEMMA OpStartStep ==
  ASSUME NEW c \in Calls, Inv, OpRefused(c) \/ OpStart(c) PROVE Inv'
<1>1. Types' /\ Others(c) /\ UNCHANGED <<rows, surfaced, inside>>
  BY DEF OpRefused, OpStart, Serving, Inv, Types, Others
<1>2. Places(c)' /\ Locks(c)' /\ Held(c)' = Held(c) /\ Kept(c)' \subseteq Kept(c)
  BY DEF OpRefused, OpStart, Serving, Inv, Types, Places, Locks, Held, Kept
<1>3. QED
  BY <1>1, <1>2, QuietStep DEF OpRefused, OpStart, Serving, Inv, Types, Places

LEMMA OpAnswerStep ==
  ASSUME NEW c \in Calls, Inv, NEW o \in Outcomes, NEW f \in SUBSET Memories,
         o # "found" => f = {}, OpAnswer(c, o, f)
  PROVE  Inv'
<1> DEFINE r == [call[c] EXCEPT !.op = "answered", !.outcome = o, !.found = f]
<1>0. /\ call[c].at = "op" /\ call[c].op = "rpc" /\ r.at = "op" /\ r.op = "answered"
      /\ r.outcome = o /\ r.found = f /\ r.introduced = call[c].introduced
      /\ r.attempted = call[c].attempted /\ r.shown = call[c].shown
  BY CallTyped DEF OpAnswer, Serving
<1>a. r \in CallRecords
  <2> HIDE DEF CallRecords
  <2>1. QED
    BY CallTyped, Replaced
<1>b. call' = [call EXCEPT ![c] = r] /\ UNCHANGED <<rows, surfaced, inside>>
  BY <1>0 DEF Inv, Types, OpAnswer, Serving
<1>1. Types' /\ Others(c) /\ UNCHANGED <<rows, surfaced, inside>> /\ call'[c] = r
  <2> HIDE DEF r
  <2>1. QED
    BY <1>a, <1>b, CallChange DEF Inv, Types
<1>2. call'[c] = r
  BY <1>1
<1>3. Places(c)'
  BY <1>0, <1>2 DEF Inv, Places
<1>4. Locks(c)'
  BY <1>1, <1>2, CallTyped DEF OpAnswer, Serving, Inv, Types, Locks
<1>5. Held(c)' = Held(c) /\ Kept(c)' \subseteq Kept(c)
  BY <1>0, <1>2 DEF Held, Kept
<1>6. r.shown = call[c].shown /\ (call[c].op = "over" \/ call[c].at = "done" =>
         r.found = call[c].found /\ (r.op = "over" \/ r.at = "done"))
  BY <1>2, CallTyped DEF OpAnswer, Serving, Inv, Places
<1>7. QED
  BY <1>1, <1>2, <1>3, <1>4, <1>5, <1>6, QuietStep DEF OpAnswer, Serving

LEMMA OpReadStep ==
  ASSUME NEW c \in Calls, Inv, OpFailed(c) \/ OpRead(c) PROVE Inv'
<1>1. Types' /\ Others(c) /\ UNCHANGED <<rows, surfaced, inside>>
  BY DEF OpFailed, OpRead, Serving, Inv, Types, Others
<1>2. Places(c)' /\ Locks(c)' /\ Held(c)' = Held(c) /\ Kept(c)' \subseteq Kept(c)
  BY DEF OpFailed, OpRead, Serving, Inv, Types, Places, Locks, Held, Kept
<1>3. QED
  BY <1>1, <1>2, QuietStep DEF OpFailed, OpRead, Serving, Inv, Types, Places

LEMMA FireStep == ASSUME NEW c \in Calls, Inv, Fire(c) PROVE Inv'
<1> DEFINE r == [call[c] EXCEPT !.fired = TRUE]
<1>a. r \in CallRecords
  BY CallTyped
<1>b. call' = [call EXCEPT ![c] = r]
  BY DEF Inv, Types, Fire
<1>1. Types' /\ Others(c) /\ UNCHANGED <<rows, surfaced, inside>>
  BY <1>a, <1>b, CallChange DEF Inv, Types, Fire
<1>2. call'[c] = r
  BY <1>a, <1>b, CallChange
<1>3. Places(c)'
  BY <1>2, CallTyped DEF Fire, Armed, Inv, Places
<1>4. Locks(c)'
  BY <1>1, <1>2, CallTyped DEF Fire, Armed, Inv, Types, Locks
<1>5. Held(c)' = Held(c) /\ Kept(c)' \subseteq Kept(c)
  BY <1>2, CallTyped DEF Fire, Armed, Inv, Places, Held, Kept
<1>6. r.shown = call[c].shown /\ (call[c].op = "over" \/ call[c].at = "done" =>
         r.found = call[c].found /\ (r.op = "over" \/ r.at = "done"))
  BY <1>2, CallTyped DEF Fire, Armed, Inv, Places
<1>7. QED
  BY <1>1, <1>2, <1>3, <1>4, <1>5, <1>6, QuietStep DEF Fire, Armed

LEMMA CancelStep == ASSUME NEW c \in Calls, Inv, Cancel(c) PROVE Inv'
<1> DEFINE r == [call[c] EXCEPT !.cut = TRUE]
<1>a. r \in CallRecords
  BY CallTyped
<1>b. call' = [call EXCEPT ![c] = r]
  BY DEF Inv, Types, Cancel
<1>1. Types' /\ Others(c) /\ UNCHANGED <<rows, surfaced, inside>>
  BY <1>a, <1>b, CallChange DEF Inv, Types, Cancel
<1>2. call'[c] = r
  BY <1>a, <1>b, CallChange
<1>3. Places(c)'
  BY <1>2, CallTyped DEF Cancel, Inv, Places
<1>4. Locks(c)'
  BY <1>1, <1>2, CallTyped DEF Cancel, Inv, Types, Locks
<1>5. Held(c)' = Held(c) /\ Kept(c)' \subseteq Kept(c)
  BY <1>2, CallTyped DEF Cancel, Inv, Places, Held, Kept
<1>6. r.shown = call[c].shown /\ (call[c].op = "over" \/ call[c].at = "done" =>
         r.found = call[c].found /\ (r.op = "over" \/ r.at = "done"))
  BY <1>2, CallTyped DEF Cancel, Inv, Places
<1>7. QED
  BY <1>1, <1>2, <1>3, <1>4, <1>5, <1>6, QuietStep DEF Cancel

LEMMA UnwoundStep == ASSUME NEW c \in Calls, Inv, OpUnwound(c) PROVE Inv'
<1>1. Types' /\ Others(c) /\ UNCHANGED <<rows, surfaced, inside>>
  BY DEF OpUnwound, Abandoned, Inv, Types, Others
<1>2. Places(c)' /\ Locks(c)' /\ Held(c)' = Held(c) /\ Kept(c)' \subseteq Kept(c)
  BY DEF OpUnwound, Abandoned, Inv, Types, Places, Locks, Held, Kept
<1>3. QED
  BY <1>1, <1>2, QuietStep DEF OpUnwound, Abandoned, Inv, Types, Places

LEMMA TimedOutStep == ASSUME NEW c \in Calls, Inv, TimedOut(c) PROVE Inv'
<1> DEFINE r == Left(c, {})
<1>a. r \in CallRecords
  BY CallTyped DEF Left
<1>b. call' = [call EXCEPT ![c] = r]
  BY DEF Inv, Types, TimedOut, Leave, Unlocked
<1>1. Types' /\ Others(c) /\ UNCHANGED <<rows, surfaced>>
  BY <1>a, <1>b, CallChange DEF Inv, Types, TimedOut, Leave, Unlocked
<1>2. call'[c] = r
  BY <1>a, <1>b, CallChange
<1>3. Places(c)'
  BY <1>2, CallTyped DEF TimedOut, Leave, Unlocked, Inv, Places, Left
<1>4. Locks(c)'
  BY <1>1, <1>2, CallTyped DEF TimedOut, Leave, Unlocked, Inv, Types, Locks, Left
<1>5. Held(c)' = Held(c) /\ Kept(c)' \subseteq Kept(c)
  BY <1>2, CallTyped DEF TimedOut, Leave, Unlocked, Inv, Places, Held, Kept, Left
<1>6. r.shown = call[c].shown /\ (call[c].op = "over" \/ call[c].at = "done" =>
         r.found = call[c].found /\ (r.op = "over" \/ r.at = "done"))
  BY <1>2, CallTyped DEF TimedOut, Leave, Unlocked, Inv, Places, Left
<1>7. QED
  BY <1>1, <1>2, <1>3, <1>4, <1>5, <1>6, QuietStep DEF TimedOut, Leave, Unlocked

LEMMA FinishStep == ASSUME NEW c \in Calls, Inv, Finish(c) PROVE Inv'
<1>1. Types' /\ Others(c) /\ UNCHANGED <<rows, surfaced>>
  BY DEF Finish, Serving, Leave, Left, Unlocked, Inv, Types, Others
<1>2. Places(c)' /\ Locks(c)' /\ Held(c)' = Held(c) /\ Kept(c)' \subseteq Kept(c)
  BY DEF Finish, Serving, Leave, Left, Inv, Types, Places, Locks, Held, Kept
<1>3. QED
  BY <1>1, <1>2, QuietStep DEF Finish, Serving, Leave, Left, Unlocked, Inv, Types, Places

(* The memories whose claim is accounted for by c.                         *)
Accounted(c) ==
  call[c].shown \cup Held(c)
    \cup (IF call[c].op = "over" \/ call[c].at = "done" THEN call[c].found ELSE {})

LEMMA AccountedAll == ASSUME Inv PROVE \A m \in surfaced : \E c \in Calls : m \in Accounted(c)
BY DEF Inv, NoSilentSuppression, MayRelease, Accounted, Held

(* A step of c that changes claims: it may claim what nobody has claimed,  *)
(* give back what it alone holds, or keep what it held.                    *)
LEMMA ClaimStep ==
  ASSUME NEW c \in Calls, Inv, Types', Others(c), Places(c)', \A d \in Calls : Locks(d)',
         Held(c)' \cap Kept(c)' = {},
         Held(c)' \cup Kept(c)' \subseteq (Held(c) \cup Kept(c) \cup (surfaced' \ surfaced)),
         Held(c)' \cup Kept(c)' \subseteq surfaced',
         surfaced \ surfaced' \subseteq Held(c),
         surfaced' \subseteq surfaced \cup Accounted(c)',
         surfaced' \cap Accounted(c) \subseteq Accounted(c)'
  PROVE  Inv'
<1>1. \A d \in Calls : d # c => Held(d)' = Held(d) /\ Kept(d)' = Kept(d)
                                 /\ Accounted(d)' = Accounted(d)
  BY DEF Others, Held, Kept, Accounted
<1>2. \A d \in Calls : Places(d)'
  BY DEF Others, Inv, Places
<1>3. \A d \in Calls : Held(d)' \cup Kept(d)' \subseteq surfaced'
  BY <1>1 DEF Inv, Claims
<1>4. \A d \in Calls : d # c =>
        /\ Held(c)' \cap (Held(d) \cup Kept(d)) \subseteq {}
        /\ Kept(c)' \cap Held(d) \subseteq {}
  BY DEF Inv, Claims
<1>5. \A d \in Calls : d # c => Kept(c)' \cap Kept(d) \subseteq {}
  BY DEF Inv, Claims
<1>6. Claims'
  BY <1>1, <1>3, <1>4, <1>5 DEF Inv, Claims
<1>7. \A m \in surfaced' : \E d \in Calls : m \in Accounted(d)'
  BY <1>1, AccountedAll
<1>8. NoSilentSuppression'
  BY <1>7 DEF NoSilentSuppression, MayRelease, Accounted, Held
<1>9. QED
  BY <1>2, <1>6, <1>8 DEF Inv

(* Another call's lock and row are not touched.                            *)
LEMMA LocksKept ==
  ASSUME NEW c \in Calls, Inv, Types', Others(c), Locks(c)',
         \A q \in Queries : inside'[q] = inside[q] \/ inside[q] \in {c, Nobody},
         \A q \in Queries : rows'[q] = rows[q] \/ inside[q] = c
  PROVE  \A d \in Calls : Locks(d)'
BY DEF Inv, Types, Locks, Others

(* A hit claims what it renders.                                           *)
LEMMA RenderStep ==
  ASSUME NEW c \in Calls, Inv, RenderCached(c), call[c].at \in {"scoping", "queued"},
         rows[call[c].query] # NoRow, UNCHANGED rows,
         inside' = inside \/ (inside[call[c].query] = Nobody
                               /\ inside' = [inside EXCEPT ![call[c].query] = c])
  PROVE  Inv'
<1>1. PICK delivered \in SUBSET rows[call[c].query] :
        /\ surfaced' = surfaced \cup delivered
        /\ call' = [call EXCEPT ![c].at = "recording", ![c].found = delivered,
                                ![c].introduced = delivered \ surfaced]
  BY DEF RenderCached
<1> DEFINE r == [call[c] EXCEPT !.at = "recording", !.found = delivered,
                                !.introduced = delivered \ surfaced]
<1>2. call[c].query \in Queries /\ delivered \subseteq Memories
  BY CallTyped, EngineAssumption DEF Inv, Types
<1>3. r \in CallRecords
  <2> HIDE DEF CallRecords
  <2>1. QED
    BY <1>2, CallTyped, Replaced
<1>4. call' = [call EXCEPT ![c] = r]
  BY <1>1 DEF Inv, Types
<1>5. CallType' /\ Others(c) /\ call'[c] = r
  <2> HIDE DEF r
  <2>1. QED
    BY <1>3, <1>4, CallChange
<1>6. Types'
  BY <1>1, <1>2, <1>5 DEF Inv, Types
<1>7. /\ call[c].op = "none" /\ ~call[c].attempted /\ call[c].shown = {}
      /\ r.at = "recording" /\ r.op = "none" /\ ~r.attempted /\ r.shown = {}
      /\ r.found = delivered /\ r.introduced = delivered \ surfaced
  BY CallTyped DEF Inv, Places
<1>8. Places(c)' /\ Locks(c)'
  BY <1>5, <1>7 DEF Places, Locks
<1>9. Held(c)' = delivered \ surfaced /\ Kept(c)' = {} /\ Accounted(c) = {}
      /\ Accounted(c)' = delivered \ surfaced
  BY <1>5, <1>7 DEF Held, Kept, Accounted
<1>10. \A d \in Calls : Locks(d)'
  BY <1>2, <1>5, <1>6, <1>8, LocksKept DEF Inv, Types
<1>11. QED
  BY <1>1, <1>5, <1>6, <1>8, <1>9, <1>10, ClaimStep

LEMMA LeftTyped ==
  ASSUME NEW c \in Calls, Inv, NEW showing \in SUBSET Memories
  PROVE  Left(c, showing) \in CallRecords
<1>1. CASE call[c].op = "over"
  BY <1>1, CallTyped DEF Left
<1>2. CASE call[c].op = "writing"
  BY <1>2, CallTyped DEF Left
<1>3. CASE call[c].op \notin {"over", "writing"}
  BY <1>3, CallTyped DEF Left
<1>4. QED
  BY <1>1, <1>2, <1>3

(* A hit with nothing to show leaves; a lookup without a row queues.       *)
LEMMA NothingStep ==
  ASSUME NEW c \in Calls, Inv, RenderNothing(c), call[c].at \in {"scoping", "queued"},
         UNCHANGED <<rows, inside>>
  PROVE  Inv'
<1> DEFINE r == Left(c, {})
<1>a. r \in CallRecords
  BY LeftTyped
<1>b. call' = [call EXCEPT ![c] = r]
  BY DEF Inv, Types, RenderNothing
<1>0. CallType' /\ Others(c) /\ call'[c] = r
  BY <1>a, <1>b, CallChange
<1>1. Types' /\ UNCHANGED surfaced
  BY <1>0 DEF Inv, Types, RenderNothing
<1>2. call[c].shown = {} /\ call[c].op = "none" /\ ~call[c].attempted
  BY DEF Inv, Places
<1>3. r.at = "done" /\ r.op = "none" /\ ~r.attempted /\ r.shown = {}
      /\ r.introduced = {} /\ r.found = {}
  BY <1>2, CallTyped DEF Left
<1>4. Places(c)' /\ Locks(c)' /\ Held(c)' = Held(c) /\ Kept(c)' \subseteq Kept(c)
  BY <1>0, <1>2, <1>3 DEF Places, Locks, Held, Kept
<1>5. QED
  BY <1>0, <1>1, <1>2, <1>4, QuietStep

LEMMA LookupStep == ASSUME NEW c \in Calls, Inv, Lookup(c) PROVE Inv'
<1>1. CASE rows[call[c].query] # NoRow /\ RenderCached(c)
  BY <1>1, RenderStep DEF Lookup
<1>2. CASE rows[call[c].query] # NoRow /\ RenderNothing(c)
  BY <1>2, NothingStep DEF Lookup
<1>3. CASE rows[call[c].query] = NoRow
  <2> DEFINE r == [call[c] EXCEPT !.at = "queued"]
  <2>1. r \in CallRecords
    BY CallTyped
  <2>2. call' = [call EXCEPT ![c] = r]
    BY <1>3 DEF Inv, Types, Lookup
  <2>3. Types' /\ Others(c) /\ UNCHANGED <<rows, surfaced, inside>>
    BY <1>3, <2>1, <2>2, CallChange DEF Inv, Types, Lookup
  <2>4. Places(c)' /\ Locks(c)' /\ Held(c)' = Held(c) /\ Kept(c)' \subseteq Kept(c)
    BY <2>1, <2>2, CallTyped, CallChange DEF Lookup, Inv, Places, Locks, Held, Kept
  <2>5. call[c].shown = {} /\ call[c].op # "over"
    BY DEF Inv, Places, Lookup
  <2>6. QED
    BY <2>3, <2>4, <2>5, QuietStep DEF Lookup
<1>4. QED
  BY <1>1, <1>2, <1>3 DEF Lookup

LEMMA AcquireHitStep == ASSUME NEW c \in Calls, Inv, AcquireHit(c) PROVE Inv'
<1>1. CASE RenderCached(c) /\ inside' = [inside EXCEPT ![call[c].query] = c]
  BY <1>1, RenderStep DEF AcquireHit, Free
<1>2. CASE RenderNothing(c) /\ UNCHANGED inside
  BY <1>2, NothingStep DEF AcquireHit, Free
<1>3. QED
  BY <1>1, <1>2 DEF AcquireHit

LEMMA RecordedStep == ASSUME NEW c \in Calls, Inv, Recorded(c) PROVE Inv'
<1> DEFINE r == Left(c, call[c].found)
<1>a. r \in CallRecords
  BY CallTyped, LeftTyped
<1>b. call' = [call EXCEPT ![c] = r]
  BY DEF Recorded, Leave
<1>0. CallType' /\ Others(c) /\ call'[c] = r
  BY <1>a, <1>b, CallChange
<1>1. Types' /\ UNCHANGED <<rows, surfaced>>
  BY <1>0 DEF Inv, Types, Recorded, Leave, Unlocked
<1>2. /\ call[c].op = "none" /\ ~call[c].attempted /\ call[c].introduced \subseteq call[c].found
      /\ call[c].at = "recording" /\ call[c].shown = {}
  BY DEF Recorded, Inv, Places
<1>3. r.at = "done" /\ r.op = "none" /\ ~r.attempted /\ r.shown = call[c].found
      /\ r.introduced = {} /\ r.found = {}
  BY <1>2, CallTyped DEF Left
<1>4. Places(c)' /\ Locks(c)' /\ Held(c)' = {} /\ Kept(c)' = {}
  BY <1>0, <1>3 DEF Places, Locks, Held, Kept
<1>5. Accounted(c) \subseteq Accounted(c)'
  BY <1>0, <1>2, <1>3 DEF Accounted, Held
<1>6. \A d \in Calls : Locks(d)'
  BY <1>0, <1>1, <1>4, LocksKept DEF Recorded, Leave, Unlocked
<1>7. QED
  BY <1>0, <1>1, <1>4, <1>5, <1>6, ClaimStep

LEMMA RankStep == ASSUME NEW c \in Calls, Inv, OpRank(c) PROVE Inv'
<1> DEFINE relevant == call[c].found \ surfaced
<1>1. PICK delivered \in SUBSET relevant :
        /\ rows' = [rows EXCEPT ![call[c].query] = relevant]
        /\ surfaced' = surfaced \cup delivered
        /\ call' = [call EXCEPT ![c].op = IF delivered = {} THEN "over" ELSE "writing",
                                ![c].found = delivered, ![c].introduced = delivered]
  BY DEF OpRank, Rank
<1> DEFINE r == [call[c] EXCEPT !.op = IF delivered = {} THEN "over" ELSE "writing",
                                !.found = delivered, !.introduced = delivered]
<1>2. /\ call[c].at = "op" /\ call[c].op = "ranking" /\ call[c].attempted
      /\ call[c].outcome = "found" /\ call[c].shown = {}
      /\ call[c].query \in Queries /\ inside[call[c].query] = c
      /\ delivered \subseteq Memories /\ delivered \cap surfaced = {} /\ UNCHANGED inside
      /\ relevant \subseteq Memories
  BY CallTyped DEF OpRank, Serving, Inv, Places, Locks
<1>3. r \in CallRecords
  <2> DEFINE o == IF delivered = {} THEN "over" ELSE "writing"
  <2>1. o \in OpStates /\ delivered \in SUBSET Memories
    BY <1>2
  <2> HIDE DEF o, relevant
  <2>2. [call[c] EXCEPT !.op = o, !.found = delivered, !.introduced = delivered] \in CallRecords
    <3> HIDE DEF CallRecords
    <3>1. QED
      BY <2>1, CallTyped, Replaced
  <2>3. QED
    BY <2>2 DEF o
<1>4. call' = [call EXCEPT ![c] = r]
  BY <1>1 DEF Inv, Types
<1>5. CallType' /\ Others(c) /\ call'[c] = r
  <2> HIDE DEF r
  <2>1. QED
    BY <1>3, <1>4, CallChange
<1>6. Types'
  BY <1>1, <1>2, <1>5 DEF Inv, Types
<1>7. /\ r.at = "op" /\ r.op \in {"over", "writing"} /\ r.attempted /\ r.outcome = "found"
      /\ r.shown = {} /\ r.found = delivered /\ r.introduced = delivered
      /\ r.query = call[c].query /\ (r.op = "over" => delivered = {})
  BY <1>2, CallTyped
<1>8. Places(c)' /\ Locks(c)'
  BY <1>2, <1>5, <1>7 DEF Places, Locks
<1>9. Held(c)' \subseteq delivered /\ Kept(c)' = {} /\ Accounted(c) = {}
      /\ Accounted(c)' = delivered
  BY <1>2, <1>5, <1>7 DEF Held, Kept, Accounted
<1>10. \A d \in Calls : Locks(d)'
  BY <1>1, <1>2, <1>5, <1>6, <1>8, LocksKept DEF Inv, Types
<1>11. /\ Held(c)' \cap Kept(c)' = {} /\ surfaced \ surfaced' \subseteq Held(c)
       /\ Held(c)' \cup Kept(c)' \subseteq surfaced' \ surfaced
       /\ surfaced' \subseteq surfaced \cup Accounted(c)'
  BY <1>1, <1>2, <1>9
<1>12. QED
  BY <1>5, <1>6, <1>8, <1>9, <1>10, <1>11, ClaimStep

LEMMA WrittenStep == ASSUME NEW c \in Calls, Inv, OpWritten(c) PROVE Inv'
<1> DEFINE r == [call[c] EXCEPT !.op = "over"]
<1>a. r \in CallRecords
  BY CallTyped
<1>b. call' = [call EXCEPT ![c] = r]
  BY DEF Inv, Types, OpWritten
<1>0. CallType' /\ Others(c) /\ call'[c] = r
  BY <1>a, <1>b, CallChange
<1>1. Types' /\ UNCHANGED <<rows, surfaced, inside>>
  BY <1>0 DEF Inv, Types, OpWritten
<1>2. /\ call[c].op = "writing" /\ call[c].attempted /\ call[c].introduced = call[c].found
      /\ call[c].at = "op" /\ call[c].shown = {} /\ call[c].outcome = "found"
  BY DEF OpWritten, Serving, Inv, Places
<1>3. r.at = "op" /\ r.op = "over" /\ r.attempted /\ r.shown = {} /\ r.outcome = "found"
      /\ r.found = call[c].found /\ r.query = call[c].query
  BY <1>2, CallTyped
<1>4. Places(c)' /\ Locks(c)' /\ Held(c)' = {} /\ Kept(c)' = Held(c)
  BY <1>0, <1>1, <1>2, <1>3 DEF Places, Locks, Held, Kept, Inv
<1>5. Accounted(c)' = Accounted(c)
  BY <1>0, <1>2, <1>3 DEF Accounted, Held
<1>6. \A d \in Calls : Locks(d)'
  BY <1>0, <1>1, <1>4, LocksKept
<1>7. Held(c) \subseteq surfaced
  BY DEF Inv, Claims
<1>8. QED
  BY <1>0, <1>1, <1>4, <1>5, <1>6, <1>7, ClaimStep

LEMMA CancelledOpStep == ASSUME NEW c \in Calls, Inv, OpCancelled(c) PROVE Inv'
<1> DEFINE r == [call[c] EXCEPT !.op = IF @ \in {"rpc", "answered"} THEN "unwinding" ELSE "none",
                                !.introduced = {}]
<1>a. r \in CallRecords
  <2> DEFINE o == IF call[c].op \in {"rpc", "answered"} THEN "unwinding" ELSE "none"
  <2>1. o \in OpStates /\ {} \in SUBSET Memories /\ r = [call[c] EXCEPT !.op = o, !.introduced = {}]
    OBVIOUS
  <2> HIDE DEF o, r, CallRecords
  <2>2. QED
    BY <2>1, CallTyped, Replaced
<1>b. call' = [call EXCEPT ![c] = r]
  BY DEF Inv, Types, OpCancelled
<1>0. CallType' /\ Others(c) /\ call'[c] = r
  <2> HIDE DEF r
  <2>1. QED
    BY <1>a, <1>b, CallChange
<1>1. Types' /\ UNCHANGED <<rows, inside>>
  BY <1>0 DEF Inv, Types, OpCancelled
<1>2. /\ call[c].at = "done" /\ call[c].op \notin {"none", "over", "unwinding"}
      /\ surfaced' = surfaced \ Held(c)
  BY DEF OpCancelled, Abandoned, Inv, Places, Held
<1>3. r.at = "done" /\ r.op \in {"none", "unwinding"} /\ r.attempted = call[c].attempted
      /\ r.shown = call[c].shown /\ r.found = call[c].found /\ r.introduced = {}
  BY <1>2, CallTyped
<1>4. Places(c)' /\ Locks(c)' /\ Held(c)' = {} /\ Kept(c)' \subseteq Kept(c)
  BY <1>0, <1>2, <1>3 DEF Places, Locks, Held, Kept, Inv
<1>5. Accounted(c) \ Held(c) \subseteq Accounted(c)'
  BY <1>0, <1>2, <1>3 DEF Accounted, Held
<1>6. \A d \in Calls : Locks(d)'
  BY <1>0, <1>1, <1>4, LocksKept
<1>7. Kept(c) \subseteq surfaced' /\ surfaced \ surfaced' \subseteq Held(c)
  BY <1>2 DEF Inv, Claims
<1>8. QED
  BY <1>0, <1>1, <1>2, <1>4, <1>5, <1>6, <1>7, ClaimStep

LEMMA LeaveCancelledStep == ASSUME NEW c \in Calls, Inv, LeaveCancelled(c) PROVE Inv'
<1> DEFINE r == Left(c, {})
<1>a. r \in CallRecords
  BY LeftTyped
<1>b. call' = [call EXCEPT ![c] = r]
  BY DEF LeaveCancelled, Leave
<1>0. CallType' /\ Others(c) /\ call'[c] = r
  BY <1>a, <1>b, CallChange
<1>1. Types' /\ UNCHANGED rows
  BY <1>0 DEF Inv, Types, LeaveCancelled, Leave, Unlocked
<1>2. /\ call[c].at \in Running /\ call[c].shown = {}
      /\ call[c].at = "recording" => call[c].op = "none" /\ ~call[c].attempted
      /\ call[c].op = "writing" => call[c].attempted
      /\ surfaced' = IF call[c].at = "recording" THEN surfaced \ Held(c) ELSE surfaced
  BY DEF LeaveCancelled, Inv, Places, Held
<1>3. /\ r.at = "done" /\ r.attempted = call[c].attempted /\ r.shown = {}
      /\ r.op = (IF call[c].op = "over" THEN "none" ELSE call[c].op)
      /\ r.introduced = (IF call[c].op = "writing" THEN call[c].introduced ELSE {})
      /\ r.found = (IF call[c].op = "over" THEN call[c].found ELSE {})
  BY CallTyped DEF Left
<1>4. Places(c)'
  BY <1>0, <1>2, <1>3 DEF Places, Inv
<1>5. Locks(c)'
  BY <1>0, <1>3 DEF Locks
<1>6. Held(c)' = (IF call[c].at = "recording" THEN {} ELSE Held(c)) /\ Kept(c)' = {}
  BY <1>0, <1>2, <1>3 DEF Held, Kept
<1>7. Accounted(c) \ Held(c) \subseteq Accounted(c)'
  BY <1>0, <1>2, <1>3 DEF Accounted, Held
<1>8. call[c].at # "recording" => Held(c) \subseteq Accounted(c)'
  BY <1>6 DEF Accounted
<1>9. \A d \in Calls : Locks(d)'
  BY <1>0, <1>1, <1>5, LocksKept DEF LeaveCancelled, Leave, Unlocked
<1>10. Held(c) \subseteq surfaced
  BY DEF Inv, Claims
<1>11. /\ Held(c)' \cup Kept(c)' \subseteq Held(c) /\ Held(c)' \cup Kept(c)' \subseteq surfaced'
       /\ surfaced \ surfaced' \subseteq Held(c) /\ surfaced' \subseteq surfaced
       /\ surfaced' \cap Accounted(c) \subseteq Accounted(c)'
  BY <1>2, <1>6, <1>7, <1>8, <1>10
<1>12. QED
  BY <1>0, <1>1, <1>4, <1>6, <1>9, <1>11, ClaimStep

(* The clocks, an expiring row and a shared cooldown touch no claim.       *)
LEMMA TimeStep ==
  ASSUME Inv, UNCHANGED <<call, surfaced, inside>>,
         \/ UNCHANGED rows
         \/ \E q \in Queries : rows' = [rows EXCEPT ![q] = NoRow]
  PROVE  Inv'
<1>1. Types' /\ \A c \in Calls : Locks(c)'
  BY DEF Inv, Types, Locks
<1>2. \A c \in Calls : Places(c)' /\ Held(c)' = Held(c) /\ Kept(c)' = Kept(c)
  BY DEF Inv, Places, Held, Kept
<1>3. Claims' /\ NoSilentSuppression'
  BY <1>2 DEF Inv, Claims, NoSilentSuppression, MayRelease
<1>4. QED
  BY <1>1, <1>2, <1>3 DEF Inv

LEMMA InvStep == Inv /\ [Next]_vars => Inv'
<1> SUFFICES ASSUME Inv, [Next]_vars PROVE Inv'
  OBVIOUS
<1>1. CASE \E c \in Calls : CallStep(c)
  BY <1>1, EnterStep, LookupStep, AcquireHitStep, SpentStep, MissStep, RecordedStep,
     TimedOutStep, LeaveCancelledStep, FinishStep DEF CallStep
<1>2. CASE \E c \in Calls : OpStep(c)
  BY <1>2, OpStartStep, OpReadStep, RankStep, WrittenStep, CancelledOpStep DEF OpStep
<1>3. CASE \E c \in Calls : Fire(c) \/ Cancel(c) \/ OpUnwound(c)
  BY <1>3, FireStep, CancelStep, UnwoundStep
<1>4. ASSUME NEW c \in Calls, NEW a \in Answers, OpAnswer(c, a[1], a[2]) PROVE Inv'
  <2>1. a[1] \in Outcomes /\ a[2] \in SUBSET Memories /\ (a[1] # "found" => a[2] = {})
    BY DEF Answers
  <2>2. QED
    BY <1>4, <2>1, OpAnswerStep
<1>5. CASE BreakerTick \/ WindowPasses \/ \E q \in Queries : CooldownEnds(q) \/ RowExpires(q)
  BY <1>5, TimeStep DEF BreakerTick, WindowPasses, CooldownEnds, RowExpires
<1>6. CASE UNCHANGED vars
  BY <1>6, TimeStep DEF vars
<1>7. QED
  BY <1>1, <1>2, <1>3, <1>4, <1>5, <1>6 DEF Next

LEMMA InvAlways == Spec => []Inv
BY InvInit, InvStep, PTL DEF Spec

(* Two searches never show the same memory, whatever is cancelled, times   *)
(* out or is abandoned around them.                                        *)
THEOREM SearchesShowOnce == Spec => []MissesShowOnce
<1>1. Inv => MissesShowOnce
  BY DEF Inv, Claims, Kept, MissesShowOnce
<1>2. QED
  BY <1>1, InvAlways, PTL

(* A memory is never suppressed for the rest of a session for a call that  *)
(* showed it to nobody and could still give it back.                       *)
THEOREM SuppressionIsEarned == Spec => []NoSilentSuppression
<1>1. Inv => NoSilentSuppression
  BY DEF Inv
<1>2. QED
  BY <1>1, InvAlways, PTL

(* A row is written where there was none, while a call holds the lock of   *)
(* its key and keeps it.                                                   *)
THEOREM RowsWrittenUnderLock == Spec => RowsUnderLock
<1> DEFINE Orderly == \A q \in Queries : rows'[q] # rows[q] /\ rows'[q] # NoRow =>
                        rows[q] = NoRow /\ inside[q] # Nobody /\ inside'[q] = inside[q]
<1>1. Inv /\ Next => Orderly \/ UNCHANGED rows
  <2> SUFFICES ASSUME Inv, Next, ~UNCHANGED rows PROVE Orderly
    OBVIOUS
  <2>1. ASSUME NEW c \in Calls, OpRank(c) PROVE Orderly
    <3>1. call[c].at = "op" /\ call[c].op = "ranking" /\ call[c].query \in Queries
      BY <2>1, CallTyped DEF OpRank, Serving
    <3>2. rows[call[c].query] = NoRow /\ inside[call[c].query] = c
      BY <3>1 DEF Inv, Locks
    <3>3. UNCHANGED inside /\ \E x \in SUBSET Memories : rows' = [rows EXCEPT ![call[c].query] = x]
      BY <2>1, CallTyped DEF OpRank, Rank
    <3>4. QED
      BY <3>1, <3>2, <3>3 DEF Inv, Types
  <2>2. CASE \E q \in Queries : RowExpires(q)
    BY <2>2 DEF RowExpires, Inv, Types
  <2>3. QED
    BY <2>1, <2>2 DEF Next, CallStep, OpStep, Enter, Lookup, AcquireHit, AcquireSpent,
       AcquireMiss, Recorded, TimedOut, LeaveCancelled, Finish, OpRefused, OpStart, OpFailed,
       OpRead, OpWritten, OpCancelled, Fire, Cancel, OpUnwound, OpAnswer, BreakerTick,
       WindowPasses, CooldownEnds
<1>2. Inv /\ [Next]_vars => [Orderly]_vars
  BY <1>1 DEF vars
<1>3. QED
  BY <1>2, InvAlways, PTL DEF Spec, RowsUnderLock

(* The calls write the breaker only by recording outcomes.                 *)
LEMMA CallsRecord == Spec => BreakerSpec
<1>1. EngineInit => Init
  BY DEF EngineInit
<1>2. [Next]_vars => [RecordSuccess \/ RecordFailure \/ Tick]_breaker
  BY DEF Next, CallStep, OpStep, Enter, Lookup, AcquireHit, AcquireSpent,
     AcquireMiss, Recorded, TimedOut, LeaveCancelled, Finish, OpRefused, OpStart, OpFailed,
     OpRead, OpRank, OpWritten, OpCancelled, Fire, Cancel, OpUnwound, OpAnswer, BreakerTick,
     WindowPasses, CooldownEnds, RowExpires, vars
<1>3. QED
  BY <1>1, <1>2, PTL DEF Spec, BreakerSpec

(* Overlapping searches, late timeouts and probes: an outage is extended   *)
(* only by a probe that fails.                                             *)
THEOREM SurfacingOutages == Spec => OutageNotExtended
BY CallsRecord, OutageNeverExtended
-----------------------------------------------------------------------------
(* The rate window: its claims are of different calls, each past its gate, *)
(* and one that has returned reached the LTM.                              *)
Distinct(s) == \A i, j \in 1..Len(s) : s[i] = s[j] => i = j

Earned(r) == r.at # "idle" /\ (r.at = "done" => r.attempted)

Window ==
  /\ claims \in Seq(Calls) /\ Len(claims) <= RateLimit
  /\ Distinct(claims)
  /\ \A i \in 1..Len(claims) : Earned(call[claims[i]])

(* Removing one element of a sequence whose elements differ.               *)
LEMMA RemoveAtProperties ==
  ASSUME NEW s \in Seq(Calls), Distinct(s), NEW i \in 1..Len(s)
  PROVE  /\ RemoveAt(s, i) \in Seq(Calls) /\ Len(RemoveAt(s, i)) = Len(s) - 1
         /\ Distinct(RemoveAt(s, i))
         /\ \A j \in 1..Len(RemoveAt(s, i)) :
              \E k \in 1..Len(s) : k # i /\ RemoveAt(s, i)[j] = s[k]
         /\ \A k \in 1..Len(s) :
              k # i => \E j \in 1..Len(RemoveAt(s, i)) : RemoveAt(s, i)[j] = s[k]
<1> DEFINE rest == RemoveAt(s, i)
<1>1. /\ Len(s) \in Nat /\ rest \in Seq(Calls) /\ Len(rest) = Len(s) - 1
      /\ \A j \in 1..(Len(s) - 1) : rest[j] = IF j < i THEN s[j] ELSE s[j + 1]
  <2>1. Len(s) \in Nat /\ \A k \in 1..Len(s) : s[k] \in Calls
    OBVIOUS
  <2> DEFINE before == SubSeq(s, 1, i - 1)
             after == SubSeq(s, i + 1, Len(s))
  <2>2. /\ before \in Seq(Calls) /\ Len(before) = i - 1
        /\ \A j \in 1..(i - 1) : before[j] = s[j]
    OBVIOUS
  <2>3. /\ after \in Seq(Calls) /\ Len(after) = Len(s) - i
        /\ \A j \in 1..(Len(s) - i) : after[j] = s[i + j]
    OBVIOUS
  <2>4. rest = before \o after
    BY DEF RemoveAt
  <2> HIDE DEF before, after, rest
  <2>5. rest \in Seq(Calls) /\ Len(rest) = Len(s) - 1
    <3>1. rest \in Seq(Calls) /\ Len(rest) = Len(before) + Len(after)
      BY <2>2, <2>3, <2>4, ConcatProperties
    <3>2. QED
      BY <2>1, <2>2, <2>3, <3>1
  <2>6. ASSUME NEW j \in 1..(Len(s) - 1) PROVE rest[j] = IF j < i THEN s[j] ELSE s[j + 1]
    <3>0. j \in 1..(Len(before) + Len(after))
      BY <2>1, <2>2, <2>3
    <3>1. rest[j] = IF j <= Len(before) THEN before[j] ELSE after[j - Len(before)]
      BY <2>2, <2>3, <2>4, <3>0, ConcatProperties
    <3>2. CASE j < i
      BY <2>1, <2>2, <3>1, <3>2
    <3>3. CASE ~(j < i)
      <4>1. j - (i - 1) \in 1..(Len(s) - i) /\ i + (j - (i - 1)) = j + 1 /\ ~(j <= i - 1)
        BY <2>1, <3>3
      <4>2. QED
        BY <2>2, <2>3, <3>1, <3>3, <4>1
    <3>4. QED
      BY <3>2, <3>3
  <2>7. QED
    BY <2>1, <2>5, <2>6
<1>2. \A j \in 1..Len(rest) : \E k \in 1..Len(s) : k # i /\ rest[j] = s[k]
  <2> SUFFICES ASSUME NEW j \in 1..Len(rest) PROVE \E k \in 1..Len(s) : k # i /\ rest[j] = s[k]
    OBVIOUS
  <2>1. CASE j < i
    BY <1>1, <2>1
  <2>2. CASE ~(j < i)
    BY <1>1, <2>2
  <2>3. QED
    BY <2>1, <2>2
<1>3. \A k \in 1..Len(s) : k # i => \E j \in 1..Len(rest) : rest[j] = s[k]
  <2> SUFFICES ASSUME NEW k \in 1..Len(s), k # i PROVE \E j \in 1..Len(rest) : rest[j] = s[k]
    OBVIOUS
  <2>1. CASE k < i
    BY <1>1, <2>1
  <2>2. CASE k > i
    <3>1. k - 1 \in 1..Len(rest) /\ ~(k - 1 < i) /\ (k - 1) + 1 = k
      BY <1>1, <2>2
    <3>2. rest[k - 1] = s[k]
      BY <1>1, <3>1
    <3>3. QED
      BY <3>1, <3>2
  <2>3. QED
    BY <2>1, <2>2
<1>4. Distinct(rest)
  BY <1>1 DEF Distinct
<1>5. QED
  BY <1>1, <1>2, <1>3, <1>4

LEMMA ReleasedProperties ==
  ASSUME Window, NEW c \in Calls
  PROVE  /\ Released(c) \in Seq(Calls) /\ Len(Released(c)) <= Len(claims)
         /\ Distinct(Released(c))
         /\ \A j \in 1..Len(Released(c)) :
              \E k \in 1..Len(claims) : claims[k] # c /\ Released(c)[j] = claims[k]
         /\ \A k \in 1..Len(claims) :
              claims[k] # c => \E j \in 1..Len(Released(c)) : Released(c)[j] = claims[k]
<1>0. claims \in Seq(Calls) /\ Distinct(claims) /\ Len(claims) \in Nat
      /\ DOMAIN claims = 1..Len(claims)
  BY LenProperties DEF Window
<1>1. CASE c \in ToSet(claims)
  <2> DEFINE i == CHOOSE i \in DOMAIN claims : claims[i] = c
  <2>1. i \in 1..Len(claims) /\ claims[i] = c
    BY <1>0, <1>1 DEF ToSet
  <2>2. Released(c) = RemoveAt(claims, i)
    BY <1>1 DEF Released
  <2> HIDE DEF i
  <2>3. \A k \in 1..Len(claims) : k # i <=> claims[k] # c
    BY <1>0, <2>1 DEF Distinct
  <2>4. /\ RemoveAt(claims, i) \in Seq(Calls) /\ Len(RemoveAt(claims, i)) = Len(claims) - 1
        /\ Distinct(RemoveAt(claims, i))
        /\ \A j \in 1..Len(RemoveAt(claims, i)) :
             \E k \in 1..Len(claims) : k # i /\ RemoveAt(claims, i)[j] = claims[k]
        /\ \A k \in 1..Len(claims) :
             k # i => \E j \in 1..Len(RemoveAt(claims, i)) : RemoveAt(claims, i)[j] = claims[k]
    BY <1>0, <2>1, RemoveAtProperties
  <2>5. QED
    BY <1>0, <2>2, <2>3, <2>4
<1>2. CASE c \notin ToSet(claims)
  <2>1. Released(c) = claims /\ \A k \in 1..Len(claims) : claims[k] # c
    BY <1>0, <1>2 DEF Released, ToSet
  <2>2. QED
    BY <1>0, <2>1
<1>3. QED
  BY <1>1, <1>2

(* What a step may do to the window, and to the call that does it.         *)
Stays(c) == UNCHANGED claims /\ Others(c) /\ (Earned(call[c]) => Earned(call'[c]))
Enters(c) ==
  /\ call[c].at = "idle" /\ Len(claims) < RateLimit
  /\ claims' = Append(claims, c) /\ Others(c) /\ call'[c].at = "scoping"
GivesBack(c) == claims' = Released(c) /\ Others(c) /\ ~call'[c].attempted
Ages == claims # <<>> /\ claims' = Tail(claims) /\ UNCHANGED call

LEMMA LeaveEffect ==
  ASSUME Inv, NEW c \in Calls, NEW showing \in SUBSET Memories, Leave(c, showing)
  PROVE  Stays(c) \/ GivesBack(c)
<1>1. call'[c].at = "done" /\ call'[c].attempted = call[c].attempted /\ Others(c)
  BY DEF Inv, Types, Leave, Left, Others
<1>2. QED
  BY <1>1, CallTyped DEF Leave, Settled, Stays, GivesBack, Earned

LEMMA RenderEffect ==
  ASSUME Inv, NEW c \in Calls, call[c].at \in {"scoping", "queued"},
         RenderCached(c) \/ RenderNothing(c)
  PROVE  Stays(c) \/ GivesBack(c)
<1>1. CASE RenderCached(c)
  <2>1. PICK d : call' = [call EXCEPT ![c].at = "recording", ![c].found = d,
                            ![c].introduced = d \ surfaced]
    BY <1>1 DEF RenderCached
  <2>2. UNCHANGED claims /\ call'[c].at = "recording" /\ Others(c)
    <3>1. call'[c].at = "recording" /\ Others(c)
      BY <2>1 DEF Inv, Types, Others
    <3>2. QED
      BY <1>1, <3>1 DEF RenderCached
  <2>3. QED
    BY <2>2 DEF Stays, Earned
<1>2. CASE RenderNothing(c)
  <2>1. ~call[c].attempted
    BY DEF Inv, Places
  <2>2. QED
    BY <1>2, <2>1 DEF RenderNothing, Left, Inv, Types, Others, GivesBack
<1>3. QED
  BY <1>1, <1>2

LEMMA CallEffect ==
  ASSUME Inv, NEW c \in Calls, CallStep(c)
  PROVE  Stays(c) \/ Enters(c) \/ GivesBack(c)
<1>1. CASE Enter(c)
  BY <1>1 DEF Enter, Admits, Inv, Types, Others, Stays, Enters, Earned
<1>2. CASE Lookup(c)
  <2>1. CASE rows[call[c].query] # NoRow
    BY <1>2, <2>1, RenderEffect DEF Lookup
  <2>2. CASE rows[call[c].query] = NoRow
    BY <1>2, <2>2 DEF Lookup, Inv, Types, Others, Stays, Earned
  <2>3. QED
    BY <2>1, <2>2
<1>3. CASE AcquireHit(c)
  BY <1>3, RenderEffect DEF AcquireHit, Free
<1>4. CASE AcquireMiss(c)
  BY <1>4 DEF AcquireMiss, Inv, Types, Others, Stays, Earned
<1>5. CASE AcquireSpent(c) \/ Recorded(c) \/ TimedOut(c) \/ LeaveCancelled(c) \/ Finish(c)
  <2>1. \E showing \in SUBSET Memories : Leave(c, showing)
    BY <1>5, CallTyped DEF AcquireSpent, Recorded, TimedOut, LeaveCancelled, Finish
  <2>2. QED
    BY <2>1, LeaveEffect
<1>6. QED
  BY <1>1, <1>2, <1>3, <1>4, <1>5 DEF CallStep

LEMMA OpEffect ==
  ASSUME Inv, NEW c \in Calls,
         OpStep(c) \/ Fire(c) \/ Cancel(c) \/ OpUnwound(c)
           \/ \E a \in Answers : OpAnswer(c, a[1], a[2])
  PROVE  Stays(c)
<1> USE DEF Inv, Types, Others, Stays, Earned
<1>1. CASE OpRefused(c) \/ OpStart(c) \/ OpFailed(c) \/ OpRead(c) \/ OpWritten(c)
  BY <1>1 DEF OpRefused, OpStart, OpFailed, OpRead, OpWritten
<1>2. CASE OpRank(c)
  <2>1. PICK d : UNCHANGED claims /\ call' = [call EXCEPT
           ![c].op = IF d = {} THEN "over" ELSE "writing", ![c].found = d, ![c].introduced = d]
    BY <1>2 DEF OpRank, Rank
  <2> DEFINE r == [call[c] EXCEPT !.op = IF d = {} THEN "over" ELSE "writing",
                                  !.found = d, !.introduced = d]
  <2>2. call' = [call EXCEPT ![c] = r] /\ UNCHANGED claims
    BY <2>1
  <2>3. r.at = call[c].at /\ r.attempted = call[c].attempted
    BY CallTyped
  <2> HIDE DEF r
  <2>4. call'[c] = r /\ Others(c)
    BY <2>2
  <2>5. QED
    BY <2>2, <2>3, <2>4
<1>3. CASE OpCancelled(c)
  BY <1>3 DEF OpCancelled
<1>4. CASE Fire(c) \/ Cancel(c) \/ OpUnwound(c)
  BY <1>4 DEF Fire, Cancel, OpUnwound
<1>5. CASE \E a \in Answers : OpAnswer(c, a[1], a[2])
  <2>1. PICK a \in Answers : OpAnswer(c, a[1], a[2])
    BY <1>5
  <2>2. UNCHANGED claims /\ \E o, f : call' = [call EXCEPT ![c].op = "answered", ![c].outcome = o,
                                                       ![c].found = f]
    BY <2>1 DEF OpAnswer
  <2>3. QED
    BY <2>2
<1>6. QED
  BY <1>1, <1>2, <1>3, <1>4, <1>5 DEF OpStep

LEMMA WindowEffect ==
  ASSUME Inv, [Next]_vars
  PROVE  \/ \E c \in Calls : Stays(c) \/ Enters(c) \/ GivesBack(c)
         \/ Ages \/ UNCHANGED <<claims, call>>
<1>1. CASE \E c \in Calls : CallStep(c)
  BY <1>1, CallEffect
<1>2. CASE \E c \in Calls : OpStep(c) \/ Fire(c) \/ Cancel(c) \/ OpUnwound(c)
             \/ \E a \in Answers : OpAnswer(c, a[1], a[2])
  BY <1>2, OpEffect
<1>3. CASE BreakerTick \/ WindowPasses \/ (\E q \in Queries : CooldownEnds(q) \/ RowExpires(q))
             \/ UNCHANGED vars
  BY <1>3 DEF BreakerTick, WindowPasses, CooldownEnds, RowExpires, vars, Ages
<1>4. QED
  BY <1>1, <1>2, <1>3 DEF Next

LEMMA WindowStep ==
  ASSUME Inv, Window, [Next]_vars PROVE Window'
<1>0. /\ claims \in Seq(Calls) /\ Len(claims) \in Nat /\ Len(claims) <= RateLimit
      /\ RateLimit \in Nat /\ Distinct(claims)
      /\ \A i \in 1..Len(claims) : claims[i] \in Calls /\ Earned(call[claims[i]])
  BY LenProperties, ElementOfSeq DEF Window
<1>1. ASSUME NEW c \in Calls, Stays(c) PROVE Window'
  BY <1>0, <1>1 DEF Stays, Window, Others, Earned
<1>2. ASSUME NEW c \in Calls, Enters(c) PROVE Window'
  <2>1. \A i \in 1..Len(claims) : claims[i] # c
    BY <1>0, <1>2 DEF Enters, Earned
  <2>2. /\ claims' \in Seq(Calls) /\ Len(claims') = Len(claims) + 1 /\ claims'[Len(claims) + 1] = c
        /\ \A i \in 1..Len(claims) : claims'[i] = claims[i]
    BY <1>0, <1>2, AppendProperties DEF Enters
  <2>3. Distinct(claims')
    BY <1>0, <2>1, <2>2 DEF Distinct
  <2>4. \A i \in 1..Len(claims') : Earned(call'[claims'[i]])
    BY <1>0, <1>2, <2>1, <2>2 DEF Enters, Others, Earned
  <2>5. Len(claims') <= RateLimit
    BY <1>0, <1>2, <2>2 DEF Enters
  <2>6. QED
    BY <2>2, <2>3, <2>4, <2>5 DEF Window
<1>3. ASSUME NEW c \in Calls, GivesBack(c) PROVE Window'
  <2>1. /\ claims' \in Seq(Calls) /\ Len(claims') <= Len(claims) /\ Distinct(claims')
        /\ Len(claims') \in Nat
        /\ \A j \in 1..Len(claims') : \E k \in 1..Len(claims) : claims[k] # c /\ claims'[j] = claims[k]
    <3>1. claims' = Released(c) /\ claims \in Seq(Calls) /\ Distinct(claims)
      BY <1>0, <1>3 DEF GivesBack
    <3> DEFINE left == Released(c)
    <3>2. /\ left \in Seq(Calls) /\ Len(left) <= Len(claims) /\ Distinct(left)
          /\ \A j \in 1..Len(left) : \E k \in 1..Len(claims) : claims[k] # c /\ left[j] = claims[k]
      BY ReleasedProperties
    <3>3. claims' = left
      BY <3>1
    <3> HIDE DEF left
    <3>4. Len(left) \in Nat
      BY <3>2, LenProperties
    <3>5. QED
      BY <3>2, <3>3, <3>4
  <2>2. \A i \in 1..Len(claims') : Earned(call'[claims'[i]])
    <3>1. TAKE i \in 1..Len(claims')
    <3>2. PICK k \in 1..Len(claims) : claims[k] # c /\ claims'[i] = claims[k]
      BY <2>1, <3>1
    <3>3. call'[claims[k]] = call[claims[k]] /\ Earned(call[claims[k]])
      BY <1>0, <1>3, <3>2 DEF GivesBack, Others
    <3>4. QED
      BY <3>2, <3>3
  <2>3. QED
    BY <1>0, <2>1, <2>2 DEF Window
<1>4. CASE Ages
  <2>1. /\ claims' \in Seq(Calls) /\ Len(claims') = Len(claims) - 1
        /\ \A i \in 1..Len(claims') : claims'[i] = claims[i + 1]
    BY <1>0, <1>4, HeadTailProperties DEF Ages
  <2>2. Distinct(claims')
    BY <1>0, <2>1 DEF Distinct
  <2>3. \A i \in 1..Len(claims') : i + 1 \in 1..Len(claims)
    BY <1>0, <2>1
  <2>4. \A i \in 1..Len(claims') : Earned(call'[claims'[i]])
    BY <1>0, <1>4, <2>1, <2>3 DEF Ages, Earned
  <2>5. QED
    BY <1>0, <2>1, <2>2, <2>4 DEF Window
<1>5. CASE UNCHANGED <<claims, call>>
  BY <1>5 DEF Window, Earned
<1>6. QED
  BY <1>1, <1>2, <1>3, <1>4, <1>5, WindowEffect

LEMMA BreakerTyped == Spec => []ClosedBelowThreshold
BY CallsRecord, BreakerSafe

LEMMA RecentTyped == recent \subseteq Queries /\ Inv /\ [Next]_vars => (recent \subseteq Queries)'
<1> SUFFICES ASSUME recent \subseteq Queries, Inv, [Next]_vars PROVE recent' \subseteq Queries
  OBVIOUS
<1>1. ASSUME NEW c \in Calls, OpRank(c) PROVE recent' \subseteq Queries
  <2>1. call[c].query \in Queries
    BY CallTyped
  <2>2. recent' \in {recent, recent \cup {call[c].query}}
    BY <1>1 DEF OpRank, Rank
  <2>3. QED
    BY <2>1, <2>2
<1>2. ASSUME NEW q \in Queries, CooldownEnds(q) PROVE recent' \subseteq Queries
  BY <1>2 DEF CooldownEnds
<1>3. QED
  BY <1>1, <1>2 DEF Next, CallStep, OpStep, Enter, Lookup, AcquireHit, AcquireSpent,
     AcquireMiss, Recorded, TimedOut, LeaveCancelled, Finish, OpRefused, OpStart, OpFailed,
     OpRead, OpWritten, OpCancelled, Fire, Cancel, OpUnwound, OpAnswer, BreakerTick,
     WindowPasses, RowExpires, vars

LEMMA WindowAlways == Spec => [](Window /\ recent \subseteq Queries)
<1>1. EngineInit => Window /\ recent \subseteq Queries
  BY DEF EngineInit, Window, Distinct
<1>2. Inv /\ Window /\ recent \subseteq Queries /\ [Next]_vars
        => (Window /\ recent \subseteq Queries)'
  BY WindowStep, RecentTyped
<1>3. QED
  BY <1>1, <1>2, InvAlways, PTL DEF Spec

(* As many different calls as the window is long.                          *)
LEMMA DistinctCount ==
  ASSUME NEW s \in Seq(Calls), Distinct(s) PROVE Cardinality(ToSet(s)) = Len(s)
<1> DEFINE f == [i \in 1..Len(s) |-> s[i]]
<1>1. Len(s) \in Nat /\ DOMAIN s = 1..Len(s)
  BY LenProperties
<1>2. f \in Bijection(1..Len(s), ToSet(s))
  BY <1>1 DEF Bijection, Injection, Surjection, IsInjective, ToSet, Distinct
<1>3. IsFiniteSet(1..Len(s)) /\ Cardinality(1..Len(s)) = Len(s)
  BY <1>1, FS_Interval
<1>4. ExistsBijection(1..Len(s), ToSet(s))
  BY <1>2 DEF ExistsBijection
<1>5. QED
  BY <1>3, <1>4, FS_Bijection

(* Slots are searches that reached the LTM or may still, never more than   *)
(* the limit; every claimed memory was shown or still may be.              *)
THEOREM ClaimsStaySound == Spec => []ClaimsAreSound
<1>1. Inv /\ Window /\ recent \subseteq Queries /\ ClosedBelowThreshold => ClaimsAreSound
  <2> SUFFICES ASSUME Inv, Window, recent \subseteq Queries, ClosedBelowThreshold
               PROVE  ClaimsAreSound
    OBVIOUS
  <2>1. TypeOK
    BY DEF TypeOK, Inv, Types, Window, ClosedBelowThreshold
  <2>2. DOMAIN claims = 1..Len(claims)
    BY LenProperties DEF Window
  <2>3. SlotsAreAttempts
    BY <2>2, DistinctCount DEF SlotsAreAttempts, Window, Earned, ToSet
  <2>4. QED
    BY <2>1, <2>3 DEF ClaimsAreSound, Inv
<1>2. QED
  BY <1>1, InvAlways, WindowAlways, BreakerTyped, PTL

(* A search that reached the LTM counts against the rate until its slot    *)
(* ages out, whoever else gives a slot back meanwhile.                     *)
THEOREM AttemptsStayCounted == Spec => AttemptsAreCounted
<1> DEFINE Counted == \A c \in Calls :
             c \in ToSet(claims) /\ c \notin ToSet(claims') /\ call'[c].attempted
               => claims' = Tail(claims) /\ call' = call
<1>1. ASSUME Inv, Window, Window', [Next]_vars PROVE Counted
  <2>1. DOMAIN claims = 1..Len(claims) /\ DOMAIN claims' = 1..Len(claims')
    BY <1>1, LenProperties DEF Window
  <2>2. ASSUME NEW d \in Calls, Stays(d) PROVE Counted
    BY <2>2 DEF Stays
  <2>3. ASSUME NEW d \in Calls, Enters(d) PROVE Counted
    <3>1. Len(claims) \in Nat /\ Len(claims') = Len(claims) + 1
          /\ \A i \in 1..Len(claims) : claims'[i] = claims[i]
      BY <1>1, <2>3, AppendProperties DEF Enters, Window
    <3>2. ToSet(claims) \subseteq ToSet(claims')
      BY <2>1, <3>1 DEF ToSet
    <3>3. QED
      BY <3>2
  <2>4. ASSUME NEW d \in Calls, GivesBack(d) PROVE Counted
    <3>1. \A c \in ToSet(claims) : c # d => c \in ToSet(claims')
      <4>1. \A k \in 1..Len(claims) :
              claims[k] # d => \E j \in 1..Len(claims') : claims'[j] = claims[k]
        <5>1. \A k \in 1..Len(claims) :
                claims[k] # d => \E j \in 1..Len(Released(d)) : Released(d)[j] = claims[k]
          BY <1>1, ReleasedProperties
        <5>2. QED
          BY <2>4, <5>1 DEF GivesBack
      <4>2. QED
        BY <2>1, <4>1 DEF ToSet
    <3>2. QED
      BY <2>4, <3>1 DEF GivesBack
  <2>5. CASE Ages
    BY <2>5 DEF Ages
  <2>6. CASE UNCHANGED <<claims, call>>
    BY <2>6
  <2>7. QED
    BY <1>1, <2>2, <2>3, <2>4, <2>5, <2>6, WindowEffect
<1>2. Inv /\ Window /\ Window' /\ [Next]_vars => [Counted]_vars
  BY <1>1
<1>3. Spec => []Window
  BY WindowAlways, PTL
<1>4. QED
  BY <1>2, <1>3, InvAlways, PTL DEF Spec, AttemptsAreCounted
-----------------------------------------------------------------------------
(* The keyed locks a surfacing call takes, for every finite set of tasks   *)
(* and every set of keys and entries.                                      *)
Steps == {"idle", "waiting", "inside"}
Futures == {"none", "pending", "woken", "cancelled", "revoked"}
Done == {"woken", "revoked"}    \* woken; possibly cancelled since

(* A task off the lock has no key and no entry; one on it has both.        *)
Tidy ==
  \A t \in Tasks : IF task[t].step = "idle" THEN task[t].key = None /\ task[t].entry = None
                   ELSE task[t].key \in Keys /\ task[t].entry \in Entries

(* The registered entry of a key is the one its tasks use.                 *)
Registered == \A t \in Tasks : task[t].step # "idle" => entries[task[t].key] = task[t].entry

(* An entry is registered under one key.                                   *)
OneKey == \A k, j \in Keys : entries[k] # None /\ entries[k] = entries[j] => k = j

(* The count of an entry is the number of tasks that use it.               *)
Users(e) == {t \in Tasks : task[t].entry = e}
Counted == \A e \in Entries : refs[e] = Cardinality(Users(e))

(* A registered entry is used.                                             *)
InUse == \A k \in Keys : entries[k] # None => \E t \in Tasks : task[t].entry = entries[k]

(* A lock is held by at most one task, and a woken waiter finds it free.   *)
HeldByOne ==
  \A t, u \in Tasks :
    /\ task[t].step = "inside" => locked[task[t].entry]
    /\ task[t].step = "inside" /\ task[u].step = "inside" /\ task[t].entry = task[u].entry => t = u

(* Waiters are ordered, and the woken one is first.                        *)
Queued ==
  \A t \in Tasks : task[t].step = "waiting" =>
    /\ \A u \in ahead[t] : task[u].step = "waiting" /\ task[u].entry = task[t].entry
    /\ \A u \in Tasks : task[u].step = "waiting" /\ task[u].entry = task[t].entry /\ u # t =>
         t \in ahead[u] \/ u \in ahead[t]
    /\ task[t].future \in Done => ~locked[task[t].entry] /\ ahead[t] = {}

LocksInv == LocksTypeOK /\ Tidy /\ Registered /\ OneKey /\ Counted /\ InUse /\ HeldByOne /\ Queued

LEMMA InitInv == LocksInit => LocksInv
<1> SUFFICES ASSUME LocksInit PROVE LocksInv
  OBVIOUS
<1>1. LocksTypeOK
  BY DEF LocksInit, LocksTypeOK, Idle, At
<1>2. Tidy /\ Registered /\ HeldByOne /\ Queued /\ InUse /\ OneKey
  BY DEF LocksInit, Idle, At, Tidy, Registered, HeldByOne, Queued, InUse, OneKey
<1>3. Counted
  <2> SUFFICES ASSUME NEW e \in Entries PROVE refs[e] = Cardinality(Users(e))
    BY DEF Counted
  <2>1. Users(e) = {}
    BY LocksAssumption DEF LocksInit, Idle, At, Users
  <2>2. QED
    BY <2>1, FS_EmptySet DEF LocksInit
<1>4. QED
  BY <1>1, <1>2, <1>3 DEF LocksInv

(* The counts after a task starts or stops to use an entry.                *)
LEMMA UserJoins ==
  ASSUME LocksInv, NEW t \in Tasks, task[t].entry = None, NEW e \in Entries,
         \A u \in Tasks : task'[u].entry = IF u = t THEN e ELSE task[u].entry,
         refs' = [refs EXCEPT ![e] = Cardinality(Users(e)) + 1]
  PROVE  Counted'
<1> SUFFICES ASSUME NEW d \in Entries PROVE refs'[d] = Cardinality(Users(d)')
  BY DEF Counted
<1>1. IsFiniteSet(Users(d)) /\ Cardinality(Users(d)) \in Nat
  BY LocksAssumption, FS_Subset, FS_CardinalityType DEF Users
<1>2. None \notin Entries
  BY LocksAssumption
<1>3. CASE d = e
  <2>1. Users(d)' = Users(d) \cup {t} /\ t \notin Users(d)
    BY <1>2, <1>3 DEF Users
  <2>2. Cardinality(Users(d)') = Cardinality(Users(d)) + 1
    BY <1>1, <2>1, FS_AddElement
  <2>3. QED
    BY <1>3, <2>2 DEF LocksInv, LocksTypeOK
<1>4. CASE d # e
  <2>1. Users(d)' = Users(d)
    BY <1>2, <1>4 DEF Users
  <2>2. QED
    BY <1>4, <2>1 DEF LocksInv, LocksTypeOK, Counted
<1>5. QED
  BY <1>3, <1>4

LEMMA UserLeaves ==
  ASSUME LocksInv, NEW t \in Tasks, NEW e \in Entries, task[t].entry = e,
         \A u \in Tasks : task'[u].entry = IF u = t THEN None ELSE task[u].entry,
         refs' = [refs EXCEPT ![e] = refs[e] - 1]
  PROVE  /\ Counted' /\ refs' \in [Entries -> Nat]
         /\ refs[e] - 1 <= 0 <=> Users(e) = {t}
<1>1. \A d \in Entries : IsFiniteSet(Users(d)) /\ Cardinality(Users(d)) \in Nat
  BY LocksAssumption, FS_Subset, FS_CardinalityType DEF Users
<1>2. None \notin Entries
  BY LocksAssumption
<1>3. Users(e)' = Users(e) \ {t} /\ t \in Users(e)
  BY <1>2 DEF Users
<1>4. /\ Cardinality(Users(e) \ {t}) = Cardinality(Users(e)) - 1
      /\ IsFiniteSet(Users(e) \ {t}) /\ Cardinality(Users(e) \ {t}) \in Nat
  <2>1. IsFiniteSet(Users(e)) /\ Users(e) \ {t} \subseteq Users(e)
    BY <1>1
  <2>2. QED
    BY <1>3, <2>1, FS_RemoveElement, FS_Subset, FS_CardinalityType
<1>5. refs[e] = Cardinality(Users(e)) /\ refs[e] \in Nat
  BY DEF LocksInv, Counted, LocksTypeOK
<1>6. \A d \in Entries : d # e => Users(d)' = Users(d)
  BY <1>2 DEF Users
<1>7. Counted'
  BY <1>3, <1>4, <1>5, <1>6 DEF LocksInv, Counted, LocksTypeOK
<1>8. refs' \in [Entries -> Nat]
  BY <1>4, <1>5 DEF LocksInv, LocksTypeOK
<1>9. refs[e] - 1 <= 0 <=> Users(e) = {t}
  <2>1. refs[e] - 1 <= 0 <=> Cardinality(Users(e) \ {t}) = 0
    BY <1>4, <1>5
  <2>2. Cardinality(Users(e) \ {t}) = 0 <=> Users(e) \ {t} = {}
    BY <1>4, FS_EmptySet
  <2>3. QED
    BY <1>3, <2>1, <2>2
<1>10. QED
  BY <1>7, <1>8, <1>9

(* Where Moved puts every task.                                            *)
LEMMA MovedFacts ==
  ASSUME NEW t \in Tasks, NEW W, task' = Moved(t, Idle, W)
  PROVE  /\ task'[t].step = "idle" /\ task'[t].key = None /\ task'[t].entry = None
         /\ \A u \in Tasks \ {t} :
              /\ task'[u].step = task[u].step /\ task'[u].key = task[u].key
              /\ task'[u].entry = task[u].entry
              /\ task'[u].future = IF u \in W THEN "woken" ELSE task[u].future
<1>1. task'[t] = Idle
  BY DEF Moved
<1>2. ASSUME NEW u \in Tasks \ {t}
      PROVE  /\ task'[u].step = task[u].step /\ task'[u].key = task[u].key
             /\ task'[u].entry = task[u].entry
             /\ task'[u].future = IF u \in W THEN "woken" ELSE task[u].future
  <2>1. CASE u \in W
    <3>1. task'[u] = With(u, "woken")
      BY <2>1 DEF Moved
    <3>2. QED
      BY <2>1, <3>1 DEF With, At
  <2>2. CASE u \notin W
    <3>1. task'[u] = task[u]
      BY <2>2 DEF Moved
    <3>2. QED
      BY <2>2, <3>1
  <2>3. QED
    BY <2>1, <2>2
<1>3. QED
  BY <1>1, <1>2 DEF Idle, At

(* What both ways to unregister do to the registry: the entry goes with    *)
(* its last user, and no sooner.                                           *)
LEMMA Unregisters ==
  ASSUME LocksInv, NEW t \in Tasks, task[t].step # "idle", NEW W,
         \A u \in W : u \in Tasks /\ u # t /\ task[u].step = "waiting",
         task' = Moved(t, Idle, W), Dropped(task[t].key, task[t].entry)
  PROVE  /\ task' \in [Tasks -> [step: Steps, key: Keys \cup {None}, entry: Entries \cup {None},
                                 future: Futures]]
         /\ entries' \in [Keys -> Entries \cup {None}] /\ refs' \in [Entries -> Nat]
         /\ Tidy' /\ Registered' /\ OneKey' /\ Counted' /\ InUse'
<1> DEFINE e == task[t].entry
           k == task[t].key
<1>1. e \in Entries /\ k \in Keys /\ entries[k] = e /\ None \notin Entries
  BY LocksAssumption DEF LocksInv, Tidy, Registered
<1>3. task' \in [Tasks -> [step: Steps, key: Keys \cup {None}, entry: Entries \cup {None},
                           future: Futures]]
  BY DEF Moved, Idle, With, At, LocksInv, LocksTypeOK, Steps, Futures
<1>4. \A u \in Tasks : IF u = t THEN task'[u].step = "idle" /\ task'[u].key = None /\ task'[u].entry = None
                       ELSE task'[u].step = task[u].step /\ task'[u].key = task[u].key
                            /\ task'[u].entry = task[u].entry
  BY MovedFacts
<1>5. /\ Counted' /\ refs' \in [Entries -> Nat]
      /\ refs[e] - 1 <= 0 <=> Users(e) = {t}
  <2>1. refs' = [refs EXCEPT ![e] = refs[e] - 1]
    BY DEF Dropped
  <2>2. \A u \in Tasks : task'[u].entry = IF u = t THEN None ELSE task[u].entry
    BY <1>4
  <2>3. QED
    BY <1>1, <2>1, <2>2, UserLeaves
<1>6. entries' = IF Users(e) = {t} THEN [entries EXCEPT ![k] = None] ELSE entries
  BY <1>1, <1>5 DEF Dropped
<1>7. Tidy'
  BY <1>4 DEF LocksInv, Tidy
<1>8. Registered'
  <2> SUFFICES ASSUME NEW u \in Tasks, task'[u].step # "idle"
               PROVE  entries'[task'[u].key] = task'[u].entry
    BY DEF Registered
  <2>1. u # t /\ task'[u].key = task[u].key /\ task'[u].entry = task[u].entry /\ task[u].step # "idle"
    BY <1>4
  <2>2. entries[task[u].key] = task[u].entry /\ task[u].key \in Keys
    BY <2>1 DEF LocksInv, Registered, Tidy
  <2>3. Users(e) = {t} => task[u].entry # e
    BY <2>1 DEF Users
  <2> HIDE DEF e, k
  <2>4. QED
    BY <1>1, <1>6, <2>1, <2>2, <2>3 DEF LocksInv, LocksTypeOK
<1>9. OneKey'
  BY <1>1, <1>6 DEF LocksInv, OneKey, LocksTypeOK
<1>10. InUse'
  <2> SUFFICES ASSUME NEW j \in Keys, entries'[j] # None
               PROVE  \E u \in Tasks : task'[u].entry = entries'[j]
    BY DEF InUse
  <2>1. entries'[j] = entries[j]
    BY <1>1, <1>6 DEF LocksInv, LocksTypeOK
  <2>2. PICK u \in Tasks : task[u].entry = entries[j]
    BY <2>1 DEF LocksInv, InUse
  <2>3. CASE u # t
    BY <1>4, <2>1, <2>2, <2>3
  <2>4. CASE u = t
    <3>1. entries[j] = e /\ j = k
      BY <1>1, <2>1, <2>2, <2>4 DEF LocksInv, OneKey
    <3>2. Users(e) # {t}
      BY <1>1, <1>6, <2>1, <3>1 DEF LocksInv, LocksTypeOK
    <3>3. PICK v \in Tasks : v # t /\ task[v].entry = e
      BY <3>2 DEF Users
    <3>4. QED
      BY <1>4, <2>1, <3>1, <3>3
  <2>5. QED
    BY <2>3, <2>4
<1>11. entries' \in [Keys -> Entries \cup {None}]
  BY <1>6 DEF LocksInv, LocksTypeOK
<1>12. QED
  BY <1>3, <1>5, <1>7, <1>8, <1>9, <1>10, <1>11

LEMMA ExitInv == ASSUME LocksInv, NEW t \in Tasks, Exit(t) PROVE LocksInv'
<1> DEFINE e == task[t].entry
           W == Woken(e, t)
<1>1. /\ task[t].step = "inside" /\ locked' = [locked EXCEPT ![e] = FALSE]
      /\ task' = Moved(t, Idle, W) /\ Dropped(task[t].key, e) /\ UNCHANGED ahead
  BY DEF Exit
<1>2. \A u \in W : /\ u \in Tasks /\ u # t /\ task[u].step = "waiting" /\ task[u].entry = e
                   /\ ahead[u] \subseteq {t} /\ task[u].future = "pending"
  BY DEF Woken, Waiters
<1>3. /\ task' \in [Tasks -> [step: Steps, key: Keys \cup {None}, entry: Entries \cup {None},
                              future: Futures]]
      /\ entries' \in [Keys -> Entries \cup {None}] /\ refs' \in [Entries -> Nat]
      /\ Tidy' /\ Registered' /\ OneKey' /\ Counted' /\ InUse'
  <2> HIDE DEF W
  <2>1. QED
    BY <1>1, <1>2, Unregisters
<1>4. e \in Entries /\ locked[e]
  BY <1>1 DEF LocksInv, Tidy, HeldByOne
<1>5. LocksTypeOK'
  BY <1>1, <1>3, <1>4 DEF LocksInv, LocksTypeOK, Steps, Futures
<1>6. HeldByOne'
  BY <1>1, <1>4, MovedFacts DEF LocksInv, HeldByOne, Tidy, LocksTypeOK
<1>7. Queued'
  <2> SUFFICES ASSUME NEW u \in Tasks, task'[u].step = "waiting"
               PROVE  /\ \A v \in ahead[u] : task'[v].step = "waiting" /\ task'[v].entry = task'[u].entry
                      /\ \A v \in Tasks : task'[v].step = "waiting" /\ task'[v].entry = task'[u].entry
                                            /\ v # u => u \in ahead[v] \/ v \in ahead[u]
                      /\ task'[u].future \in Done => ~locked'[task'[u].entry] /\ ahead[u] = {}
    BY <1>1 DEF Queued
  <2>1. u # t /\ task[u].step = "waiting" /\ task'[u].entry = task[u].entry /\ task[u].entry \in Entries
    BY MovedFacts, <1>1 DEF LocksInv, Tidy
  <2>2. \A v \in ahead[u] : v \in Tasks /\ v # t
    BY <1>1, <2>1 DEF LocksInv, Queued, LocksTypeOK
  <2>3. \A v \in ahead[u] : task'[v].step = "waiting" /\ task'[v].entry = task'[u].entry
    BY <1>1, <2>1, <2>2, MovedFacts DEF LocksInv, Queued
  <2>4. \A v \in Tasks : task'[v].step = "waiting" /\ task'[v].entry = task'[u].entry
                          /\ v # u => u \in ahead[v] \/ v \in ahead[u]
    BY <1>1, <2>1, MovedFacts DEF LocksInv, Queued
  <2>5. CASE u \in W
    <3>1. ahead[u] = {} /\ task[u].entry = e
      BY <1>2, <2>2, <2>5
    <3>2. ~locked'[e]
      BY <1>1, <1>4 DEF LocksInv, LocksTypeOK
    <3>3. QED
      BY <2>1, <2>3, <2>4, <3>1, <3>2
  <2>6. CASE u \notin W
    <3>1. task'[u].future = task[u].future
      BY <1>1, <2>1, <2>6, MovedFacts
    <3>2. task[u].future \in Done => ~locked[task[u].entry] /\ ahead[u] = {}
      BY <2>1 DEF LocksInv, Queued
    <3>3. task[u].future \in Done => ~locked'[task[u].entry]
      BY <1>1, <1>4, <2>1, <3>2 DEF LocksInv, LocksTypeOK
    <3>4. QED
      BY <2>1, <2>3, <2>4, <3>1, <3>2, <3>3
  <2>7. QED
    BY <2>5, <2>6
<1>8. QED
  BY <1>3, <1>5, <1>6, <1>7 DEF LocksInv

LEMMA ResumeCancelledInv == ASSUME LocksInv, NEW t \in Tasks, ResumeCancelled(t) PROVE LocksInv'
<1> DEFINE e == task[t].entry
           W == IF locked[e] THEN {} ELSE Woken(e, t)
<1>1. /\ task[t].step = "waiting" /\ UNCHANGED locked /\ ahead' = Dequeued(t)
      /\ task' = Moved(t, Idle, W) /\ Dropped(task[t].key, e)
  BY DEF ResumeCancelled
<1>2. \A u \in W : /\ u \in Tasks /\ u # t /\ task[u].step = "waiting" /\ task[u].entry = e
                   /\ ahead[u] \subseteq {t} /\ task[u].future = "pending" /\ ~locked[e]
  BY DEF Woken, Waiters
<1>3. /\ task' \in [Tasks -> [step: Steps, key: Keys \cup {None}, entry: Entries \cup {None},
                              future: Futures]]
      /\ entries' \in [Keys -> Entries \cup {None}] /\ refs' \in [Entries -> Nat]
      /\ Tidy' /\ Registered' /\ OneKey' /\ Counted' /\ InUse'
  <2> HIDE DEF W
  <2>1. QED
    BY <1>1, <1>2, Unregisters
<1>m. /\ task'[t].step = "idle"
      /\ \A u \in Tasks \ {t} : task'[u].step = task[u].step /\ task'[u].entry = task[u].entry
      /\ \A u \in Tasks \ {t} : u \notin W => task'[u].future = task[u].future
  <2> HIDE DEF W
  <2>1. QED
    BY <1>1, MovedFacts
<1>4. \A u \in Tasks : ahead'[u] = IF u = t THEN {} ELSE ahead[u] \ {t}
  BY <1>1 DEF Dequeued
<1>5. LocksTypeOK'
  BY <1>1, <1>3 DEF LocksInv, LocksTypeOK, Steps, Futures, Dequeued
<1>6. HeldByOne'
  BY <1>1, MovedFacts DEF LocksInv, HeldByOne, Tidy, LocksTypeOK
<1>7. Queued'
  <2> SUFFICES ASSUME NEW u \in Tasks, task'[u].step = "waiting"
               PROVE  /\ \A v \in ahead'[u] : task'[v].step = "waiting" /\ task'[v].entry = task'[u].entry
                      /\ \A v \in Tasks : task'[v].step = "waiting" /\ task'[v].entry = task'[u].entry
                                            /\ v # u => u \in ahead'[v] \/ v \in ahead'[u]
                      /\ task'[u].future \in Done => ~locked[task'[u].entry] /\ ahead'[u] = {}
    BY <1>1 DEF Queued
  <2>1. u # t /\ task[u].step = "waiting" /\ task'[u].entry = task[u].entry /\ task[u].entry \in Entries
    BY MovedFacts, <1>1 DEF LocksInv, Tidy
  <2>2. ahead'[u] = ahead[u] \ {t} /\ ahead[u] \subseteq Tasks
    BY <1>4, <2>1 DEF LocksInv, LocksTypeOK
  <2>3. \A v \in ahead'[u] : task'[v].step = "waiting" /\ task'[v].entry = task'[u].entry
    BY <1>m, <2>1, <2>2 DEF LocksInv, Queued
  <2>4. \A v \in Tasks : task'[v].step = "waiting" /\ task'[v].entry = task'[u].entry
                          /\ v # u => u \in ahead'[v] \/ v \in ahead'[u]
    <3> SUFFICES ASSUME NEW v \in Tasks, task'[v].step = "waiting",
                        task'[v].entry = task'[u].entry, v # u
                 PROVE  u \in ahead'[v] \/ v \in ahead'[u]
      OBVIOUS
    <3>1. v # t /\ task[v].step = "waiting" /\ task[v].entry = task[u].entry
      BY <1>m, <2>1
    <3>2. u \in ahead[v] \/ v \in ahead[u]
      BY <2>1, <3>1 DEF LocksInv, Queued
    <3>3. QED
      BY <1>4, <2>1, <3>1, <3>2
  <2>5. CASE u \in W
    BY <1>2, <2>1, <2>2, <2>3, <2>4, <2>5
  <2>6. CASE u \notin W
    <3>1. task'[u].future = task[u].future
      BY <1>m, <2>1, <2>6
    <3>2. task[u].future \in Done => ~locked[task[u].entry] /\ ahead[u] = {}
      BY <2>1 DEF LocksInv, Queued
    <3>3. QED
      BY <2>1, <2>2, <2>3, <2>4, <3>1, <3>2
  <2>7. QED
    BY <2>5, <2>6
<1>8. QED
  BY <1>3, <1>5, <1>6, <1>7 DEF LocksInv

(* The registry stays as it is when a task only changes its future or      *)
(* takes the lock it waited for.                                           *)
LEMMA StillRegistered ==
  ASSUME LocksInv, NEW t \in Tasks, task[t].step # "idle", NEW s \in {"waiting", "inside"}, NEW f \in Futures,
         task' = [task EXCEPT ![t] = At(s, task[t].key, task[t].entry, f)],
         UNCHANGED <<entries, refs>>
  PROVE  /\ task' \in [Tasks -> [step: Steps, key: Keys \cup {None}, entry: Entries \cup {None},
                                 future: Futures]]
         /\ \A u \in Tasks : /\ task'[u].key = task[u].key /\ task'[u].entry = task[u].entry
                             /\ u # t => task'[u] = task[u]
         /\ task'[t].step = s /\ task'[t].future = f
         /\ Tidy' /\ Registered' /\ OneKey' /\ Counted' /\ InUse'
<1>1. task[t].key \in Keys /\ task[t].entry \in Entries
  BY DEF LocksInv, Tidy
<1>2. task' \in [Tasks -> [step: Steps, key: Keys \cup {None}, entry: Entries \cup {None},
                           future: Futures]]
  BY <1>1 DEF LocksInv, LocksTypeOK, At, Steps, Futures
<1>3. /\ \A u \in Tasks : u # t => task'[u] = task[u]
      /\ task'[t] = At(s, task[t].key, task[t].entry, f)
  BY DEF LocksInv, LocksTypeOK
<1>4. \A u \in Tasks : task'[u].key = task[u].key /\ task'[u].entry = task[u].entry
  BY <1>3 DEF At
<1>5. task'[t].step = s /\ task'[t].future = f
  BY <1>3 DEF At
<1>6. Tidy' /\ Registered' /\ OneKey' /\ InUse'
  BY <1>1, <1>3, <1>4, <1>5 DEF LocksInv, Tidy, Registered, OneKey, InUse
<1>7. Counted'
  BY <1>4 DEF LocksInv, Counted, Users
<1>8. QED
  BY <1>2, <1>3, <1>4, <1>5, <1>6, <1>7

LEMMA CancelInv == ASSUME LocksInv, NEW t \in Tasks, CancelTask(t) PROVE LocksInv'
<1> DEFINE f == IF task[t].future = "pending" THEN "cancelled" ELSE "revoked"
<1>1. /\ task[t].step = "waiting" /\ UNCHANGED <<entries, refs, locked, ahead>>
      /\ task' = [task EXCEPT ![t] = At("waiting", task[t].key, task[t].entry, f)]
      /\ f \in Futures /\ (f \in Done => task[t].future \in Done)
  BY DEF CancelTask, With, Futures, Done
<1> HIDE DEF f
<1>2. /\ task' \in [Tasks -> [step: Steps, key: Keys \cup {None}, entry: Entries \cup {None},
                              future: Futures]]
      /\ \A u \in Tasks : /\ task'[u].key = task[u].key /\ task'[u].entry = task[u].entry
                          /\ u # t => task'[u] = task[u]
      /\ task'[t].step = "waiting" /\ task'[t].future = f
      /\ Tidy' /\ Registered' /\ OneKey' /\ Counted' /\ InUse'
  BY <1>1, StillRegistered
<1>3. \A u \in Tasks : task'[u].step = task[u].step
  BY <1>1, <1>2
<1>4. LocksTypeOK'
  BY <1>1, <1>2 DEF LocksInv, LocksTypeOK, Steps, Futures
<1>5. HeldByOne'
  BY <1>1, <1>2, <1>3 DEF LocksInv, HeldByOne
<1>6. Queued'
  <2> SUFFICES ASSUME NEW u \in Tasks, task[u].step = "waiting"
               PROVE  /\ \A v \in ahead[u] : task'[v].step = "waiting" /\ task'[v].entry = task[u].entry
                      /\ \A v \in Tasks : task[v].step = "waiting" /\ task[v].entry = task[u].entry
                                            /\ v # u => u \in ahead[v] \/ v \in ahead[u]
                      /\ task'[u].future \in Done => ~locked[task[u].entry] /\ ahead[u] = {}
    BY <1>1, <1>2, <1>3 DEF Queued
  <2>1. ahead[u] \subseteq Tasks
    BY DEF LocksInv, LocksTypeOK
  <2>2. \A v \in ahead[u] : task'[v].step = "waiting" /\ task'[v].entry = task[u].entry
    BY <1>2, <1>3, <2>1 DEF LocksInv, Queued
  <2>3. task'[u].future \in Done => task[u].future \in Done
    BY <1>1, <1>2
  <2>4. QED
    BY <2>2, <2>3 DEF LocksInv, Queued
<1>7. QED
  BY <1>2, <1>4, <1>5, <1>6 DEF LocksInv

LEMMA ResumeInv == ASSUME LocksInv, NEW t \in Tasks, Resume(t) PROVE LocksInv'
<1> DEFINE e == task[t].entry
<1>1. /\ task[t].step = "waiting" /\ task[t].future \in Done /\ UNCHANGED <<entries, refs>>
      /\ task' = [task EXCEPT ![t] = At("inside", task[t].key, e, "none")]
      /\ locked' = [locked EXCEPT ![e] = TRUE] /\ ahead' = Dequeued(t)
  BY DEF Resume, Done
<1>2. /\ task' \in [Tasks -> [step: Steps, key: Keys \cup {None}, entry: Entries \cup {None},
                              future: Futures]]
      /\ \A u \in Tasks : /\ task'[u].key = task[u].key /\ task'[u].entry = task[u].entry
                          /\ u # t => task'[u] = task[u]
      /\ task'[t].step = "inside"
      /\ Tidy' /\ Registered' /\ OneKey' /\ Counted' /\ InUse'
  BY <1>1, StillRegistered DEF Futures
<1>3. /\ e \in Entries /\ ~locked[e] /\ ahead[t] = {}
      /\ \A d \in Entries : locked'[d] = IF d = e THEN TRUE ELSE locked[d]
  BY <1>1 DEF LocksInv, Tidy, Queued, LocksTypeOK
<1>4. \A u \in Tasks : ahead'[u] = IF u = t THEN {} ELSE ahead[u] \ {t}
  BY <1>1 DEF Dequeued
<1>5. LocksTypeOK'
  BY <1>1, <1>2, <1>3 DEF LocksInv, LocksTypeOK, Steps, Futures, Dequeued
<1>6. HeldByOne'
  <2>1. \A u \in Tasks \ {t} : task[u].step = "inside" => task[u].entry # e /\ task[u].entry \in Entries
    BY <1>3 DEF LocksInv, HeldByOne, Tidy
  <2>2. ASSUME NEW u \in Tasks, task'[u].step = "inside"
        PROVE  locked'[task'[u].entry] /\ (u # t => task'[u].entry # e)
    <3>1. CASE u = t
      BY <1>2, <1>3, <3>1
    <3>2. CASE u # t
      <4>1. task'[u] = task[u] /\ task[u].step = "inside"
        BY <1>2, <2>2, <3>2
      <4>2. QED
        BY <1>3, <2>1, <3>2, <4>1 DEF LocksInv, HeldByOne
    <3>3. QED
      BY <3>1, <3>2
  <2>3. ASSUME NEW u \in Tasks, NEW v \in Tasks, task'[u].step = "inside",
               task'[v].step = "inside", task'[u].entry = task'[v].entry
        PROVE  u = v
    <3>1. CASE u = t \/ v = t
      BY <1>2, <2>2, <2>3, <3>1
    <3>2. CASE u # t /\ v # t
      BY <1>2, <2>3, <3>2 DEF LocksInv, HeldByOne
    <3>3. QED
      BY <3>1, <3>2
  <2>4. QED
    BY <2>2, <2>3 DEF HeldByOne
<1>7. Queued'
  <2> SUFFICES ASSUME NEW u \in Tasks, task'[u].step = "waiting"
               PROVE  /\ \A v \in ahead'[u] : task'[v].step = "waiting" /\ task'[v].entry = task'[u].entry
                      /\ \A v \in Tasks : task'[v].step = "waiting" /\ task'[v].entry = task'[u].entry
                                            /\ v # u => u \in ahead'[v] \/ v \in ahead'[u]
                      /\ task'[u].future \in Done => ~locked'[task'[u].entry] /\ ahead'[u] = {}
    BY DEF Queued
  <2>1. u # t /\ task'[u] = task[u] /\ task[u].entry \in Entries
    BY <1>2 DEF LocksInv, Tidy
  <2>2. ahead'[u] = ahead[u] \ {t} /\ ahead[u] \subseteq Tasks
    BY <1>4, <2>1 DEF LocksInv, LocksTypeOK
  <2>3. \A v \in ahead'[u] : task'[v].step = "waiting" /\ task'[v].entry = task'[u].entry
    BY <1>2, <2>1, <2>2 DEF LocksInv, Queued
  <2>4. ASSUME NEW v \in Tasks, task'[v].step = "waiting", task'[v].entry = task'[u].entry, v # u
        PROVE  u \in ahead'[v] \/ v \in ahead'[u]
    <3>1. v # t /\ task'[v] = task[v]
      BY <1>2, <2>4
    <3>2. u \in ahead[v] \/ v \in ahead[u]
      BY <2>1, <2>4, <3>1 DEF LocksInv, Queued
    <3>3. QED
      BY <1>4, <2>1, <3>1, <3>2
  <2>5. ASSUME task'[u].future \in Done
        PROVE  ~locked'[task'[u].entry] /\ ahead'[u] = {}
    <3>1. ahead[u] = {} /\ ~locked[task[u].entry]
      BY <2>1, <2>5 DEF LocksInv, Queued
    <3>2. task[u].entry # e
      BY <1>1, <1>3, <2>1, <3>1 DEF LocksInv, Queued
    <3>3. QED
      BY <1>3, <2>1, <2>2, <3>1, <3>2
  <2>6. QED
    BY <2>3, <2>4, <2>5
<1>8. QED
  BY <1>2, <1>5, <1>6, <1>7 DEF LocksInv

(* A new arrival counts itself in before it takes the lock or queues.      *)
LEMMA RegisterInv ==
  ASSUME LocksInv, NEW t \in Tasks, NEW k \in Keys, NEW e \in Entries, Register(t, k, e)
  PROVE  LocksInv'
<1> DEFINE new == entries[k] = None
           takes == new \/ MayTake(e)
           W == Waiters(e)
<1>1. /\ task[t].step = "idle" /\ task[t].key = None /\ task[t].entry = None
      /\ IF new THEN Fresh(e) ELSE e = entries[k]
      /\ entries' = [entries EXCEPT ![k] = e]
      /\ refs' = [refs EXCEPT ![e] = IF new THEN 1 ELSE refs[e] + 1]
      /\ None \notin Entries /\ None \notin Keys
  BY LocksAssumption DEF Register, Claimed, LocksInv, Tidy
<1>2. /\ takes => /\ locked' = [locked EXCEPT ![e] = TRUE] /\ ahead' = ahead
                  /\ task' = [task EXCEPT ![t] = At("inside", k, e, "none")]
      /\ ~takes => /\ locked' = locked /\ ahead' = [ahead EXCEPT ![t] = W]
                   /\ task' = [task EXCEPT ![t] = At("waiting", k, e, "pending")]
  BY DEF Register
<1>3. /\ \A u \in Tasks : u # t => task'[u] = task[u]
      /\ task'[t].key = k /\ task'[t].entry = e
      /\ takes => task'[t].step = "inside"
      /\ ~takes => task'[t].step = "waiting" /\ task'[t].future = "pending"
  <2>1. CASE takes
    BY <1>2, <2>1 DEF At, LocksInv, LocksTypeOK
  <2>2. CASE ~takes
    BY <1>2, <2>2 DEF At, LocksInv, LocksTypeOK
  <2>3. QED
    BY <2>1, <2>2
<1>4. task' \in [Tasks -> [step: Steps, key: Keys \cup {None}, entry: Entries \cup {None},
                           future: Futures]]
  <2>1. CASE takes
    BY <1>2, <2>1 DEF At, LocksInv, LocksTypeOK, Steps, Futures
  <2>2. CASE ~takes
    BY <1>2, <2>2 DEF At, LocksInv, LocksTypeOK, Steps, Futures
  <2>3. QED
    BY <2>1, <2>2
<1>5. new => \A u \in Tasks : task[u].entry # e
  BY <1>1 DEF Fresh
<1>6. /\ \A j \in Keys : entries'[j] = IF j = k THEN e ELSE entries[j]
      /\ \A j \in Keys : j # k => entries[j] # e
  <2>1. new => \A j \in Keys : entries[j] # e
    BY <1>1 DEF Fresh
  <2>2. QED
    BY <1>1, <2>1 DEF LocksInv, LocksTypeOK, OneKey
<1>7. Counted' /\ refs' \in [Entries -> Nat]
  <2>1. Cardinality(Users(e)) + 1 = IF new THEN 1 ELSE refs[e] + 1
    <3>1. CASE new
      <4>1. Users(e) = {}
        BY <1>5, <3>1 DEF Users
      <4>2. QED
        BY <3>1, <4>1, FS_EmptySet
    <3>2. CASE ~new
      BY <3>2 DEF LocksInv, Counted
    <3>3. QED
      BY <3>1, <3>2
  <2>2. refs' = [refs EXCEPT ![e] = Cardinality(Users(e)) + 1]
    BY <1>1, <2>1
  <2>3. \A u \in Tasks : task'[u].entry = IF u = t THEN e ELSE task[u].entry
    BY <1>3
  <2>4. Counted'
    BY <1>1, <2>2, <2>3, UserJoins
  <2>5. refs' \in [Entries -> Nat]
    BY <1>1 DEF LocksInv, LocksTypeOK
  <2>6. QED
    BY <2>4, <2>5
<1>8. Tidy'
  <2>1. \A u \in Tasks : u # t => IF task'[u].step = "idle" THEN task'[u].key = None /\ task'[u].entry = None
                                 ELSE task'[u].key \in Keys /\ task'[u].entry \in Entries
    BY <1>3 DEF LocksInv, Tidy
  <2>2. task'[t].step # "idle" /\ task'[t].key \in Keys /\ task'[t].entry \in Entries
    BY <1>3
  <2>3. QED
    BY <2>1, <2>2 DEF Tidy
<1>9. Registered'
  <2> SUFFICES ASSUME NEW u \in Tasks, task'[u].step # "idle"
               PROVE  entries'[task'[u].key] = task'[u].entry
    BY DEF Registered
  <2>1. CASE u = t
    BY <1>3, <1>6, <2>1
  <2>2. CASE u # t
    <3>1. task'[u] = task[u] /\ entries[task[u].key] = task[u].entry
          /\ task[u].key \in Keys /\ task[u].entry \in Entries
      BY <1>3, <2>2 DEF LocksInv, Registered, Tidy
    <3>2. task[u].key = k => entries[k] = e
      BY <1>1, <3>1
    <3>3. QED
      BY <1>6, <3>1, <3>2
  <2>3. QED
    BY <2>1, <2>2
<1>10. OneKey' /\ InUse'
  <2>1. OneKey'
    BY <1>6 DEF LocksInv, OneKey
  <2>2. ASSUME NEW j \in Keys, entries'[j] # None
        PROVE  \E u \in Tasks : task'[u].entry = entries'[j]
    <3>1. CASE j = k
      BY <1>3, <1>6, <3>1
    <3>2. CASE j # k
      <4>1. PICK u \in Tasks : task[u].entry = entries[j]
        BY <1>6, <2>2, <3>2 DEF LocksInv, InUse
      <4>2. u # t
        BY <1>1, <1>6, <2>2, <3>2, <4>1
      <4>3. QED
        BY <1>3, <1>6, <3>2, <4>1, <4>2
    <3>3. QED
      BY <3>1, <3>2
  <2>3. QED
    BY <2>1, <2>2 DEF InUse
<1>11. takes => /\ \A u \in Tasks : task[u].step = "inside" => task[u].entry # e
                /\ \A u \in Tasks : task[u].step = "waiting" /\ task[u].entry = e =>
                     task[u].future \notin Done
  BY <1>5 DEF MayTake, Waiters, LocksInv, HeldByOne, Done
<1>12. /\ \A d \in Entries : d # e => locked'[d] = locked[d]
       /\ takes => locked'[e]
       /\ ~takes => locked'[e] = locked[e]
       /\ locked' \in [Entries -> BOOLEAN]
  <2>1. CASE takes
    BY <1>2, <2>1 DEF LocksInv, LocksTypeOK
  <2>2. CASE ~takes
    BY <1>2, <2>2 DEF LocksInv, LocksTypeOK
  <2>3. QED
    BY <2>1, <2>2
<1>13. /\ \A u \in Tasks : u # t => ahead'[u] = ahead[u]
       /\ ~takes => ahead'[t] = W
       /\ ahead' \in [Tasks -> SUBSET Tasks]
  <2>1. CASE takes
    BY <1>2, <2>1 DEF LocksInv, LocksTypeOK
  <2>2. CASE ~takes
    BY <1>2, <2>2 DEF LocksInv, LocksTypeOK, Waiters
  <2>3. QED
    BY <2>1, <2>2
<1>14. LocksTypeOK'
  <2>1. entries' \in [Keys -> Entries \cup {None}]
    BY <1>1 DEF LocksInv, LocksTypeOK
  <2>2. QED
    BY <1>4, <1>7, <1>12, <1>13, <2>1 DEF LocksTypeOK, Steps, Futures
<1>15. \A u \in Tasks : task[u].step # "idle" => u # t /\ task'[u] = task[u] /\ task[u].entry \in Entries
  BY <1>1, <1>3 DEF LocksInv, Tidy
<1> HIDE DEF new, takes, W
<1>16. HeldByOne'
  <2>1. ASSUME NEW u \in Tasks, task'[u].step = "inside"
        PROVE  locked'[task'[u].entry] /\ (takes /\ u # t => task'[u].entry # e)
    <3>1. CASE u = t
      BY <1>3, <1>12, <2>1, <3>1
    <3>2. CASE u # t
      <4>1. task'[u] = task[u] /\ locked[task[u].entry] /\ task[u].entry \in Entries
        BY <1>3, <1>15, <2>1, <3>2 DEF LocksInv, HeldByOne
      <4>2. QED
        BY <1>3, <1>11, <1>12, <2>1, <3>2, <4>1
    <3>3. QED
      BY <3>1, <3>2
  <2>2. ASSUME NEW u \in Tasks, NEW v \in Tasks, task'[u].step = "inside",
               task'[v].step = "inside", task'[u].entry = task'[v].entry
        PROVE  u = v
    <3>1. CASE u # t /\ v # t
      BY <1>3, <2>2, <3>1 DEF LocksInv, HeldByOne
    <3>2. CASE u = t \/ v = t
      BY <1>3, <2>1, <2>2, <3>2
    <3>3. QED
      BY <3>1, <3>2
  <2>3. QED
    BY <2>1, <2>2 DEF HeldByOne
<1>17. Queued'
  <2> SUFFICES ASSUME NEW u \in Tasks, task'[u].step = "waiting"
               PROVE  /\ \A v \in ahead'[u] : task'[v].step = "waiting" /\ task'[v].entry = task'[u].entry
                      /\ \A v \in Tasks : task'[v].step = "waiting" /\ task'[v].entry = task'[u].entry
                                            /\ v # u => u \in ahead'[v] \/ v \in ahead'[u]
                      /\ task'[u].future \in Done => ~locked'[task'[u].entry] /\ ahead'[u] = {}
    BY DEF Queued
  <2>1. CASE u = t
    <3>1. ~takes /\ ahead'[u] = W /\ task'[u].future = "pending" /\ task'[u].entry = e
      BY <1>3, <1>13, <2>1
    <3>2. \A v \in W : task'[v].step = "waiting" /\ task'[v].entry = e
      BY <1>15 DEF W, Waiters
    <3>3. \A v \in Tasks : task'[v].step = "waiting" /\ task'[v].entry = e /\ v # u => v \in W
      BY <1>3, <2>1 DEF W, Waiters
    <3>4. QED
      BY <3>1, <3>2, <3>3 DEF Done
  <2>2. CASE u # t
    <3>1. task'[u] = task[u] /\ ahead'[u] = ahead[u] /\ ahead[u] \subseteq Tasks
          /\ task[u].step = "waiting" /\ task[u].entry \in Entries
      BY <1>3, <1>13, <1>15, <2>2 DEF LocksInv, LocksTypeOK
    <3>2. \A v \in ahead[u] : task'[v].step = "waiting" /\ task'[v].entry = task[u].entry
      BY <1>15, <3>1 DEF LocksInv, Queued
    <3>3. ASSUME NEW v \in Tasks, task'[v].step = "waiting", task'[v].entry = task[u].entry, v # u
          PROVE  u \in ahead'[v] \/ v \in ahead[u]
      <4>1. CASE v = t
        <5>1. ~takes /\ ahead'[v] = W /\ task[u].entry = e
          BY <1>3, <1>13, <3>3, <4>1
        <5>2. QED
          BY <3>1, <5>1 DEF W, Waiters
      <4>2. CASE v # t
        BY <1>3, <1>13, <3>1, <3>3, <4>2 DEF LocksInv, Queued
      <4>3. QED
        BY <4>1, <4>2
    <3>4. ASSUME task[u].future \in Done
          PROVE  ~locked'[task[u].entry] /\ ahead[u] = {}
      <4>1. ~locked[task[u].entry] /\ ahead[u] = {}
        BY <3>1, <3>4 DEF LocksInv, Queued
      <4>2. takes => task[u].entry # e
        BY <1>11, <3>1, <3>4
      <4>3. QED
        BY <1>12, <3>1, <4>1, <4>2
    <3>5. QED
      BY <3>1, <3>2, <3>3, <3>4
  <2>3. QED
    BY <2>1, <2>2
<1>18. QED
  BY <1>7, <1>8, <1>9, <1>10, <1>14, <1>16, <1>17 DEF LocksInv

LEMMA NextInv == LocksInv /\ [LocksNext]_lockVars => LocksInv'
<1> SUFFICES ASSUME LocksInv, [LocksNext]_lockVars PROVE LocksInv'
  OBVIOUS
<1>1. CASE UNCHANGED lockVars
  BY <1>1 DEF lockVars, LocksInv, LocksTypeOK, Tidy, Registered, OneKey, Counted, Users, InUse, HeldByOne, Queued
<1>2. QED
  BY <1>1, RegisterInv, ResumeInv, CancelInv, ResumeCancelledInv, ExitInv DEF LocksNext

(* No two tasks are inside one key at a time, for any number of callers of *)
(* hold() and any interleaving of their releases and cancellations.        *)
THEOREM LocksExclude == LocksSpec => []MutualExclusion
<1>1. LocksInv => MutualExclusion
  <2> SUFFICES ASSUME LocksInv, NEW t \in Tasks, NEW u \in Tasks, task[t].step = "inside",
                      task[u].step = "inside", task[t].key = task[u].key
               PROVE  t = u
    BY DEF MutualExclusion
  <2>1. task[t].entry = task[u].entry
    BY DEF LocksInv, Registered
  <2>2. QED
    BY <2>1 DEF LocksInv, HeldByOne
<1>2. QED
  BY <1>1, InitInv, NextInv, PTL DEF LocksSpec

(* The registry keeps one entry for each key in flight and no other.       *)
THEOREM NoEntryLeaks == LocksSpec => []EntriesInFlight
<1>1. LocksInv => EntriesInFlight
  <2> SUFFICES ASSUME LocksInv, NEW k \in Keys
               PROVE  /\ entries[k] # None => \E t \in Tasks : task[t].key = k
                      /\ \A t \in Tasks : task[t].key = k => entries[k] = task[t].entry
    BY DEF EntriesInFlight
  <2>1. ASSUME entries[k] # None PROVE \E t \in Tasks : task[t].key = k
    <3>1. PICK t \in Tasks : task[t].entry = entries[k]
      BY <2>1 DEF LocksInv, InUse
    <3>2. task[t].step # "idle"
      BY <2>1, <3>1 DEF LocksInv, Tidy
    <3>3. task[t].key \in Keys /\ entries[task[t].key] = entries[k]
      BY <3>1, <3>2 DEF LocksInv, Tidy, Registered
    <3>4. QED
      BY <2>1, <3>3 DEF LocksInv, OneKey
  <2>2. ASSUME NEW t \in Tasks, task[t].key = k PROVE entries[k] = task[t].entry
    BY <2>2, LocksAssumption DEF LocksInv, Tidy, Registered
  <2>3. QED
    BY <2>1, <2>2
<1>2. QED
  BY <1>1, InitInv, NextInv, PTL DEF LocksSpec

(* The counts never go negative, and every future is one asyncio knows.    *)
THEOREM LocksTyped == LocksSpec => []LocksTypeOK
<1>1. LocksInv => LocksTypeOK
  BY DEF LocksInv
<1>2. QED
  BY <1>1, InitInv, NextInv, PTL DEF LocksSpec
-----------------------------------------------------------------------------
(* The refinement of KeyMutex.                                             *)

In(t, k) == task[t].step = "inside" /\ task[t].key = k

holders == [k \in Keys |-> Holder(k)]

(* Holder names the one task inside a key, or None.                        *)
HolderNames ==
  \A k \in Keys :
    /\ \A t \in Tasks : In(t, k) => Holder(k) = t
    /\ (\A t \in Tasks : ~In(t, k)) => Holder(k) = None

LEMMA InvNames == LocksInv => HolderNames
<1> SUFFICES ASSUME LocksInv, NEW k \in Keys
             PROVE  /\ \A t \in Tasks : In(t, k) => Holder(k) = t
                    /\ (\A t \in Tasks : ~In(t, k)) => Holder(k) = None
  BY DEF HolderNames
<1>1. \A t, u \in Tasks : In(t, k) /\ In(u, k) => t = u
  BY DEF LocksInv, Registered, HeldByOne, In
<1>2. QED
  BY <1>1 DEF Holder, In

(* A key that no task enters or leaves keeps its holder.                   *)
LEMMA SameHolder ==
  ASSUME HolderNames, HolderNames', NEW k \in Keys,
         \A t \in Tasks : In(t, k)' <=> In(t, k)
  PROVE  Holder(k)' = Holder(k)
<1>1. CASE \E t \in Tasks : In(t, k)
  <2>1. PICK t \in Tasks : In(t, k)
    BY <1>1
  <2>2. QED
    BY <2>1 DEF HolderNames
<1>2. CASE \A t \in Tasks : ~In(t, k)
  BY <1>2 DEF HolderNames
<1>3. QED
  BY <1>1, <1>2

LEMMA OneKeyMoves ==
  ASSUME HolderNames, HolderNames', NEW k \in Keys,
         \A u \in Tasks, j \in Keys : j # k => (In(u, j)' <=> In(u, j))
  PROVE  holders' = [holders EXCEPT ![k] = Holder(k)']
<1>1. \A j \in Keys : j # k => Holder(j)' = Holder(j)
  BY SameHolder
<1>2. QED
  BY <1>1 DEF holders

(* A step that lets a task into a free key is an Enter, one that lets the  *)
(* holder out is a Leave, and one that does neither is a stutter.          *)
LEMMA MutexEnters ==
  ASSUME HolderNames, HolderNames', NEW t \in Tasks, NEW k \in Keys, In(t, k)',
         \A u \in Tasks : ~In(u, k),
         \A u \in Tasks, j \in Keys : j # k => (In(u, j)' <=> In(u, j))
  PROVE  Abstract!Next
<1>1. holders[k] = None /\ Holder(k)' = t
  BY DEF HolderNames, holders
<1>2. holders' = [holders EXCEPT ![k] = t]
  BY <1>1, OneKeyMoves
<1>3. Abstract!Enter(t, k)
  BY <1>1, <1>2 DEF Abstract!Enter, holders
<1>4. QED
  BY <1>3 DEF Abstract!Next

LEMMA Leaves ==
  ASSUME HolderNames, HolderNames', NEW t \in Tasks, NEW k \in Keys, In(t, k),
         \A u \in Tasks : ~In(u, k)',
         \A u \in Tasks, j \in Keys : j # k => (In(u, j)' <=> In(u, j))
  PROVE  Abstract!Next
<1>1. holders[k] = t /\ Holder(k)' = None
  BY DEF HolderNames, holders
<1>2. holders' = [holders EXCEPT ![k] = None]
  BY <1>1, OneKeyMoves
<1>3. Abstract!Leave(t, k)
  BY <1>1, <1>2 DEF Abstract!Leave, holders
<1>4. QED
  BY <1>3 DEF Abstract!Next

LEMMA Stutters ==
  ASSUME HolderNames, HolderNames',
         \A t \in Tasks, k \in Keys : In(t, k)' <=> In(t, k)
  PROVE  holders' = holders
<1>1. \A k \in Keys : Holder(k)' = Holder(k)
  BY SameHolder
<1>2. QED
  BY <1>1 DEF holders

LEMMA RegisterMaps ==
  ASSUME LocksInv, HolderNames, HolderNames', NEW t \in Tasks, NEW k \in Keys, NEW e \in Entries,
         Register(t, k, e)
  PROVE  Abstract!Next \/ holders' = holders
<1>1. task[t].step = "idle" /\ (IF entries[k] = None THEN Fresh(e) ELSE e = entries[k])
  BY DEF Register
<1>2. CASE entries[k] = None \/ MayTake(e)
  <2>1. task' = [task EXCEPT ![t] = At("inside", k, e, "none")]
    BY <1>2 DEF Register
  <2>2. /\ In(t, k)'
        /\ \A j \in Keys : j # k => ~In(t, j)'
        /\ \A u \in Tasks, j \in Keys : u # t => (In(u, j)' <=> In(u, j))
    BY <2>1 DEF In, At, LocksInv, LocksTypeOK
  <2>3. ASSUME NEW u \in Tasks, In(u, k) PROVE FALSE
    <3>1. entries[k] = task[u].entry /\ task[u].entry \in Entries /\ locked[task[u].entry]
      BY <2>3 DEF In, LocksInv, Registered, Tidy, HeldByOne
    <3>2. entries[k] # None
      BY <3>1, LocksAssumption
    <3>3. QED
      BY <1>1, <1>2, <3>1, <3>2 DEF MayTake
  <2>4. \A u \in Tasks, j \in Keys : j # k => (In(u, j)' <=> In(u, j))
    BY <1>1, <2>2 DEF In
  <2>5. QED
    BY <2>2, <2>3, <2>4, MutexEnters
<1>3. CASE ~(entries[k] = None \/ MayTake(e))
  <2>1. task' = [task EXCEPT ![t] = At("waiting", k, e, "pending")]
    BY <1>3 DEF Register
  <2>2. \A u \in Tasks, j \in Keys : In(u, j)' <=> In(u, j)
    BY <1>1, <2>1 DEF In, At, LocksInv, LocksTypeOK
  <2>3. QED
    BY <2>2, Stutters
<1>4. QED
  BY <1>2, <1>3

LEMMA ResumeMaps ==
  ASSUME LocksInv, HolderNames, HolderNames', NEW t \in Tasks, Resume(t)
  PROVE  Abstract!Next
<1>1. /\ task[t].step = "waiting" /\ task[t].future \in Done
      /\ task' = [task EXCEPT ![t] = At("inside", task[t].key, task[t].entry, "none")]
  BY DEF Resume, Done
<1>2. PICK k \in Keys : k = task[t].key
  BY <1>1 DEF LocksInv, Tidy
<1>3. ~locked[task[t].entry] /\ entries[k] = task[t].entry
  BY <1>1, <1>2 DEF LocksInv, Queued, Registered
<1>4. /\ In(t, k)'
      /\ \A j \in Keys : j # k => ~In(t, j)'
      /\ \A u \in Tasks, j \in Keys : u # t => (In(u, j)' <=> In(u, j))
  BY <1>1, <1>2 DEF In, At, LocksInv, LocksTypeOK
<1>5. \A u \in Tasks : ~In(u, k)
  BY <1>3 DEF In, LocksInv, Registered, HeldByOne
<1>6. \A u \in Tasks, j \in Keys : j # k => (In(u, j)' <=> In(u, j))
  BY <1>1, <1>4 DEF In
<1>7. QED
  BY <1>4, <1>5, <1>6, MutexEnters

LEMMA CancelMaps ==
  ASSUME LocksInv, HolderNames, HolderNames', NEW t \in Tasks, CancelTask(t)
  PROVE  holders' = holders
<1>1. PICK f : task' = [task EXCEPT ![t] = At(task[t].step, task[t].key, task[t].entry, f)]
  BY DEF CancelTask, With
<1>2. \A u \in Tasks, j \in Keys : In(u, j)' <=> In(u, j)
  BY <1>1 DEF In, At, LocksInv, LocksTypeOK
<1>3. QED
  BY <1>2, Stutters

(* What Exit and ResumeCancelled do to who is inside.                      *)
LEMMA OnlyOneGoes ==
  ASSUME NEW t \in Tasks, NEW W, task' = Moved(t, Idle, W)
  PROVE  \A j \in Keys : /\ ~In(t, j)'
                         /\ \A u \in Tasks : u # t => (In(u, j)' <=> In(u, j))
<1>1. task'[t].step = "idle"
  BY MovedFacts
<1>2. \A u \in Tasks \ {t} : task'[u].step = task[u].step /\ task'[u].key = task[u].key
  BY MovedFacts
<1>3. QED
  BY <1>1, <1>2 DEF In

LEMMA ResumeCancelledMaps ==
  ASSUME LocksInv, HolderNames, HolderNames', NEW t \in Tasks, ResumeCancelled(t)
  PROVE  holders' = holders
<1>1. PICK W : task[t].step = "waiting" /\ task' = Moved(t, Idle, W)
  BY DEF ResumeCancelled
<1>2. \A u \in Tasks, j \in Keys : In(u, j)' <=> In(u, j)
  <2>1. \A j \in Keys : ~In(t, j)
    BY <1>1 DEF In
  <2>2. QED
    BY <1>1, <2>1, OnlyOneGoes
<1>3. QED
  BY <1>2, Stutters

LEMMA ExitMaps ==
  ASSUME LocksInv, HolderNames, HolderNames', NEW t \in Tasks, Exit(t)
  PROVE  Abstract!Next
<1>1. PICK W : task[t].step = "inside" /\ task' = Moved(t, Idle, W)
  BY DEF Exit
<1>2. PICK k \in Keys : In(t, k)
  BY <1>1 DEF LocksInv, Tidy, In
<1>3. \A j \in Keys : /\ ~In(t, j)'
                      /\ \A u \in Tasks : u # t => (In(u, j)' <=> In(u, j))
  BY <1>1, OnlyOneGoes
<1>4. \A u \in Tasks : ~In(u, k)'
  <2>1. \A u \in Tasks : u # t => ~In(u, k)
    BY <1>2 DEF HolderNames
  <2>2. QED
    BY <1>3, <2>1
<1>5. \A u \in Tasks, j \in Keys : j # k => (In(u, j)' <=> In(u, j))
  <2>1. \A j \in Keys : j # k => ~In(t, j)
    BY <1>2 DEF In
  <2>2. QED
    BY <1>3, <2>1
<1>6. QED
  BY <1>2, <1>4, <1>5, Leaves

(* The registry implements one mutex for each key: hold() lets a task in   *)
(* when the abstract lock is free and out again, and all the rest, the     *)
(* queues, counts, wake-ups and cancellations, is invisible.               *)
THEOREM RegistryIsMutex == LocksSpec => ImplementsMutex
<1>1. LocksInit => Abstract!Init
  <2> SUFFICES ASSUME LocksInit PROVE \A k \in Keys : Holder(k) = None
    BY DEF Abstract!Init
  <2>1. \A t \in Tasks : task[t].step = "idle"
    BY DEF LocksInit, Idle, At
  <2>2. QED
    BY <2>1 DEF Holder
<1>2. LocksInv /\ LocksInv' /\ [LocksNext]_lockVars => [Abstract!Next]_([k \in Keys |-> Holder(k)])
  <2> SUFFICES ASSUME LocksInv, LocksInv', [LocksNext]_lockVars PROVE Abstract!Next \/ holders' = holders
    BY DEF holders
  <2>1. HolderNames
    BY InvNames
  <2>2. HolderNames'
    BY InvNames, PTL
  <2>3. CASE UNCHANGED lockVars
    BY <2>3 DEF lockVars, holders, Holder
  <2>4. QED
    BY <2>1, <2>2, <2>3, RegisterMaps, ResumeMaps, CancelMaps, ResumeCancelledMaps, ExitMaps DEF LocksNext
<1>3. QED
  BY <1>1, <1>2, InitInv, NextInv, PTL DEF LocksSpec, ImplementsMutex, Abstract!Spec

(* The three invariants together, as the run checks them.                  *)
THEOREM RegistryStaysSound == LocksSpec => []RegistryIsSound
BY LocksTyped, LocksExclude, NoEntryLeaks, PTL DEF RegistryIsSound
=============================================================================
