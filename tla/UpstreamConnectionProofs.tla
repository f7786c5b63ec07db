---------------------- MODULE UpstreamConnectionProofs ----------------------
(***************************************************************************)
(* Proofs about UpstreamConnection, for every number of callers, recovery  *)
(* slots, configs, retries and reconnects.                                 *)
(***************************************************************************)
EXTENDS UpstreamConnection, TLAPS, FiniteSetTheorems

(* The breaker's three writes keep it a breaker.                           *)
LEMMA BreakerTyped ==
  ASSUME breaker \in CB!Breakers, CB!RecordSuccess \/ CB!RecordFailure \/ CB!Tick
  PROVE  breaker' \in CB!Breakers
<1> USE ConstantsAssumption DEF CB!Breakers
<1>1. CASE CB!RecordSuccess
  BY <1>1 DEF CB!RecordSuccess, CB!Closed
<1>2. CASE CB!RecordFailure
  BY <1>2 DEF CB!RecordFailure, CB!Bumped, CB!HalfOpen
<1>3. CASE CB!Tick
  BY <1>3 DEF CB!Tick
<1>4. QED
  BY <1>1, <1>2, <1>3

(* A group of variables that a step leaves alone stays typed.              *)
LEMMA Framed ==
  /\ ConnOK /\ UNCHANGED connVars => ConnOK'
  /\ LeaseOK /\ UNCHANGED leaseVars => LeaseOK'
  /\ MarkOK /\ UNCHANGED markVars => MarkOK'
  /\ FileOK /\ UNCHANGED fileVars => FileOK'
  /\ LockOK /\ UNCHANGED <<lock, rc>> => LockOK'
BY DEF ConnOK, LeaseOK, MarkOK, FileOK, LockOK, connVars, leaseVars, markVars, fileVars

LEMMA CallTyped ==
  ASSUME TypeOK, NEW c \in Callers, NEW r \in CallRuns, call' = [call EXCEPT ![c] = r]
  PROVE  call' \in [Callers -> CallRuns]
BY DEF TypeOK

LEMMA IdleTyped == IdleCall \in CallRuns
BY ConstantsAssumption DEF IdleCall, CallRuns, CallPCs, GenOrNone

LEMMA FinishTyped ==
  ASSUME TypeOK, NEW c \in Callers, Finish(c) PROVE call' \in [Callers -> CallRuns]
BY IdleTyped, CallTyped DEF Finish

LEMMA GotoTyped ==
  ASSUME TypeOK, NEW c \in Callers, NEW pc \in CallPCs, Goto(c, pc)
  PROVE  call' \in [Callers -> CallRuns]
BY DEF Goto, TypeOK, CallRuns

LEMMA DispatchTyped ==
  ASSUME TypeOK, NEW c \in Callers, Dispatch(c)
  PROVE  LeaseOK' /\ call' \in [Callers -> CallRuns]
<1>1. gen \in Gens /\ gen \in GenOrNone
  BY DEF TypeOK, ConnOK, GenOrNone
<1>2. LeaseOK'
  BY <1>1 DEF Dispatch, TypeOK, LeaseOK
<1>3. call' \in [Callers -> CallRuns]
  BY <1>1 DEF Dispatch, TypeOK, CallRuns, CallPCs
<1>4. QED
  BY <1>2, <1>3

LEMMA SpawnTyped ==
  ASSUME TypeOK, NEW s \in Recoveries, NEW g \in GenOrNone, NEW cfg \in Configs \cup {None},
         Spawn(s, g, cfg)
  PROVE  /\ rec' \in [Recoveries -> RecoveryRuns]
         /\ recoveryTask' \in Recoveries \cup {None} /\ recoveryGen' \in GenOrNone
BY DEF Spawn, TypeOK, MarkOK, RecoveryRuns

LEMMA ScheduleTyped ==
  ASSUME TypeOK, NEW g \in GenOrNone, NEW cfg \in Configs \cup {None}, NEW mark \in GenOrNone,
         Schedule(g, cfg, mark)
  PROVE  MarkOK'
<1>1. unavailable' \in GenOrNone
  BY DEF Schedule, GenOrNone
<1>2. CASE UNCHANGED <<recoveryTask, recoveryGen, rec>>
  BY <1>1, <1>2 DEF TypeOK, MarkOK
<1>3. CASE \E s \in Recoveries : Spawn(s, g, cfg)
  BY <1>1, <1>3, SpawnTyped DEF MarkOK
<1>4. QED
  BY <1>2, <1>3 DEF Schedule

LEMMA MarkedTyped == ASSUME TypeOK, NEW g \in GenOrNone PROVE Marked(g) \in GenOrNone
BY DEF Marked, TypeOK, MarkOK

LEMMA ReleaseTyped ==
  ASSUME TypeOK, NEW c \in Callers, Release(c) PROVE LeaseOK'
BY DEF Release, TypeOK, LeaseOK

LEMMA JoinTyped ==
  ASSUME TypeOK, NEW c \in Callers, JoinRecovery(c, gen), unavailable' \in GenOrNone
  PROVE  MarkOK' /\ call' \in [Callers -> CallRuns]
<1>1. gen \in GenOrNone /\ call[c].cfg \in Configs \cup {None}
  <2>1. gen \in GenOrNone
    BY DEF TypeOK, ConnOK, GenOrNone
  <2>2. call[c] \in CallRuns
    BY DEF TypeOK
  <2>3. QED
    BY <2>1, <2>2 DEF CallRuns
<1>2. ASSUME NEW s \in Recoveries \cup {None},
             call' = [call EXCEPT ![c] = [@ EXCEPT !.pc = "await", !.gen = gen, !.task = s]]
      PROVE  call' \in [Callers -> CallRuns]
  <2>1. call \in [Callers -> CallRuns]
    BY DEF TypeOK
  <2>2. [call[c] EXCEPT !.pc = "await", !.gen = gen, !.task = s] \in CallRuns
    <3>1. \A k \in CallRuns : [k EXCEPT !.pc = "await", !.gen = gen, !.task = s] \in CallRuns
      BY <1>1, <1>2, Zenon DEF CallRuns, CallPCs
    <3>2. QED
      BY <2>1, <3>1
  <2>3. QED
    BY <1>2, <2>1, <2>2
<1>3. CASE RecoveryLive /\ UNCHANGED <<recoveryTask, recoveryGen, rec>>
  <2>1. MarkOK'
    BY <1>3 DEF TypeOK, MarkOK
  <2>2. recoveryTask \in Recoveries \cup {None}
    BY DEF TypeOK, MarkOK
  <2>3. CASE call' = [call EXCEPT ![c] = [@ EXCEPT !.pc = "await", !.gen = gen, !.task = recoveryTask]]
    BY <1>2, <2>1, <2>2, <2>3
  <2>4. QED
    BY <1>3, <2>3 DEF JoinRecovery
<1>4. CASE ~RecoveryLive
  <2>1. PICK s \in Recoveries :
          /\ Spawn(s, gen, call[c].cfg)
          /\ call' = [call EXCEPT ![c] = [@ EXCEPT !.pc = "await", !.gen = gen, !.task = s]]
    BY <1>4 DEF JoinRecovery
  <2>2. QED
    BY <1>1, <1>2, <2>1, SpawnTyped DEF MarkOK
<1>5. QED
  BY <1>3, <1>4 DEF JoinRecovery

LEMMA EnterTyped ==
  ASSUME TypeOK, NEW p \in Procs, EnterReconnect(p) PROVE rc' \in [Procs -> ReconnectRuns]
BY DEF EnterReconnect, TypeOK, LockOK, ConnOK, ReconnectRuns, Steps, GenOrNone

LEMMA LeaveTyped ==
  ASSUME TypeOK, NEW p \in Procs, LeaveReconnect(p) PROVE LockOK'
BY DEF LeaveReconnect, TypeOK, LockOK, ReconnectRuns, NoReconnect, Steps, GenOrNone

LEMMA DoneTyped ==
  ASSUME NEW p \in Recoveries, NEW b, rec \in [Recoveries -> RecoveryRuns],
         b \in BOOLEAN, rec' = [rec EXCEPT ![p].state = "done", ![p].ok = b]
  PROVE  rec' \in [Recoveries -> RecoveryRuns]
<1> DEFINE r == [rec[p] EXCEPT !.state = "done", !.ok = b]
<1>1. r \in RecoveryRuns
  <2>1. \A k \in RecoveryRuns : [k EXCEPT !.state = "done", !.ok = b] \in RecoveryRuns
    BY Zenon DEF RecoveryRuns
  <2>2. QED
    BY <2>1
<1>2. rec' = [rec EXCEPT ![p] = r]
  OBVIOUS
<1> HIDE DEF r
<1>3. QED
  BY <1>1, <1>2

LEMMA ReturnedTyped ==
  ASSUME TypeOK, NEW p \in Procs, Returned(p)
  PROVE  /\ call' \in [Callers -> CallRuns] /\ breaker' \in CB!Breakers
         /\ rec' \in [Recoveries -> RecoveryRuns]
<1>1. CASE p \in Callers /\ Goto(p, "gate") /\ CB!RecordSuccess /\ UNCHANGED rec
  BY <1>1, GotoTyped, BreakerTyped DEF TypeOK, MarkOK, CallPCs
<1>2. CASE p \in Callers /\ Goto(p, "again") /\ UNCHANGED <<rec, breaker>>
  BY <1>2, GotoTyped DEF TypeOK, MarkOK, CallPCs
<1>3. CASE /\ p \in Recoveries /\ UNCHANGED <<call, breaker>>
           /\ rec' = [rec EXCEPT ![p].state = "done", ![p].ok = (gen # rec[p].gen)]
  BY <1>3, DoneTyped DEF TypeOK, MarkOK
<1>4. QED
  BY <1>1, <1>2, <1>3 DEF Returned

LEMMA RaisedTyped ==
  ASSUME TypeOK, NEW p \in Procs, Raised(p)
  PROVE  /\ call' \in [Callers -> CallRuns] /\ breaker' \in CB!Breakers
         /\ MarkOK' /\ damped' \in Configs \cup {None}
<1>1. CASE /\ p \in Callers /\ damped' = call[p].cfg /\ Goto(p, "gate")
           /\ UNCHANGED <<markVars, breaker>>
  BY <1>1, GotoTyped, Framed DEF TypeOK, CallPCs, CallRuns
<1>2. CASE /\ p \in Callers /\ CB!RecordFailure
           /\ Schedule(call[p].failed, call[p].cfg, Marked(call[p].failed))
           /\ Finish(p) /\ UNCHANGED damped
  <2>1. call[p].failed \in GenOrNone /\ call[p].cfg \in Configs \cup {None}
    BY <1>2 DEF TypeOK, CallRuns
  <2>2. MarkOK'
    BY <1>2, <2>1, MarkedTyped, ScheduleTyped
  <2>3. QED
    BY <1>2, <2>2, FinishTyped, BreakerTyped DEF TypeOK, ConnOK
<1>3. CASE /\ p \in Recoveries
           /\ rec' = [rec EXCEPT ![p].state = "done", ![p].ok = FALSE]
           /\ UNCHANGED <<damped, unavailable, recoveryTask, recoveryGen, call, breaker>>
  BY <1>3, DoneTyped DEF TypeOK, ConnOK, MarkOK
<1>4. QED
  BY <1>1, <1>2, <1>3 DEF Raised

LEMMA CallFields ==
  ASSUME TypeOK, NEW c \in Callers
  PROVE  /\ call[c] \in CallRuns /\ call[c].pc \in CallPCs
         /\ call[c].cfg \in Configs \cup {None} /\ call[c].gen \in GenOrNone
         /\ call[c].failed \in GenOrNone /\ call[c].attempt \in 0..MaxRetries
BY DEF TypeOK, CallRuns

LEMMA InitTyped == Init => TypeOK
<1> SUFFICES ASSUME Init PROVE TypeOK
  OBVIOUS
<1> USE ConstantsAssumption DEF Init, Gens, GenOrNone
<1>1. ConnOK /\ LeaseOK /\ FileOK
  BY DEF ConnOK, LeaseOK, FileOK
<1>2. MarkOK
  BY DEF MarkOK, FreeSlot, RecoveryRuns
<1>3. LockOK
  BY DEF LockOK, NoReconnect, ReconnectRuns, Steps
<1>4. call \in [Callers -> CallRuns]
  BY DEF IdleCall, CallRuns, CallPCs
<1>5. breaker \in CB!Breakers
  BY DEF CB!Init, CB!Closed, CB!Breakers
<1>6. QED
  BY <1>1, <1>2, <1>3, <1>4, <1>5 DEF TypeOK

LEMMA EntryTyped ==
  ASSUME TypeOK, NEW c \in Callers,
         \/ BeginCall(c) \/ ConfigReconnect(c) \/ Gate(c) \/ AfterDrain(c)
         \/ DispatchRecovered(c) \/ NotDispatched(c)
  PROVE  TypeOK'
<1> USE Framed DEF TypeOK
<1>1. CASE BeginCall(c)
  <2>1. [IdleCall EXCEPT !.pc = "start", !.cfg = desired] \in CallRuns
    BY IdleTyped DEF FileOK, CallRuns, CallPCs
  <2>2. call' \in [Callers -> CallRuns]
    BY <1>1, <2>1, CallTyped DEF BeginCall
  <2>3. QED
    BY <1>1, <2>2 DEF BeginCall
<1>2. CASE ConfigReconnect(c)
  BY <1>2, GotoTyped, EnterTyped DEF ConfigReconnect, LockOK, CallPCs, Procs
<1>3. CASE FastFail(c)
  BY <1>3, FinishTyped DEF FastFail
<1>4. CASE DispatchFirst(c)
  BY <1>4, DispatchTyped DEF DispatchFirst, MarkOK, GenOrNone
<1>5. CASE DrainStale(c)
  <2>1. [call[c] EXCEPT !.pc = "drain", !.gen = gen, !.task = recoveryTask] \in CallRuns
    <3>1. gen \in GenOrNone /\ recoveryTask \in Recoveries \cup {None}
      BY DEF ConnOK, MarkOK, GenOrNone
    <3>2. QED
      BY <3>1, CallFields DEF CallRuns, CallPCs
  <2>2. QED
    BY <1>5, <2>1, CallTyped DEF DrainStale
<1>6. CASE AwaitRecovery(c)
  BY <1>6, JoinTyped DEF AwaitRecovery, MarkOK
<1>7. CASE AfterDrain(c)
  <2>1. CASE Dispatch(c) /\ unavailable' = None /\ UNCHANGED <<recoveryTask, recoveryGen, rec>>
    BY <1>7, <2>1, DispatchTyped DEF AfterDrain, MarkOK, GenOrNone
  <2>2. CASE JoinRecovery(c, gen) /\ UNCHANGED <<unavailable, leaseVars>>
    BY <1>7, <2>2, JoinTyped DEF AfterDrain, MarkOK
  <2>3. QED
    BY <1>7, <2>1, <2>2 DEF AfterDrain
<1>8. CASE DispatchRecovered(c)
  BY <1>8, DispatchTyped DEF DispatchRecovered, MarkOK, GenOrNone
<1>9. CASE NotDispatched(c)
  BY <1>9, FinishTyped, BreakerTyped DEF NotDispatched
<1>10. QED
  BY <1>1, <1>2, <1>3, <1>4, <1>5, <1>6, <1>7, <1>8, <1>9 DEF Gate

LEMMA RpcTyped ==
  ASSUME TypeOK, NEW c \in Callers, RpcEnds(c) \/ RetryReconnect(c) \/ DispatchAgain(c)
  PROVE  TypeOK'
<1> USE Framed DEF TypeOK
<1>1. CASE RpcCompletes(c)
  BY <1>1, ReleaseTyped, FinishTyped, BreakerTyped DEF RpcCompletes
<1>2. CASE RpcProgrammingError(c)
  BY <1>2, ReleaseTyped, FinishTyped DEF RpcProgrammingError
<1>3. CASE RpcProtocolError(c)
  <2>1. gen \in GenOrNone /\ unavailable \in GenOrNone
    BY DEF ConnOK, MarkOK, GenOrNone
  <2>2. MarkOK'
    BY <1>3, <2>1, CallFields, ScheduleTyped DEF RpcProtocolError
  <2>3. QED
    BY <1>3, <2>2, ReleaseTyped, FinishTyped, BreakerTyped DEF RpcProtocolError
<1>4. ASSUME NEW timeout \in BOOLEAN, RpcFailsForGood(c, timeout) PROVE TypeOK'
  <2>1. (IF timeout THEN unavailable ELSE Marked(call[c].gen)) \in GenOrNone
    BY CallFields, MarkedTyped DEF MarkOK
  <2>2. MarkOK'
    BY <1>4, <2>1, CallFields, ScheduleTyped DEF RpcFailsForGood
  <2>3. QED
    BY <1>4, <2>2, ReleaseTyped, FinishTyped, BreakerTyped DEF RpcFailsForGood
<1>5. CASE RpcFailsForRetry(c)
  <2>1. [call[c] EXCEPT !.pc = "backoff", !.gen = None,
                        !.failed = call[c].gen,
                        !.attempt = call[c].attempt + 1] \in CallRuns
    <3>1. None \in GenOrNone /\ call[c].attempt + 1 \in 0..MaxRetries
      BY <1>5, CallFields, ConstantsAssumption DEF RpcFailsForRetry, GenOrNone
    <3>2. QED
      BY <3>1, CallFields DEF CallRuns, CallPCs
  <2>2. QED
    BY <1>5, <2>1, CallTyped, ReleaseTyped DEF RpcFailsForRetry
<1>6. CASE RetryReconnect(c)
  BY <1>6, GotoTyped, EnterTyped DEF RetryReconnect, LockOK, CallPCs, Procs
<1>7. CASE DispatchAgain(c)
  BY <1>7, DispatchTyped DEF DispatchAgain
<1>8. QED
  BY <1>1, <1>2, <1>3, <1>4, <1>5, <1>6, <1>7 DEF RpcEnds

LEMMA ReconnectTyped ==
  ASSUME TypeOK, NEW p \in Procs, TakesLock(p) \/ EstablishEnds(p) \/ ReconnectReturns(p)
  PROVE  TypeOK'
<1> USE Framed DEF TypeOK
<1>1. CASE SkipReconnect(p)
  BY <1>1, LeaveTyped, ReturnedTyped DEF SkipReconnect, MarkOK
<1>2. CASE BeginEstablish(p)
  BY <1>2 DEF BeginEstablish, LockOK, ReconnectRuns, Steps
<1>3. CASE EstablishFails(p)
  BY <1>3, LeaveTyped, RaisedTyped DEF EstablishFails, ConnOK
<1>4. CASE Swap(p)
  <2>1. gen + 1 \in Gens /\ gen \in Gens
    BY <1>4, ConstantsAssumption DEF Swap, ConnOK, Gens
  <2>2. Requested(p) \in Configs \cup {None}
    BY CallFields DEF Requested, MarkOK, RecoveryRuns, Procs
  <2>3. ConnOK'
    BY <1>4, <2>1, <2>2 DEF Swap, ConnOK
  <2>4. LeaseOK' /\ LockOK'
    BY <1>4, <2>1 DEF Swap, LeaseOK, LockOK, ReconnectRuns, Steps
  <2>5. QED
    BY <1>4, <2>3, <2>4 DEF Swap
<1>5. CASE ReconnectReturns(p)
  BY <1>5, LeaveTyped, ReturnedTyped DEF ReconnectReturns, MarkOK
<1>6. QED
  BY <1>1, <1>2, <1>3, <1>4, <1>5 DEF TakesLock, EstablishEnds

LEMMA RecoveryTyped ==
  ASSUME TypeOK, NEW s \in Recoveries, RecoveryStep(s)
  PROVE  TypeOK'
<1> USE Framed DEF TypeOK
<1>1. CASE RecoveryStarts(s)
  <2>1. rec' \in [Recoveries -> RecoveryRuns]
    BY <1>1 DEF RecoveryStarts, MarkOK, RecoveryRuns
  <2>2. rc' \in [Procs -> ReconnectRuns]
    BY <1>1, EnterTyped DEF RecoveryStarts, LockOK, Procs
  <2>3. QED
    BY <1>1, <2>1, <2>2 DEF RecoveryStarts, MarkOK, LockOK
<1>2. CASE RecoveryTaskDone(s)
  <2>1. FreeSlot \in RecoveryRuns
    BY DEF FreeSlot, RecoveryRuns, GenOrNone
  <2>2. MarkOK'
    BY <1>2, <2>1 DEF RecoveryTaskDone, MarkOK, GenOrNone
  <2>3. ASSUME NEW c \in Callers PROVE Resumed(c, s) \in CallRuns
    BY CallFields DEF Resumed, CallRuns, CallPCs
  <2>4. call' \in [Callers -> CallRuns]
    BY <1>2, <2>3 DEF RecoveryTaskDone
  <2>5. QED
    BY <1>2, <2>2, <2>4 DEF RecoveryTaskDone
<1>3. QED
  BY <1>1, <1>2 DEF RecoveryStep

LEMMA TransportTyped ==
  ASSUME TypeOK, NEW g \in Gens, RetireStep(g) \/ OwnerUnwinds(g)
  PROVE  TypeOK'
<1> USE Framed DEF TypeOK
<1>1. CASE RetireBegins(g)
  BY <1>1 DEF RetireBegins, ConnOK
<1>2. CASE RetireEnds(g)
  BY <1>2 DEF RetireEnds, LeaseOK
<1>3. CASE OwnerUnwinds(g)
  BY <1>3 DEF OwnerUnwinds, ConnOK
<1>4. QED
  BY <1>1, <1>2, <1>3 DEF RetireStep

LEMMA SurroundingsTyped ==
  ASSUME TypeOK, Surroundings
  PROVE  TypeOK'
<1> USE Framed DEF TypeOK
<1>1. ASSUME NEW c \in Callers, BeginCall(c) PROVE TypeOK'
  BY <1>1, EntryTyped
<1>2. ASSUME NEW c \in Callers, DeadlineExpires(c) PROVE TypeOK'
  <2> DEFINE failed == IF call[c].failed # None THEN call[c].failed ELSE unavailable
  <2>1. damped' \in Configs \cup {None}
    BY <1>2, CallFields DEF DeadlineExpires, ConnOK
  <2>2. MarkOK' /\ breaker' \in CB!Breakers
    <3>1. CASE failed = None
      BY <1>2, <3>1 DEF DeadlineExpires
    <3>2. CASE failed # None
      <4>1. failed \in GenOrNone
        BY CallFields DEF MarkOK
      <4>2. CB!RecordFailure /\ Schedule(failed, call[c].cfg, Marked(failed))
        BY <1>2, <3>2 DEF DeadlineExpires
      <4>3. QED
        BY <4>1, <4>2, CallFields, MarkedTyped, ScheduleTyped, BreakerTyped
    <3>3. QED
      BY <3>1, <3>2
  <2>3. LockOK'
    BY <1>2, LeaveTyped DEF DeadlineExpires, Procs
  <2>4. QED
    BY <1>2, <2>1, <2>2, <2>3, FinishTyped DEF DeadlineExpires, ConnOK
<1>3. ASSUME NEW c \in Callers, CallCancelled(c) PROVE TypeOK'
  BY <1>3, LeaveTyped, ReleaseTyped, FinishTyped DEF CallCancelled, Procs
<1>4. ASSUME NEW cfg \in Configs, EditConfig(cfg) PROVE TypeOK'
  <2>1. FileOK'
    BY <1>4, ConstantsAssumption DEF EditConfig, FileOK
  <2>2. QED
    BY <1>4, <2>1 DEF EditConfig
<1>5. CASE BreakerAges
  BY <1>5, BreakerTyped DEF BreakerAges
<1>6. ASSUME NEW c \in Callers, DispatchTooLate(c) PROVE TypeOK'
  BY <1>6, FinishTyped DEF DispatchTooLate, MarkOK, GenOrNone
<1>7. QED
  BY <1>1, <1>2, <1>3, <1>4, <1>5, <1>6 DEF Surroundings

LEMMA TypeStep == TypeOK /\ [Next]_vars => TypeOK'
<1> SUFFICES ASSUME TypeOK, [Next]_vars PROVE TypeOK'
  OBVIOUS
<1>1. CASE Surroundings
  BY <1>1, SurroundingsTyped
<1>2. ASSUME NEW c \in Callers, CallStep(c) PROVE TypeOK'
  BY <1>2, EntryTyped, RpcTyped DEF CallStep
<1>3. ASSUME NEW p \in Procs, TakesLock(p) \/ EstablishEnds(p) \/ ReconnectReturns(p)
      PROVE  TypeOK'
  BY <1>3, ReconnectTyped
<1>4. ASSUME NEW s \in Recoveries, RecoveryStep(s) PROVE TypeOK'
  BY <1>4, RecoveryTyped
<1>5. ASSUME NEW g \in Gens, RetireStep(g) \/ OwnerUnwinds(g) PROVE TypeOK'
  BY <1>5, TransportTyped
<1>6. CASE UNCHANGED vars
  BY <1>6, Framed DEF vars, TypeOK
<1>7. QED
  BY <1>1, <1>2, <1>3, <1>4, <1>5, <1>6 DEF Next

(* Every variable keeps its type, whatever the interleaving of calls,      *)
(* recoveries, reconnects, deadlines, cancellations and config edits.      *)
THEOREM TypeCorrect == Spec => []TypeOK
BY InitTyped, TypeStep, PTL DEF Spec
-----------------------------------------------------------------------------
(* Leases and transports.  LeasedStaysLive is not inductive alone: a lease *)
(* is taken on the current generation, which must be live, and the close   *)
(* of a retired one must wait for the last lease, so the invariant follows *)
(* a generation from unborn over current and retired to retiring.          *)

CurrentLive == transport[gen] = "live" /\ gen \notin retired \cup retiring

FutureUntouched ==
  \A g \in Gens : g > gen =>
    transport[g] = "unborn" /\ active[g] = {} /\ g \notin retired \cup retiring

RetiringDrained == \A g \in retiring : active[g] = {}

(* A call that is running its RPC awaits no recovery task, so the end of   *)
(* a recovery moves no call out of its RPC.                                *)
RpcAwaitsNoTask == \A c \in Callers : At(c, "rpc") => call[c].task = None

LeaseInv ==
  /\ TypeOK /\ RpcAwaitsNoTask
  /\ CurrentLive /\ FutureUntouched /\ RetiringDrained
  /\ LeasedStaysLive /\ NoOrphanTransport /\ LeaseMatchesRpc

LeaseParts == CurrentLive /\ FutureUntouched /\ RetiringDrained
                /\ LeasedStaysLive /\ NoOrphanTransport

(* No call enters, leaves or changes its RPC.                              *)
SameRpcs ==
  \A c \in Callers : IF call[c].pc = "rpc" THEN call'[c] = call[c]
                                           ELSE call'[c].pc # "rpc"

LEMMA LeaseInit == Init => LeaseInv
<1> SUFFICES ASSUME Init PROVE LeaseInv
  OBVIOUS
<1>1. TypeOK
  BY InitTyped
<1>2. CurrentLive /\ FutureUntouched /\ RetiringDrained
  BY ConstantsAssumption DEF Init, CurrentLive, FutureUntouched, RetiringDrained, Gens
<1>3. LeasedStaysLive /\ NoOrphanTransport
  BY DEF Init, LeasedStaysLive, NoOrphanTransport
<1>4. LeaseMatchesRpc /\ RpcAwaitsNoTask
  BY DEF Init, LeaseMatchesRpc, RpcAwaitsNoTask, At, IdleCall
<1>5. QED
  BY <1>1, <1>2, <1>3, <1>4 DEF LeaseInv

(* A step that leaves transports, leases and RPCs alone.                   *)
LEMMA QuietStep ==
  ASSUME LeaseInv, TypeOK', UNCHANGED <<gen, transport, leaseVars>>, SameRpcs
  PROVE  LeaseInv'
<1>1. LeaseMatchesRpc' /\ RpcAwaitsNoTask'
  <2>1. active' = active
    BY DEF leaseVars
  <2>2. QED
    BY <2>1 DEF LeaseInv, LeaseMatchesRpc, RpcAwaitsNoTask, At, SameRpcs
<1>2. LeaseParts'
  BY DEF LeaseInv, LeaseParts, CurrentLive, FutureUntouched, RetiringDrained,
         LeasedStaysLive, NoOrphanTransport, leaseVars
<1>3. QED
  BY <1>1, <1>2 DEF LeaseInv, LeaseParts

(* Taking a lease on the current generation.                               *)
LEMMA DispatchStep ==
  ASSUME LeaseInv, TypeOK', NEW c \in Callers, ~At(c, "rpc"), Dispatch(c),
         UNCHANGED connVars
  PROVE  LeaseInv'
<1>1. gen \in Gens /\ active \in [Gens -> SUBSET Callers] /\ call \in [Callers -> CallRuns]
  BY DEF LeaseInv, TypeOK, ConnOK, LeaseOK
<1>2. /\ active' = [active EXCEPT ![gen] = @ \cup {c}]
      /\ UNCHANGED <<gen, transport, retired, retiring>>
  BY DEF Dispatch, connVars
<1>3. /\ call'[c].pc = "rpc" /\ call'[c].gen = gen /\ call'[c].task = None
      /\ \A d \in Callers : d # c => call'[d] = call[d]
  BY <1>1 DEF Dispatch, CallRuns
<1>4. LeaseMatchesRpc'
  <2> SUFFICES ASSUME NEW d \in Callers, NEW g \in Gens
               PROVE  d \in active'[g] <=> call'[d].pc = "rpc" /\ call'[d].gen = g
    BY DEF LeaseMatchesRpc, At
  <2>1. d \in active[g] <=> call[d].pc = "rpc" /\ call[d].gen = g
    BY DEF LeaseInv, LeaseMatchesRpc, At
  <2>2. CASE d = c
    BY <1>1, <1>2, <1>3, <2>1, <2>2 DEF At
  <2>3. CASE d # c
    BY <1>1, <1>2, <1>3, <2>1, <2>3
  <2>4. QED
    BY <2>2, <2>3
<1>5. RpcAwaitsNoTask'
  BY <1>3 DEF LeaseInv, RpcAwaitsNoTask, At
<1>6. \A h \in Gens : active'[h] = IF h = gen THEN active[h] \cup {c} ELSE active[h]
  BY <1>1, <1>2
<1>7. retired \subseteq Gens /\ retiring \subseteq Gens
  BY DEF LeaseInv, TypeOK, LeaseOK
<1>8. LeaseParts'
  <2>1. CurrentLive' /\ FutureUntouched'
    BY <1>1, <1>2, <1>6 DEF LeaseInv, CurrentLive, FutureUntouched, Gens
  <2>2. RetiringDrained' /\ LeasedStaysLive'
    BY <1>2, <1>6, <1>7 DEF LeaseInv, CurrentLive, RetiringDrained, LeasedStaysLive
  <2>3. NoOrphanTransport'
    BY <1>2, <1>6 DEF LeaseInv, NoOrphanTransport
  <2>4. QED
    BY <2>1, <2>2, <2>3 DEF LeaseParts
<1>9. QED
  BY <1>4, <1>5, <1>8 DEF LeaseInv, LeaseParts

(* Dropping a lease, the last one of a retired generation included.        *)
LEMMA ReleaseStep ==
  ASSUME LeaseInv, TypeOK', NEW c \in Callers, At(c, "rpc"), Release(c),
         call'[c].pc # "rpc", \A d \in Callers : d # c => call'[d] = call[d],
         UNCHANGED connVars
  PROVE  LeaseInv'
<1> DEFINE g == call[c].gen
<1>1. gen \in Gens /\ active \in [Gens -> SUBSET Callers]
  BY DEF LeaseInv, TypeOK, ConnOK, LeaseOK
<1>2. g \in GenOrNone
  BY CallFields DEF LeaseInv
<1>3. /\ active' = [active EXCEPT ![g] = @ \ {c}]
      /\ retiring' = IF active[g] = {c} /\ g \in retired THEN retiring \cup {g} ELSE retiring
      /\ UNCHANGED <<gen, transport, retired>>
  BY DEF Release, connVars
<1>4. LeaseMatchesRpc'
  <2> SUFFICES ASSUME NEW d \in Callers, NEW h \in Gens
               PROVE  d \in active'[h] <=> call'[d].pc = "rpc" /\ call'[d].gen = h
    BY DEF LeaseMatchesRpc, At
  <2>1. d \in active[h] <=> call[d].pc = "rpc" /\ call[d].gen = h
    BY DEF LeaseInv, LeaseMatchesRpc, At
  <2>2. CASE d = c
    BY <1>1, <1>3, <2>1, <2>2
  <2>3. CASE d # c
    BY <1>1, <1>3, <2>1, <2>3
  <2>4. QED
    BY <2>2, <2>3
<1>5. RpcAwaitsNoTask'
  BY DEF LeaseInv, RpcAwaitsNoTask, At
<1>6. \A h \in Gens : active'[h] = IF h = g THEN active[h] \ {c} ELSE active[h]
  BY <1>1, <1>3
<1>7. retired \subseteq Gens /\ retiring \subseteq Gens
  BY DEF LeaseInv, TypeOK, LeaseOK
<1>8. LeaseParts'
  <2>1. CurrentLive' /\ FutureUntouched'
    BY <1>1, <1>3, <1>6 DEF LeaseInv, CurrentLive, FutureUntouched
  <2>2. RetiringDrained'
    BY <1>3, <1>6, <1>7 DEF LeaseInv, RetiringDrained
  <2>3. LeasedStaysLive'
    BY <1>3, <1>6 DEF LeaseInv, LeasedStaysLive
  <2>4. NoOrphanTransport'
    <3> SUFFICES ASSUME NEW h \in Gens, transport[h] = "live", h # gen
                 PROVE  h \in retired /\ (active'[h] # {} \/ h \in retiring')
      BY <1>3 DEF NoOrphanTransport
    <3>1. h \in retired /\ (active[h] # {} \/ h \in retiring)
      BY DEF LeaseInv, NoOrphanTransport
    <3>2. CASE active[h] = {c} /\ h = g
      BY <1>3, <3>1, <3>2
    <3>3. CASE active[h] # {c} \/ h # g
      BY <1>3, <1>6, <3>1, <3>3
    <3>4. QED
      BY <3>2, <3>3
  <2>5. QED
    BY <2>1, <2>2, <2>3, <2>4 DEF LeaseParts
<1>9. QED
  BY <1>4, <1>5, <1>8 DEF LeaseInv, LeaseParts

LEMMA FinishLeavesRpc ==
  ASSUME LeaseInv, NEW c \in Callers, Finish(c)
  PROVE  call'[c].pc # "rpc" /\ \A d \in Callers : d # c => call'[d] = call[d]
BY DEF Finish, IdleCall, LeaseInv, TypeOK

(* A step of a call that is not running its RPC, to another such point.    *)
LEMMA OutsideRpc ==
  ASSUME LeaseInv, NEW c \in Callers, ~At(c, "rpc"), call'[c].pc # "rpc",
         \A d \in Callers : d # c => call'[d] = call[d]
  PROVE  SameRpcs
BY DEF SameRpcs, At

LEMMA GotoOutsideRpc ==
  ASSUME LeaseInv, NEW c \in Callers, NEW pc \in CallPCs \ {"rpc"}, ~At(c, "rpc"), Goto(c, pc)
  PROVE  SameRpcs
<1>1. call'[c].pc # "rpc" /\ \A d \in Callers : d # c => call'[d] = call[d]
  BY DEF Goto, LeaseInv, TypeOK, CallRuns
<1>2. QED
  BY <1>1, OutsideRpc

LEMMA FinishOutsideRpc ==
  ASSUME LeaseInv, NEW c \in Callers, ~At(c, "rpc"), Finish(c) PROVE SameRpcs
BY FinishLeavesRpc, OutsideRpc

LEMMA JoinOutsideRpc ==
  ASSUME LeaseInv, NEW c \in Callers, NEW g \in Gens, ~At(c, "rpc"), JoinRecovery(c, g)
  PROVE  SameRpcs
<1>1. PICK t : call' = [call EXCEPT ![c] = [@ EXCEPT !.pc = "await", !.gen = g, !.task = t]]
  BY DEF JoinRecovery
<1>2. call'[c].pc # "rpc" /\ \A d \in Callers : d # c => call'[d] = call[d]
  BY <1>1 DEF LeaseInv, TypeOK, CallRuns
<1>3. QED
  BY <1>2, OutsideRpc

LEMMA EntryKeepsLeases ==
  ASSUME LeaseInv, TypeOK', NEW c \in Callers,
         \/ BeginCall(c) \/ ConfigReconnect(c) \/ Gate(c) \/ AfterDrain(c)
         \/ DispatchRecovered(c) \/ NotDispatched(c) \/ RetryReconnect(c) \/ DispatchAgain(c)
  PROVE  LeaseInv'
<1>a. gen \in Gens /\ call \in [Callers -> CallRuns]
  BY DEF LeaseInv, TypeOK, ConnOK
<1>b. ASSUME SameRpcs, UNCHANGED connVars, UNCHANGED leaseVars PROVE LeaseInv'
  BY <1>b, QuietStep DEF connVars
<1>1. CASE BeginCall(c)
  <2>1. call'[c].pc # "rpc" /\ \A d \in Callers : d # c => call'[d] = call[d]
    BY <1>1, <1>a DEF BeginCall, IdleCall
  <2>2. QED
    BY <1>1, <1>b, <2>1, OutsideRpc DEF BeginCall, At
<1>2. CASE ConfigReconnect(c)
  BY <1>2, <1>b, GotoOutsideRpc DEF ConfigReconnect, At, CallPCs
<1>3. CASE FastFail(c)
  BY <1>3, <1>b, FinishOutsideRpc DEF FastFail, AtGate, At
<1>4. CASE DispatchFirst(c)
  BY <1>4, DispatchStep DEF DispatchFirst, AtGate, At
<1>5. CASE DrainStale(c)
  <2>1. call'[c].pc # "rpc" /\ \A d \in Callers : d # c => call'[d] = call[d]
    BY <1>5, <1>a DEF DrainStale, CallRuns
  <2>2. QED
    BY <1>5, <1>b, <2>1, OutsideRpc DEF DrainStale, AtGate, At
<1>6. CASE AwaitRecovery(c)
  BY <1>6, <1>a, <1>b, JoinOutsideRpc DEF AwaitRecovery, AtGate, At
<1>7. CASE AfterDrain(c)
  <2>1. CASE Dispatch(c)
    BY <1>7, <2>1, DispatchStep DEF AfterDrain, At
  <2>2. CASE JoinRecovery(c, gen) /\ UNCHANGED leaseVars
    BY <1>7, <1>a, <1>b, <2>2, JoinOutsideRpc DEF AfterDrain, At
  <2>3. QED
    BY <1>7, <2>1, <2>2 DEF AfterDrain
<1>8. CASE DispatchRecovered(c)
  BY <1>8, DispatchStep DEF DispatchRecovered, At
<1>9. CASE NotDispatched(c)
  BY <1>9, <1>b, FinishOutsideRpc DEF NotDispatched, At
<1>10. CASE RetryReconnect(c)
  BY <1>10, <1>b, GotoOutsideRpc DEF RetryReconnect, At, CallPCs
<1>11. CASE DispatchAgain(c)
  BY <1>11, DispatchStep DEF DispatchAgain, At
<1>12. QED
  BY <1>1, <1>2, <1>3, <1>4, <1>5, <1>6, <1>7, <1>8, <1>9, <1>10, <1>11 DEF Gate

LEMMA RpcEndKeepsLeases ==
  ASSUME LeaseInv, TypeOK', NEW c \in Callers, RpcEnds(c)
  PROVE  LeaseInv'
<1>1. At(c, "rpc") /\ Release(c) /\ UNCHANGED connVars
  BY DEF RpcEnds, RpcCompletes, RpcProgrammingError, RpcProtocolError, RpcFailsForGood,
         RpcFailsForRetry
<1>2. CASE Finish(c)
  BY <1>1, <1>2, ReleaseStep, FinishLeavesRpc
<1>3. CASE RpcFailsForRetry(c)
  <2>1. call'[c].pc # "rpc" /\ \A d \in Callers : d # c => call'[d] = call[d]
    BY <1>3 DEF RpcFailsForRetry, LeaseInv, TypeOK, CallRuns
  <2>2. QED
    BY <1>1, <2>1, ReleaseStep
<1>4. QED
  BY <1>2, <1>3 DEF RpcEnds, RpcCompletes, RpcProgrammingError, RpcProtocolError,
                    RpcFailsForGood

LEMMA ReturnedOutsideRpc ==
  ASSUME LeaseInv, NEW p \in Procs, Returned(p) PROVE SameRpcs
<1>1. CASE p \in Callers /\ At(p, "config") /\ Goto(p, "gate")
  BY <1>1, GotoOutsideRpc DEF At, CallPCs
<1>2. CASE p \in Callers /\ At(p, "retry") /\ Goto(p, "again")
  BY <1>2, GotoOutsideRpc DEF At, CallPCs
<1>3. CASE UNCHANGED call
  BY <1>3 DEF SameRpcs
<1>4. QED
  BY <1>1, <1>2, <1>3 DEF Returned

LEMMA RaisedOutsideRpc ==
  ASSUME LeaseInv, NEW p \in Procs, Raised(p) PROVE SameRpcs
<1>1. CASE p \in Callers /\ At(p, "config") /\ Goto(p, "gate")
  BY <1>1, GotoOutsideRpc DEF At, CallPCs
<1>2. CASE p \in Callers /\ At(p, "retry") /\ Finish(p)
  BY <1>2, FinishOutsideRpc DEF At
<1>3. CASE UNCHANGED call
  BY <1>3 DEF SameRpcs
<1>4. QED
  BY <1>1, <1>2, <1>3 DEF Raised

(* The swap: the new generation was untouched, the old one is retired if   *)
(* it is leased and closed at once if it is not.                           *)
LEMMA SwapKeepsLeases ==
  ASSUME LeaseInv, TypeOK', NEW p \in Procs, Swap(p) PROVE LeaseInv'
<1>1. gen \in Gens /\ gen + 1 \in Gens /\ gen \in Nat
  BY ConstantsAssumption DEF LeaseInv, TypeOK, ConnOK, Gens, Swap
<1>2. /\ transport[gen] = "live" /\ gen \notin retired /\ gen \notin retiring
      /\ active[gen + 1] = {} /\ gen + 1 \notin retired /\ gen + 1 \notin retiring
  BY <1>1 DEF LeaseInv, CurrentLive, FutureUntouched, Gens
<1>3. gen' = gen + 1 /\ UNCHANGED <<active, retiring, call>>
  BY DEF Swap
<1>4. \A g \in Gens :
        /\ g = gen + 1 => transport'[g] = "live"
        /\ g = gen => transport'[g] = IF active[gen] # {} THEN "live" ELSE "closing"
        /\ g # gen /\ g # gen + 1 => transport'[g] = transport[g]
  BY <1>1, <1>2 DEF Swap, LeaseInv, TypeOK, ConnOK
<1>5. retired' = IF active[gen] # {} THEN retired \cup {gen} ELSE retired
  BY DEF Swap
<1>6. CurrentLive'
  BY <1>1, <1>2, <1>3, <1>4, <1>5 DEF CurrentLive
<1>7. FutureUntouched'
  <2> SUFFICES ASSUME NEW g \in Gens, g > gen + 1
               PROVE  transport'[g] = "unborn" /\ active[g] = {} /\ g \notin retired' \cup retiring
    BY <1>3 DEF FutureUntouched
  <2>1. g > gen /\ g # gen /\ g # gen + 1
    BY <1>1 DEF Gens
  <2>2. QED
    BY <1>4, <1>5, <2>1 DEF LeaseInv, FutureUntouched
<1>8. RetiringDrained'
  BY <1>3 DEF LeaseInv, RetiringDrained
<1>9. LeasedStaysLive'
  BY <1>2, <1>3, <1>4 DEF LeaseInv, LeasedStaysLive
<1>10. NoOrphanTransport'
  <2> SUFFICES ASSUME NEW g \in Gens, transport'[g] = "live", g # gen + 1
               PROVE  g \in retired' /\ (active[g] # {} \/ g \in retiring)
    BY <1>3 DEF NoOrphanTransport
  <2>1. CASE g = gen
    BY <1>4, <1>5, <2>1
  <2>2. CASE g # gen
    BY <1>4, <1>5, <2>2 DEF LeaseInv, NoOrphanTransport
  <2>3. QED
    BY <2>1, <2>2
<1>11. LeaseMatchesRpc' /\ RpcAwaitsNoTask'
  BY <1>3 DEF LeaseInv, LeaseMatchesRpc, RpcAwaitsNoTask, At
<1>12. QED
  BY <1>6, <1>7, <1>8, <1>9, <1>10, <1>11 DEF LeaseInv

LEMMA ReconnectKeepsLeases ==
  ASSUME LeaseInv, TypeOK', NEW p \in Procs,
         TakesLock(p) \/ EstablishEnds(p) \/ ReconnectReturns(p)
  PROVE  LeaseInv'
<1>1. CASE SkipReconnect(p) \/ ReconnectReturns(p)
  BY <1>1, ReturnedOutsideRpc, QuietStep DEF SkipReconnect, ReconnectReturns, connVars
<1>2. CASE BeginEstablish(p)
  BY <1>2, QuietStep DEF BeginEstablish, connVars, SameRpcs
<1>3. CASE EstablishFails(p)
  BY <1>3, RaisedOutsideRpc, QuietStep DEF EstablishFails
<1>4. CASE Swap(p)
  BY <1>4, SwapKeepsLeases
<1>5. QED
  BY <1>1, <1>2, <1>3, <1>4 DEF TakesLock, EstablishEnds

LEMMA RecoveryKeepsLeases ==
  ASSUME LeaseInv, TypeOK', NEW s \in Recoveries, RecoveryStep(s)
  PROVE  LeaseInv'
<1>1. CASE RecoveryStarts(s)
  BY <1>1, QuietStep DEF RecoveryStarts, connVars, SameRpcs
<1>2. CASE RecoveryTaskDone(s)
  <2>1. SameRpcs
    <3> SUFFICES ASSUME NEW c \in Callers
                 PROVE  IF call[c].pc = "rpc" THEN call'[c] = call[c] ELSE call'[c].pc # "rpc"
      BY DEF SameRpcs
    <3>1. call'[c] = Resumed(c, s)
      BY <1>2 DEF RecoveryTaskDone
    <3>2. CASE call[c].task # s
      BY <3>1, <3>2 DEF Resumed
    <3>3. CASE call[c].task = s
      <4>1. call[c].pc # "rpc"
        BY <3>3, ConstantsAssumption DEF LeaseInv, RpcAwaitsNoTask, At
      <4>2. call'[c].pc # "rpc"
        BY <3>1, <3>3, CallFields DEF Resumed, CallRuns, LeaseInv
      <4>3. QED
        BY <4>1, <4>2
    <3>4. QED
      BY <3>2, <3>3
  <2>2. QED
    BY <1>2, <2>1, QuietStep DEF RecoveryTaskDone, connVars
<1>3. QED
  BY <1>1, <1>2 DEF RecoveryStep

(* Transports only move on after the last lease: from retiring to closed.  *)
LEMMA TransportKeepsLeases ==
  ASSUME LeaseInv, TypeOK', NEW g \in Gens, RetireStep(g) \/ OwnerUnwinds(g)
  PROVE  LeaseInv'
<1>1. LeaseMatchesRpc' /\ RpcAwaitsNoTask'
  <2>1. UNCHANGED <<active, call>>
    BY DEF RetireStep, RetireBegins, RetireEnds, OwnerUnwinds, leaseVars
  <2>2. QED
    BY <2>1 DEF LeaseInv, LeaseMatchesRpc, RpcAwaitsNoTask, At
<1>2. CASE RetireBegins(g) \/ OwnerUnwinds(g)
  <2>1. /\ transport[g] # "unborn" /\ g # gen /\ active[g] = {}
    BY <1>2 DEF RetireBegins, OwnerUnwinds, LeaseInv, CurrentLive, RetiringDrained, LeasedStaysLive
  <2>2. /\ \A h \in Gens : h # g => transport'[h] = transport[h]
        /\ transport'[g] # "live"
        /\ UNCHANGED <<gen, leaseVars>>
    BY <1>2 DEF RetireBegins, OwnerUnwinds, LeaseInv, TypeOK, ConnOK
  <2>3. gen \in Gens /\ ~(g > gen)
    BY <2>1 DEF LeaseInv, TypeOK, ConnOK, FutureUntouched
  <2>4. LeaseParts'
    BY <2>1, <2>2, <2>3 DEF LeaseInv, LeaseParts, CurrentLive, FutureUntouched, RetiringDrained,
           LeasedStaysLive, NoOrphanTransport, leaseVars
  <2>5. QED
    BY <1>1, <2>4 DEF LeaseInv, LeaseParts
<1>3. CASE RetireEnds(g)
  <2>1. /\ transport[g] = "closed" /\ UNCHANGED <<gen, transport, active>>
        /\ retiring' = retiring \ {g} /\ retired' \in {retired \ {g}, retired}
    BY <1>3 DEF RetireEnds, connVars
  <2>2. LeaseParts'
    BY <2>1 DEF LeaseInv, LeaseParts, CurrentLive, FutureUntouched, RetiringDrained,
           LeasedStaysLive, NoOrphanTransport
  <2>3. QED
    BY <1>1, <2>2 DEF LeaseInv, LeaseParts
<1>4. QED
  BY <1>2, <1>3 DEF RetireStep

LEMMA SurroundingsKeepLeases ==
  ASSUME LeaseInv, TypeOK', Surroundings PROVE LeaseInv'
<1>1. ASSUME NEW c \in Callers, BeginCall(c) PROVE LeaseInv'
  BY <1>1, EntryKeepsLeases
<1>2. ASSUME NEW c \in Callers, DeadlineExpires(c) PROVE LeaseInv'
  BY <1>2, FinishOutsideRpc, QuietStep DEF DeadlineExpires, Awaiting, At
<1>3. ASSUME NEW c \in Callers, CallCancelled(c) PROVE LeaseInv'
  <2>1. CASE At(c, "rpc")
    BY <1>3, <2>1, ReleaseStep, FinishLeavesRpc DEF CallCancelled
  <2>2. CASE ~At(c, "rpc")
    BY <1>3, <2>2, FinishOutsideRpc, QuietStep DEF CallCancelled, connVars
  <2>3. QED
    BY <2>1, <2>2
<1>4. ASSUME NEW cfg \in Configs, EditConfig(cfg) PROVE LeaseInv'
  BY <1>4, QuietStep DEF EditConfig, connVars, SameRpcs
<1>5. CASE BreakerAges
  BY <1>5, QuietStep DEF BreakerAges, connVars, SameRpcs
<1>6. ASSUME NEW c \in Callers, DispatchTooLate(c) PROVE LeaseInv'
  BY <1>6, FinishOutsideRpc, QuietStep DEF DispatchTooLate, connVars, At
<1>7. QED
  BY <1>1, <1>2, <1>3, <1>4, <1>5, <1>6 DEF Surroundings

LEMMA LeaseStep == LeaseInv /\ [Next]_vars => LeaseInv'
<1> SUFFICES ASSUME LeaseInv, [Next]_vars PROVE LeaseInv'
  OBVIOUS
<1>0. TypeOK'
  BY TypeStep DEF LeaseInv
<1>1. CASE Surroundings
  BY <1>0, <1>1, SurroundingsKeepLeases
<1>2. ASSUME NEW c \in Callers, CallStep(c) PROVE LeaseInv'
  BY <1>0, <1>2, EntryKeepsLeases, RpcEndKeepsLeases DEF CallStep
<1>3. ASSUME NEW p \in Procs, TakesLock(p) \/ EstablishEnds(p) \/ ReconnectReturns(p)
      PROVE  LeaseInv'
  BY <1>0, <1>3, ReconnectKeepsLeases
<1>4. ASSUME NEW s \in Recoveries, RecoveryStep(s) PROVE LeaseInv'
  BY <1>0, <1>4, RecoveryKeepsLeases
<1>5. ASSUME NEW g \in Gens, RetireStep(g) \/ OwnerUnwinds(g) PROVE LeaseInv'
  BY <1>0, <1>5, TransportKeepsLeases
<1>6. CASE UNCHANGED vars
  BY <1>0, <1>6, QuietStep DEF vars, connVars, SameRpcs
<1>7. QED
  BY <1>1, <1>2, <1>3, <1>4, <1>5, <1>6 DEF Next

LEMMA LeaseInvariant == Spec => []LeaseInv
BY LeaseInit, LeaseStep, PTL DEF Spec

(* No reconnect, retirement or cleanup ever closes a transport under an    *)
(* RPC that runs on it, however many reconnects overtake the call.         *)
THEOREM LeasesAreRespected == Spec => []LeasedStaysLive
<1>1. LeaseInv => LeasedStaysLive
  BY DEF LeaseInv
<1>2. QED
  BY <1>1, LeaseInvariant, PTL

(* A superseded transport is never left live without a lease that keeps it *)
(* open or a task that closes it.                                          *)
THEOREM NothingIsOrphaned == Spec => []NoOrphanTransport
<1>1. LeaseInv => NoOrphanTransport
  BY DEF LeaseInv
<1>2. QED
  BY <1>1, LeaseInvariant, PTL

(* Every exit of a call gives its lease back: returns, errors, retries and *)
(* cancellations alike.                                                    *)
THEOREM NoLeaseLeaks == Spec => []LeaseMatchesRpc
<1>1. LeaseInv => LeaseMatchesRpc
  BY DEF LeaseInv
<1>2. QED
  BY <1>1, LeaseInvariant, PTL

(* The three together, as the run checks them.                             *)
THEOREM LeasesStaySafe == Spec => []LeasesAreSafe
BY TypeCorrect, LeasesAreRespected, NothingIsOrphaned, NoLeaseLeaks, PTL DEF LeasesAreSafe
-----------------------------------------------------------------------------
(* A recovery task that runs, or has not begun, is the one the connection  *)
(* knows, and it recovers this generation or an earlier one.               *)
Alive(s) == rec[s].state \in {"new", "running"}

RecoveryKnown ==
  \A s \in Recoveries : Alive(s) => recoveryTask = s /\ recoveryGen \in Gens /\ recoveryGen <= gen

SameTask == UNCHANGED <<recoveryTask, recoveryGen>>

(* What a step may do to the tasks: nothing, spawn one where none lives,   *)
(* move one on, or forget one that ended.                                  *)
TasksRest == SameTask /\ UNCHANGED rec
TaskSpawned == /\ ~RecoveryLive /\ UNCHANGED gen
               /\ \E s \in Recoveries, cfg \in Configs \cup {None} : Spawn(s, gen, cfg)
TaskMoves(s) ==
  /\ SameTask /\ UNCHANGED gen
  /\ \A t \in Recoveries : t # s => rec'[t] = rec[t]
  /\ Alive(s) \/ rec'[s].state = "done"
TaskForgotten(s) ==
  /\ UNCHANGED gen /\ rec[s].state = "done"
  /\ rec' = [rec EXCEPT ![s] = FreeSlot]
  /\ recoveryTask = s \/ SameTask

LEMMA TasksStep ==
  ASSUME TypeOK, RecoveryKnown,
         \/ TasksRest /\ (gen' = gen \/ gen' = gen + 1)
         \/ TaskSpawned
         \/ \E s \in Recoveries : TaskMoves(s) \/ TaskForgotten(s)
  PROVE  RecoveryKnown'
<1> USE DEF RecoveryKnown, Alive
<1>0. gen \in Nat /\ Gens \subseteq Nat
  BY ConstantsAssumption DEF TypeOK, ConnOK, Gens
<1>1. CASE TasksRest /\ (gen' = gen \/ gen' = gen + 1)
  <2>1. \A n \in Gens : n <= gen => n <= gen'
    BY <1>0, <1>1
  <2>2. rec' = rec /\ recoveryTask' = recoveryTask /\ recoveryGen' = recoveryGen
    BY <1>1 DEF TasksRest, SameTask
  <2>3. QED
    BY <2>1, <2>2
<1>2. CASE TaskSpawned
  <2>1. PICK s \in Recoveries, cfg \in Configs \cup {None} : Spawn(s, gen, cfg)
    BY <1>2 DEF TaskSpawned
  <2>2. \A t \in Recoveries : ~Alive(t)
    BY <1>2, ConstantsAssumption DEF TaskSpawned, RecoveryLive
  <2>3. \A t \in Recoveries : t # s => rec'[t] = rec[t]
    BY <2>1 DEF Spawn, TypeOK, MarkOK
  <2>4. recoveryTask' = s /\ recoveryGen' = gen /\ gen' = gen
    BY <1>2, <2>1 DEF Spawn, TaskSpawned
  <2>5. QED
    BY <1>0, <2>2, <2>3, <2>4 DEF TypeOK, ConnOK
<1>3. ASSUME NEW s \in Recoveries, TaskMoves(s) PROVE RecoveryKnown'
  BY <1>3 DEF TaskMoves, SameTask
<1>4. ASSUME NEW s \in Recoveries, TaskForgotten(s) PROVE RecoveryKnown'
  <2>1. rec'[s].state = "free" /\ \A t \in Recoveries : t # s => rec'[t] = rec[t]
    BY <1>4 DEF TaskForgotten, FreeSlot, TypeOK, MarkOK
  <2>2. QED
    BY <1>4, <2>1 DEF TaskForgotten, SameTask
<1>5. QED
  BY <1>1, <1>2, <1>3, <1>4

(* Scheduling a reconnect, and joining a recovery, spawn at most one task. *)
LEMMA ScheduleSpawns ==
  ASSUME TypeOK, NEW g, NEW cfg \in Configs \cup {None}, NEW mark, Schedule(g, cfg, mark),
         UNCHANGED gen
  PROVE  TasksRest \/ TaskSpawned
BY DEF Schedule, TasksRest, TaskSpawned, SameTask

LEMMA JoinSpawns ==
  ASSUME TypeOK, NEW c \in Callers, JoinRecovery(c, gen), UNCHANGED gen
  PROVE  TasksRest \/ TaskSpawned
<1>1. call[c].cfg \in Configs \cup {None}
  BY CallFields
<1>2. QED
  BY <1>1 DEF JoinRecovery, TasksRest, TaskSpawned, SameTask

LEMMA EntrySpawns ==
  ASSUME TypeOK, NEW c \in Callers,
         BeginCall(c) \/ ConfigReconnect(c) \/ Gate(c) \/ AfterDrain(c) \/ DispatchRecovered(c)
           \/ NotDispatched(c) \/ RetryReconnect(c) \/ DispatchAgain(c)
  PROVE  gen' = gen /\ (TasksRest \/ TaskSpawned)
<1> USE DEF connVars, markVars, TasksRest, SameTask
<1>1. CASE AwaitRecovery(c)
  BY <1>1, JoinSpawns DEF AwaitRecovery
<1>2. CASE AfterDrain(c)
  BY <1>2, JoinSpawns DEF AfterDrain
<1>3. CASE BeginCall(c) \/ ConfigReconnect(c) \/ NotDispatched(c) \/ RetryReconnect(c)
  BY <1>3 DEF BeginCall, ConfigReconnect, NotDispatched, RetryReconnect
<1>4. CASE FastFail(c) \/ DispatchFirst(c) \/ DrainStale(c) \/ DispatchRecovered(c) \/ DispatchAgain(c)
  BY <1>4 DEF FastFail, DispatchFirst, DrainStale, DispatchRecovered, DispatchAgain
<1>5. QED
  BY <1>1, <1>2, <1>3, <1>4 DEF Gate

LEMMA RpcEndSpawns ==
  ASSUME TypeOK, NEW c \in Callers, RpcEnds(c)
  PROVE  gen' = gen /\ (TasksRest \/ TaskSpawned)
<1> USE DEF connVars, markVars, TasksRest, SameTask
<1>0. call[c].cfg \in Configs \cup {None}
  BY CallFields
<1>1. CASE RpcProtocolError(c)
  BY <1>0, <1>1, ScheduleSpawns DEF RpcProtocolError
<1>2. ASSUME NEW timeout \in BOOLEAN, RpcFailsForGood(c, timeout)
      PROVE  gen' = gen /\ (TasksRest \/ TaskSpawned)
  BY <1>0, <1>2, ScheduleSpawns DEF RpcFailsForGood
<1>3. CASE RpcCompletes(c) \/ RpcProgrammingError(c) \/ RpcFailsForRetry(c)
  BY <1>3 DEF RpcCompletes, RpcProgrammingError, RpcFailsForRetry
<1>4. QED
  BY <1>1, <1>2, <1>3 DEF RpcEnds

(* A recovery task that returns or raises is done; a caller's reconnect    *)
(* schedules a recovery at most.                                           *)
LEMMA ReconnectMovesTasks ==
  ASSUME TypeOK, NEW p \in Procs,
         TakesLock(p) \/ EstablishFails(p) \/ ReconnectReturns(p)
  PROVE  gen' = gen /\ (TasksRest \/ TaskSpawned \/ \E s \in Recoveries : TaskMoves(s))
<1> USE DEF connVars, markVars, TasksRest, SameTask
<1>1. ASSUME NEW o \in BOOLEAN, p \in Recoveries, SameTask, UNCHANGED gen,
             rec' = [rec EXCEPT ![p].state = "done", ![p].ok = o]
      PROVE  TaskMoves(p)
  BY <1>1 DEF TaskMoves, TypeOK, MarkOK
<1>2. ASSUME Returned(p), SameTask, UNCHANGED gen
      PROVE  TasksRest \/ \E s \in Recoveries : TaskMoves(s)
  BY <1>1, <1>2 DEF Returned
<1>3. CASE SkipReconnect(p) \/ ReconnectReturns(p)
  BY <1>2, <1>3 DEF SkipReconnect, ReconnectReturns
<1>4. CASE BeginEstablish(p)
  BY <1>4 DEF BeginEstablish
<1>5. CASE EstablishFails(p)
  <2>1. UNCHANGED gen /\ Raised(p)
    BY <1>5 DEF EstablishFails
  <2>2. CASE p \in Callers /\ Schedule(call[p].failed, call[p].cfg, Marked(call[p].failed))
    BY <2>1, <2>2, CallFields, ScheduleSpawns
  <2>3. CASE UNCHANGED markVars
    BY <2>1, <2>3
  <2>4. CASE p \in Recoveries /\ rec' = [rec EXCEPT ![p].state = "done", ![p].ok = FALSE] /\ SameTask
    BY <1>1, <2>1, <2>4
  <2>5. QED
    BY <2>1, <2>2, <2>3, <2>4 DEF Raised
<1>6. QED
  BY <1>3, <1>4, <1>5 DEF TakesLock

LEMMA RecoveryMovesTasks ==
  ASSUME TypeOK, NEW s \in Recoveries, RecoveryStep(s)
  PROVE  TaskMoves(s) \/ TaskForgotten(s)
<1>1. CASE RecoveryStarts(s)
  BY <1>1 DEF RecoveryStarts, TaskMoves, SameTask, Alive, connVars, TypeOK, MarkOK
<1>2. CASE RecoveryTaskDone(s)
  BY <1>2 DEF RecoveryTaskDone, TaskForgotten, SameTask, connVars
<1>3. QED
  BY <1>1, <1>2 DEF RecoveryStep

LEMMA SurroundingsSpawn ==
  ASSUME TypeOK, Surroundings PROVE gen' = gen /\ (TasksRest \/ TaskSpawned)
<1> USE DEF connVars, markVars, TasksRest, SameTask
<1>1. ASSUME NEW c \in Callers, DeadlineExpires(c) PROVE gen' = gen /\ (TasksRest \/ TaskSpawned)
  <2>1. call[c].cfg \in Configs \cup {None}
    BY CallFields
  <2>2. QED
    BY <1>1, <2>1, ScheduleSpawns DEF DeadlineExpires
<1>2. ASSUME NEW c \in Callers, BeginCall(c) \/ DispatchTooLate(c) \/ CallCancelled(c)
      PROVE  gen' = gen /\ (TasksRest \/ TaskSpawned)
  BY <1>2 DEF BeginCall, DispatchTooLate, CallCancelled
<1>3. CASE BreakerAges \/ \E cfg \in Configs : EditConfig(cfg)
  BY <1>3 DEF BreakerAges, EditConfig
<1>4. QED
  BY <1>1, <1>2, <1>3 DEF Surroundings

LEMMA RecoveryKnownStep == TypeOK /\ RecoveryKnown /\ [Next]_vars => RecoveryKnown'
<1> SUFFICES ASSUME TypeOK, RecoveryKnown, [Next]_vars PROVE RecoveryKnown'
  OBVIOUS
<1>1. CASE Surroundings
  BY <1>1, SurroundingsSpawn, TasksStep
<1>2. ASSUME NEW c \in Callers, CallStep(c) PROVE RecoveryKnown'
  BY <1>2, EntrySpawns, RpcEndSpawns, TasksStep DEF CallStep
<1>3. ASSUME NEW p \in Procs, TakesLock(p) \/ EstablishEnds(p) \/ ReconnectReturns(p)
      PROVE  RecoveryKnown'
  <2>1. CASE Swap(p)
    BY <2>1, TasksStep DEF Swap, TasksRest, SameTask, markVars
  <2>2. CASE ~Swap(p)
    BY <1>3, <2>2, ReconnectMovesTasks, TasksStep DEF EstablishEnds
  <2>3. QED
    BY <2>1, <2>2
<1>4. ASSUME NEW s \in Recoveries, RecoveryStep(s) PROVE RecoveryKnown'
  BY <1>4, RecoveryMovesTasks, TasksStep
<1>5. ASSUME NEW g \in Gens, RetireStep(g) \/ OwnerUnwinds(g) PROVE RecoveryKnown'
  BY <1>5, TasksStep DEF RetireStep, RetireBegins, RetireEnds, OwnerUnwinds, TasksRest, SameTask,
     connVars, markVars
<1>6. CASE UNCHANGED vars
  BY <1>6, TasksStep DEF vars, connVars, markVars, TasksRest, SameTask
<1>7. QED
  BY <1>1, <1>2, <1>3, <1>4, <1>5, <1>6 DEF Next

(* However many calls fail at once, and whatever is cancelled, one         *)
(* recovery task at most lives, and it is the one the connection knows.    *)
THEOREM RecoveriesAreSingle == Spec => []OneRecovery
<1>1. Init => RecoveryKnown
  BY DEF Init, RecoveryKnown, Alive, FreeSlot
<1>2. RecoveryKnown => OneRecovery
  <2> SUFFICES ASSUME RecoveryKnown PROVE OneRecovery
    OBVIOUS
  <2> DEFINE live == {s \in Recoveries : Alive(s)}
  <2>1. live \subseteq {recoveryTask}
    BY DEF RecoveryKnown
  <2>2. IsFiniteSet({recoveryTask}) /\ Cardinality({recoveryTask}) = 1
    BY FS_Singleton
  <2>3. Cardinality(live) <= 1
    BY <2>1, <2>2, FS_Subset
  <2>4. QED
    BY <2>3 DEF OneRecovery, RecoveryKnown, Alive
<1>3. QED
  BY <1>1, <1>2, TypeCorrect, RecoveryKnownStep, PTL DEF Spec
-----------------------------------------------------------------------------
(* A caller runs _reconnect_server only where it says so, and only the     *)
(* holder of the reconnect lock establishes or has swapped.                *)
InReconnect(c) == At(c, "config") \/ At(c, "retry")

ReconnectsAreCalled == \A c \in Callers : rc[c].step # "none" => InReconnect(c)

LockIsHeld == \A p \in Procs : rc[p].step \in {"establish", "tail"} => lock = p

(* What a caller swapped in stays installed until it leaves.               *)
SwapsStand == \A c \in Callers : rc[c].step = "tail" => installed = call[c].cfg

(* Only a call at "drain" or "await" awaits a task.                        *)
AwaitersWait == \A c \in Callers : call[c].task # None => call[c].pc \in {"drain", "await"}

EditInv == TypeOK /\ AwaitersWait /\ ReconnectsAreCalled /\ LockIsHeld /\ SwapsStand

(* One call moves and fits its place.                                      *)
CallFits(c) ==
  /\ call'[c].task = None \/ call'[c].pc \in {"drain", "await"}
  /\ \A d \in Callers : d # c => call'[d] = call[d]

LEMMA FinishFits == ASSUME TypeOK, NEW c \in Callers, Finish(c) PROVE CallFits(c)
BY DEF Finish, IdleCall, TypeOK, CallFits

LEMMA DispatchFits == ASSUME TypeOK, NEW c \in Callers, Dispatch(c) PROVE CallFits(c)
BY DEF Dispatch, TypeOK, CallRuns, CallFits

LEMMA JoinFits ==
  ASSUME TypeOK, NEW c \in Callers, NEW g, JoinRecovery(c, g) PROVE CallFits(c)
<1>1. PICK t : call' = [call EXCEPT ![c] = [@ EXCEPT !.pc = "await", !.gen = g, !.task = t]]
  BY DEF JoinRecovery
<1>2. QED
  BY <1>1 DEF TypeOK, CallRuns, CallFits

LEMMA GotoFits ==
  ASSUME TypeOK, AwaitersWait, NEW c \in Callers, NEW pc, Goto(c, pc),
         call[c].pc \notin {"drain", "await"}
  PROVE  CallFits(c)
BY DEF Goto, TypeOK, CallRuns, CallFits, AwaitersWait

LEMMA CallStepFits ==
  ASSUME TypeOK, AwaitersWait, NEW c \in Callers, CallStep(c) PROVE CallFits(c)
<1>1. CASE FastFail(c) \/ NotDispatched(c)
  BY <1>1, FinishFits DEF FastFail, NotDispatched
<1>2. CASE DispatchFirst(c) \/ DispatchRecovered(c) \/ DispatchAgain(c)
  BY <1>2, DispatchFits DEF DispatchFirst, DispatchRecovered, DispatchAgain
<1>3. CASE DrainStale(c)
  BY <1>3 DEF DrainStale, TypeOK, CallRuns, CallFits
<1>4. CASE AwaitRecovery(c) \/ AfterDrain(c)
  BY <1>4, JoinFits, DispatchFits DEF AwaitRecovery, AfterDrain
<1>5. CASE ConfigReconnect(c) \/ RetryReconnect(c)
  BY <1>5, GotoFits DEF ConfigReconnect, RetryReconnect, At
<1>6. CASE RpcFailsForRetry(c)
  <2>1. call[c].task = None
    BY <1>6 DEF RpcFailsForRetry, At, AwaitersWait
  <2>2. QED
    BY <1>6, <2>1 DEF RpcFailsForRetry, TypeOK, CallRuns, CallFits
<1>7. CASE RpcEnds(c) /\ ~RpcFailsForRetry(c)
  BY <1>7, FinishFits
     DEF RpcEnds, RpcCompletes, RpcProgrammingError, RpcProtocolError, RpcFailsForGood
<1>8. QED
  BY <1>1, <1>2, <1>3, <1>4, <1>5, <1>6, <1>7 DEF CallStep, Gate

LEMMA OtherStepFits ==
  ASSUME TypeOK, AwaitersWait,
         \/ \E c \in Callers : BeginCall(c) \/ DeadlineExpires(c) \/ DispatchTooLate(c) \/ CallCancelled(c)
         \/ \E p \in Procs : TakesLock(p) \/ EstablishEnds(p) \/ ReconnectReturns(p)
  PROVE  UNCHANGED call \/ \E c \in Callers : CallFits(c)
<1>1. ASSUME NEW c \in Callers, DeadlineExpires(c) \/ DispatchTooLate(c) \/ CallCancelled(c)
      PROVE  CallFits(c)
  BY <1>1, FinishFits DEF DeadlineExpires, DispatchTooLate, CallCancelled
<1>2. ASSUME NEW c \in Callers, BeginCall(c) PROVE CallFits(c)
  BY <1>2 DEF BeginCall, IdleCall, TypeOK, CallFits
<1>3. ASSUME NEW p \in Procs, Returned(p) \/ Raised(p)
      PROVE  UNCHANGED call \/ \E c \in Callers : CallFits(c)
  BY <1>3, GotoFits, FinishFits DEF Returned, Raised, At
<1>4. ASSUME NEW p \in Procs, BeginEstablish(p) \/ Swap(p) PROVE UNCHANGED call
  BY <1>4 DEF BeginEstablish, Swap
<1>5. QED
  BY <1>1, <1>2, <1>3, <1>4
     DEF TakesLock, EstablishEnds, SkipReconnect, EstablishFails, ReconnectReturns

LEMMA AwaitersStep == TypeOK /\ AwaitersWait /\ [Next]_vars => AwaitersWait'
<1> SUFFICES ASSUME TypeOK, AwaitersWait, [Next]_vars PROVE AwaitersWait'
  OBVIOUS
<1>1. ASSUME NEW c \in Callers, CallFits(c) PROVE AwaitersWait'
  BY <1>1 DEF CallFits, AwaitersWait
<1>2. CASE UNCHANGED call
  BY <1>2 DEF AwaitersWait
<1>3. ASSUME NEW s \in Recoveries, RecoveryStep(s) PROVE AwaitersWait'
  <2>1. CASE RecoveryStarts(s)
    BY <1>2, <2>1 DEF RecoveryStarts
  <2>2. CASE RecoveryTaskDone(s)
    <3>1. \A c \in Callers : call'[c] = Resumed(c, s) /\ call[c] \in CallRuns
      BY <2>2, CallFields DEF RecoveryTaskDone
    <3>2. \A c \in Callers : call'[c] = call[c] \/ call'[c].task = None
      BY <3>1 DEF Resumed, CallRuns
    <3>3. QED
      BY <3>2 DEF AwaitersWait
  <2>3. QED
    BY <1>3, <2>1, <2>2 DEF RecoveryStep
<1>4. CASE (\E cfg \in Configs : EditConfig(cfg)) \/ BreakerAges
  BY <1>2, <1>4 DEF EditConfig, BreakerAges
<1>5. ASSUME NEW g \in Gens, RetireStep(g) \/ OwnerUnwinds(g) PROVE AwaitersWait'
  BY <1>2, <1>5 DEF RetireStep, RetireBegins, RetireEnds, OwnerUnwinds
<1>6. CASE UNCHANGED vars
  BY <1>2, <1>6 DEF vars
<1>7. QED
  BY <1>1, <1>2, <1>3, <1>4, <1>5, <1>6, CallStepFits, OtherStepFits DEF Next, Surroundings

(* What most steps do: nothing to the runs of _reconnect_server nor to a   *)
(* call that is in one.                                                    *)
CallKept(c) == call'[c].pc = call[c].pc /\ call'[c].cfg = call[c].cfg
RunsRest ==
  /\ UNCHANGED <<rc, lock, installed>>
  /\ \A c \in Callers : InReconnect(c) => CallKept(c)

LEMMA RestKeepsEdits == ASSUME EditInv, TypeOK', AwaitersWait', RunsRest PROVE EditInv'
BY DEF EditInv, RunsRest, ReconnectsAreCalled, LockIsHeld, SwapsStand, InReconnect, At, CallKept

(* One call moves, from outside a reconnect.                               *)
LEMMA OthersAreKept ==
  ASSUME TypeOK, NEW c \in Callers, NEW r, call' = [call EXCEPT ![c] = r], ~InReconnect(c),
         UNCHANGED <<rc, lock, installed>>
  PROVE  RunsRest
BY DEF TypeOK, RunsRest, CallKept

(* Process p enters, advances in, or leaves its run; the others rest.      *)
OnlyRun(p) ==
  /\ \A q \in Procs : q # p => rc'[q] = rc[q]
  /\ \A c \in Callers : c # p => call'[c] = call[c]

LEMMA GotoPC ==
  ASSUME TypeOK, NEW c \in Callers, NEW pc, Goto(c, pc)
  PROVE  /\ call'[c].pc = pc /\ call'[c].cfg = call[c].cfg
         /\ \A d \in Callers : d # c => call'[d] = call[d]
BY DEF Goto, TypeOK, CallRuns

LEMMA EntersKeepEdits ==
  ASSUME EditInv, TypeOK', AwaitersWait', NEW c \in Callers, ConfigReconnect(c) \/ RetryReconnect(c)
  PROVE  EditInv'
<1>1. /\ \A d \in Callers : d # c => call'[d] = call[d]
      /\ InReconnect(c)' /\ ~InReconnect(c)
  BY GotoPC DEF EditInv, ConfigReconnect, RetryReconnect, InReconnect, At
<1>2. /\ UNCHANGED <<lock, installed>> /\ rc'[c].step = "lock"
      /\ \A p \in Procs : p # c => rc'[p] = rc[p]
  BY DEF ConfigReconnect, RetryReconnect, EnterReconnect, connVars, EditInv, TypeOK, LockOK, Procs
<1>3. QED
  BY <1>1, <1>2 DEF EditInv, ReconnectsAreCalled, LockIsHeld, SwapsStand, InReconnect, At, Procs

(* Who leaves was the holder or held nothing.                              *)
LEMMA LeavingKeepsEdits ==
  ASSUME EditInv, TypeOK', AwaitersWait', NEW p \in Procs, LeaveReconnect(p), UNCHANGED installed,
         \A c \in Callers : c # p /\ InReconnect(c) => CallKept(c)
  PROVE  EditInv'
<1>1. /\ rc'[p].step = "none" /\ \A q \in Procs : q # p => rc'[q] = rc[q]
      /\ lock' = IF lock = p THEN None ELSE lock
  BY DEF LeaveReconnect, NoReconnect, EditInv, TypeOK, LockOK
<1>2. LockIsHeld'
  BY <1>1 DEF EditInv, LockIsHeld
<1>3. ReconnectsAreCalled' /\ SwapsStand'
  BY <1>1 DEF EditInv, ReconnectsAreCalled, SwapsStand, InReconnect, At, CallKept, Procs
<1>4. QED
  BY <1>2, <1>3 DEF EditInv

LEMMA ReturnedKeepsCalls ==
  ASSUME TypeOK, NEW p \in Procs, Returned(p) \/ Raised(p)
  PROVE  \A c \in Callers : c # p => CallKept(c)
<1>1. ASSUME p \in Callers, NEW pc, Goto(p, pc) PROVE \A c \in Callers : c # p => CallKept(c)
  BY <1>1, GotoPC DEF CallKept
<1>2. ASSUME p \in Callers, Finish(p) PROVE \A c \in Callers : c # p => CallKept(c)
  BY <1>2 DEF Finish, TypeOK, CallKept
<1>3. ASSUME UNCHANGED call PROVE \A c \in Callers : c # p => CallKept(c)
  BY <1>3 DEF CallKept
<1>4. QED
  BY <1>1, <1>2, <1>3 DEF Returned, Raised

LEMMA ReconnectKeepsEdits ==
  ASSUME EditInv, TypeOK', AwaitersWait', NEW p \in Procs,
         TakesLock(p) \/ EstablishEnds(p) \/ ReconnectReturns(p)
  PROVE  EditInv'
<1> USE DEF connVars
<1>0. TypeOK
  BY DEF EditInv
<1>1. CASE SkipReconnect(p) \/ ReconnectReturns(p) \/ EstablishFails(p)
  BY <1>0, <1>1, ReturnedKeepsCalls, LeavingKeepsEdits
     DEF SkipReconnect, ReconnectReturns, EstablishFails
<1>2. CASE BeginEstablish(p)
  <2>1. /\ lock = None /\ lock' = p /\ rc[p].step = "lock" /\ rc'[p].step = "establish"
        /\ UNCHANGED <<installed, call>> /\ \A q \in Procs : q # p => rc'[q] = rc[q]
    BY <1>0, <1>2 DEF BeginEstablish, TypeOK, LockOK, ReconnectRuns
  <2>2. \A q \in Procs : rc[q].step \notin {"establish", "tail"}
    BY <2>1, ConstantsAssumption DEF EditInv, LockIsHeld, Procs
  <2>3. QED
    BY <2>1, <2>2 DEF EditInv, ReconnectsAreCalled, LockIsHeld, SwapsStand, InReconnect, At, Procs
<1>3. CASE Swap(p)
  <2>1. /\ UNCHANGED <<lock, call>> /\ rc[p].step = "establish" /\ rc'[p].step = "tail"
        /\ installed' = Requested(p) /\ \A q \in Procs : q # p => rc'[q] = rc[q]
    BY <1>0, <1>3 DEF Swap, TypeOK, LockOK, ReconnectRuns
  <2>2. \A q \in Procs : q # p => rc[q].step \notin {"establish", "tail"}
    BY <2>1 DEF EditInv, LockIsHeld
  <2>3. QED
    BY <2>1, <2>2 DEF EditInv, ReconnectsAreCalled, LockIsHeld, SwapsStand, InReconnect, At, Procs,
       Requested
<1>4. QED
  BY <1>1, <1>2, <1>3 DEF TakesLock, EstablishEnds

LEMMA CallStepRests ==
  ASSUME TypeOK, NEW c \in Callers,
         Gate(c) \/ AfterDrain(c) \/ DispatchRecovered(c) \/ NotDispatched(c) \/ RpcEnds(c)
           \/ DispatchAgain(c) \/ BeginCall(c) \/ DispatchTooLate(c)
  PROVE  RunsRest
<1>1. ~InReconnect(c)
  BY DEF Gate, FastFail, DispatchFirst, DrainStale, AwaitRecovery, AtGate, AfterDrain,
     DispatchRecovered, NotDispatched, RpcEnds, RpcCompletes, RpcProgrammingError,
     RpcProtocolError, RpcFailsForGood, RpcFailsForRetry, DispatchAgain, BeginCall,
     DispatchTooLate, InReconnect, At
<1>2. UNCHANGED <<rc, lock, installed>>
  BY DEF Gate, FastFail, DispatchFirst, DrainStale, AwaitRecovery, AfterDrain,
     DispatchRecovered, NotDispatched, RpcEnds, RpcCompletes, RpcProgrammingError,
     RpcProtocolError, RpcFailsForGood, RpcFailsForRetry, DispatchAgain, BeginCall,
     DispatchTooLate, connVars
<1>3. \E r : call' = [call EXCEPT ![c] = r]
  <2>1. CASE FastFail(c) \/ NotDispatched(c) \/ DispatchTooLate(c) \/ BeginCall(c)
    BY <2>1 DEF FastFail, NotDispatched, DispatchTooLate, BeginCall, Finish
  <2>2. CASE DispatchFirst(c) \/ DispatchRecovered(c) \/ DispatchAgain(c) \/ DrainStale(c)
    BY <2>2 DEF DispatchFirst, DispatchRecovered, DispatchAgain, Dispatch, DrainStale
  <2>3. CASE AwaitRecovery(c) \/ AfterDrain(c)
    BY <2>3 DEF AwaitRecovery, AfterDrain, JoinRecovery, Dispatch
  <2>4. CASE RpcEnds(c)
    BY <2>4 DEF RpcEnds, RpcCompletes, RpcProgrammingError, RpcProtocolError, RpcFailsForGood,
       RpcFailsForRetry, Finish
  <2>5. QED
    BY <2>1, <2>2, <2>3, <2>4 DEF Gate
<1>4. QED
  BY <1>1, <1>2, <1>3, OthersAreKept

LEMMA RecoveryKeepsEdits ==
  ASSUME EditInv, TypeOK', AwaitersWait', NEW s \in Recoveries, RecoveryStep(s) PROVE EditInv'
<1>0. TypeOK /\ s \in Procs /\ s \notin Callers
  BY ConstantsAssumption DEF EditInv, Procs
<1>1. CASE RecoveryStarts(s)
  <2>1. /\ UNCHANGED <<lock, installed, call>> /\ \A p \in Procs : p # s => rc'[p] = rc[p]
        /\ rc'[s].step = rc[s].step \/ rc'[s].step = "lock"
    BY <1>0, <1>1 DEF RecoveryStarts, EnterReconnect, TypeOK, LockOK, connVars
  <2>2. QED
    BY <1>0, <2>1 DEF EditInv, ReconnectsAreCalled, LockIsHeld, SwapsStand, InReconnect, At, Procs
<1>2. CASE RecoveryTaskDone(s)
  <2>1. UNCHANGED <<rc, lock, installed>> /\ \A c \in Callers : call'[c] = Resumed(c, s)
    BY <1>2 DEF RecoveryTaskDone, connVars
  <2>2. \A c \in Callers : call[c].task = s => ~InReconnect(c)
    BY <1>0, ConstantsAssumption DEF EditInv, AwaitersWait, InReconnect, At
  <2>3. RunsRest
    BY <2>1, <2>2 DEF RunsRest, CallKept, Resumed
  <2>4. QED
    BY <2>3, RestKeepsEdits
<1>3. QED
  BY <1>1, <1>2 DEF RecoveryStep

LEMMA SurroundingsKeepEdits ==
  ASSUME EditInv, TypeOK', AwaitersWait', Surroundings PROVE EditInv'
<1>1. ASSUME NEW c \in Callers, BeginCall(c) \/ DispatchTooLate(c) PROVE EditInv'
  BY <1>1, CallStepRests, RestKeepsEdits DEF EditInv
<1>2. ASSUME NEW c \in Callers, DeadlineExpires(c) \/ CallCancelled(c) PROVE EditInv'
  <2>1. LeaveReconnect(c) /\ UNCHANGED installed /\ c \in Procs
    BY <1>2 DEF DeadlineExpires, CallCancelled, connVars, Procs
  <2>2. \A d \in Callers : d # c => CallKept(d)
    BY <1>2 DEF DeadlineExpires, CallCancelled, Finish, EditInv, TypeOK, CallKept
  <2>3. QED
    BY <2>1, <2>2, LeavingKeepsEdits
<1>3. CASE BreakerAges \/ \E cfg \in Configs : EditConfig(cfg)
  BY <1>3, RestKeepsEdits DEF BreakerAges, EditConfig, RunsRest, CallKept, connVars
<1>4. QED
  BY <1>1, <1>2, <1>3 DEF Surroundings

LEMMA EditStep == EditInv /\ [Next]_vars => EditInv'
<1> SUFFICES ASSUME EditInv, [Next]_vars PROVE EditInv'
  OBVIOUS
<1>0. TypeOK /\ TypeOK' /\ AwaitersWait'
  BY TypeStep, AwaitersStep DEF EditInv
<1>1. CASE Surroundings
  BY <1>0, <1>1, SurroundingsKeepEdits
<1>2. ASSUME NEW c \in Callers, CallStep(c) PROVE EditInv'
  BY <1>0, <1>2, CallStepRests, RestKeepsEdits, EntersKeepEdits DEF CallStep
<1>3. ASSUME NEW p \in Procs, TakesLock(p) \/ EstablishEnds(p) \/ ReconnectReturns(p)
      PROVE  EditInv'
  BY <1>0, <1>3, ReconnectKeepsEdits
<1>4. ASSUME NEW s \in Recoveries, RecoveryStep(s) PROVE EditInv'
  BY <1>0, <1>4, RecoveryKeepsEdits
<1>5. ASSUME NEW g \in Gens, RetireStep(g) \/ OwnerUnwinds(g) PROVE EditInv'
  BY <1>0, <1>5, RestKeepsEdits
     DEF RetireStep, RetireBegins, RetireEnds, OwnerUnwinds, RunsRest, CallKept, connVars
<1>6. CASE UNCHANGED vars
  BY <1>0, <1>6, RestKeepsEdits DEF vars, RunsRest, CallKept, connVars
<1>7. QED
  BY <1>1, <1>2, <1>3, <1>4, <1>5, <1>6 DEF Next

(* Only the return or the failure of its own reconnect takes a call from   *)
(* there to the gate.                                                      *)
LEMMA GateAfterReconnect ==
  ASSUME EditInv, Next, NEW c \in Callers, At(c, "config"), call'[c].pc = "gate"
  PROVE  SkipReconnect(c) \/ ReconnectReturns(c) \/ EstablishFails(c)
<1>0. TypeOK /\ call[c].pc = "config" /\ InReconnect(c)
  BY DEF EditInv, At, InReconnect
<1>1. ~Surroundings
  <2>1. ASSUME NEW d \in Callers, DeadlineExpires(d) \/ CallCancelled(d) PROVE FALSE
    BY <1>0, <2>1 DEF DeadlineExpires, CallCancelled, Finish, IdleCall, TypeOK
  <2>2. ASSUME NEW d \in Callers, BeginCall(d) \/ DispatchTooLate(d) PROVE FALSE
    BY <1>0, <2>2, CallStepRests DEF RunsRest, CallKept
  <2>3. QED
    BY <1>0, <2>1, <2>2 DEF Surroundings, EditConfig, BreakerAges
<1>2. ASSUME NEW d \in Callers, CallStep(d) PROVE FALSE
  <2>1. CASE ConfigReconnect(d) \/ RetryReconnect(d)
    BY <1>0, <2>1, GotoPC DEF ConfigReconnect, RetryReconnect, At
  <2>2. QED
    BY <1>0, <1>2, <2>1, CallStepRests DEF RunsRest, CallKept, CallStep
<1>3. ASSUME NEW g \in Gens, RetireStep(g) \/ OwnerUnwinds(g) PROVE FALSE
  BY <1>0, <1>3 DEF RetireStep, RetireBegins, RetireEnds, OwnerUnwinds
<1>4. ASSUME NEW s \in Recoveries, RecoveryStep(s) PROVE FALSE
  <2>1. call[c].task # s
    BY <1>0, ConstantsAssumption DEF EditInv, AwaitersWait
  <2>2. QED
    BY <1>0, <1>4, <2>1 DEF RecoveryStep, RecoveryStarts, RecoveryTaskDone, Resumed
<1>5. ASSUME NEW p \in Procs, TakesLock(p) \/ EstablishEnds(p) \/ ReconnectReturns(p)
      PROVE  p = c /\ (SkipReconnect(c) \/ ReconnectReturns(c) \/ EstablishFails(c))
  <2>1. call' # call
    BY <1>0
  <2>2. SkipReconnect(p) \/ ReconnectReturns(p) \/ EstablishFails(p)
    BY <1>5, <2>1 DEF TakesLock, EstablishEnds, BeginEstablish, Swap
  <2>3. Returned(p) \/ Raised(p)
    BY <2>2 DEF SkipReconnect, ReconnectReturns, EstablishFails
  <2>4. QED
    BY <1>0, <2>2, <2>3, ReturnedKeepsCalls DEF CallKept
<1>6. QED
  BY <1>1, <1>2, <1>3, <1>4, <1>5 DEF Next

(* A call whose config reconnect let it go on runs on its own config, or   *)
(* has damped it, or the file has moved on.                                *)
THEOREM EditsAreNotSwallowed == Spec => EditNotSwallowed
<1>1. Init => EditInv
  <2>1. Init => TypeOK
    BY InitTyped
  <2>2. QED
    BY <2>1 DEF Init, EditInv, AwaitersWait, ReconnectsAreCalled, LockIsHeld, SwapsStand,
       IdleCall, NoReconnect, Procs
<1>2. ASSUME EditInv, [Next]_vars
      PROVE  [\A c \in Callers : At(c, "config") /\ call'[c].pc = "gate" =>
                installed' = call[c].cfg \/ damped' = call[c].cfg \/ call[c].cfg # desired]_vars
  <2> SUFFICES ASSUME Next, NEW c \in Callers, At(c, "config"), call'[c].pc = "gate"
               PROVE  installed' = call[c].cfg \/ damped' = call[c].cfg \/ call[c].cfg # desired
    BY <1>2
  <2>0. c \in Procs /\ c \notin Recoveries /\ Requested(c) = call[c].cfg
    BY ConstantsAssumption DEF Procs, Requested
  <2>1. CASE SkipReconnect(c)
    BY <2>0, <2>1 DEF SkipReconnect, Superseded, connVars
  <2>2. CASE ReconnectReturns(c)
    BY <1>2, <2>2 DEF ReconnectReturns, connVars, EditInv, SwapsStand
  <2>3. CASE EstablishFails(c)
    BY <2>0, <2>3 DEF EstablishFails, Raised, At
  <2>4. QED
    BY <1>2, <2>1, <2>2, <2>3, GateAfterReconnect
<1>3. QED
  BY <1>1, <1>2, EditStep, PTL DEF Spec, EditNotSwallowed
=============================================================================
