------------------------- MODULE UpstreamConnection -------------------------
(***************************************************************************)
(* One upstream MCP server as the proxy manager sees it: the published     *)
(* session and its generation, the leases concurrent tool calls hold on    *)
(* it, reconnects serialized by reconnect_lock, the transports a reconnect *)
(* retires, the shared recovery task, and hot-reloaded connection edits.   *)
(*                                                                         *)
(* A caller is one in-flight run of _fetch_upstream; a recovery is one     *)
(* task running _reconnect_for_next_call.  Everything the code does        *)
(* between two awaits is one action.                                       *)
(***************************************************************************)
EXTENDS Naturals, FiniteSets

CONSTANTS
  Callers,        \* request tasks
  Recoveries,     \* slots for recovery tasks
  Configs,        \* connection fingerprints a config file may carry
  None,           \* absence of a generation, task, config or lock holder
  MaxFailures,    \* circuit_max_failures
  ResetTimeout,   \* circuit_reset_seconds, in ticks
  MaxRetries,     \* max_retries
  MaxGeneration,  \* bound: successful reconnects
  MaxEdits        \* bound: edits of the connection config

ASSUME ConstantsAssumption ==
  /\ MaxRetries \in Nat /\ MaxGeneration \in Nat /\ MaxEdits \in Nat
  /\ MaxFailures \in Nat \ {0} /\ ResetTimeout \in Nat \ {0}
  /\ Callers \cap Recoveries = {}
  /\ None \notin Callers \cup Recoveries \cup Configs \cup Nat

VARIABLES
  gen,            \* conn.reconnect_generation
  installed,      \* fingerprint of conn.config
  desired,        \* fingerprint in the hot-reloaded config file
  edits,          \* edits of the file so far
  damped,         \* conn.last_failed_connection_fp
  transport,      \* per generation: unborn, live, closing, closed
  active,         \* conn.active_calls: who leases each generation
  retired,        \* generations in conn.retired_resources
  retiring,       \* generations in conn.retiring_tasks
  unavailable,    \* conn.unavailable_generation
  recoveryTask,   \* conn.recovery_task
  recoveryGen,    \* conn.recovery_generation
  rec,            \* per recovery slot: its task
  lock,           \* holder of conn.reconnect_lock
  rc,             \* per process: its run of _reconnect_server
  call,           \* per caller: its run of _fetch_upstream
  breaker         \* conn.breaker

CB == INSTANCE CircuitBreaker

connVars == <<gen, installed, damped, transport>>
leaseVars == <<active, retired, retiring>>
markVars == <<unavailable, recoveryTask, recoveryGen, rec>>
fileVars == <<desired, edits>>
vars == <<connVars, leaseVars, markVars, fileVars, lock, rc, call, breaker>>

Procs == Callers \cup Recoveries
Gens == 0..MaxGeneration
GenOrNone == Gens \cup {None}

IdleCall == [pc |-> "idle", cfg |-> None, gen |-> None, failed |-> None,
             attempt |-> 0, task |-> None]
NoReconnect == [step |-> "none", seen |-> None]
FreeSlot == [state |-> "free", gen |-> None, cfg |-> None, ok |-> FALSE]

Steps == {"none", "lock", "establish", "tail"}
CallPCs == {"idle", "start", "config", "gate", "drain", "drained", "await",
            "recovered", "unrecovered", "rpc", "backoff", "retry", "again"}

CallRuns == [pc: CallPCs, cfg: Configs \cup {None}, gen: GenOrNone, failed: GenOrNone,
             attempt: 0..MaxRetries, task: Recoveries \cup {None}]
RecoveryRuns == [state: {"free", "new", "running", "done"}, gen: GenOrNone,
                 cfg: Configs \cup {None}, ok: BOOLEAN]
ReconnectRuns == [step: Steps, seen: GenOrNone]

ConnOK ==
  /\ gen \in Gens /\ installed \in Configs \cup {None} /\ damped \in Configs \cup {None}
  /\ transport \in [Gens -> {"unborn", "live", "closing", "closed"}]
LeaseOK ==
  /\ active \in [Gens -> SUBSET Callers]
  /\ retired \in SUBSET Gens /\ retiring \in SUBSET Gens
MarkOK ==
  /\ unavailable \in GenOrNone /\ recoveryGen \in GenOrNone
  /\ recoveryTask \in Recoveries \cup {None}
  /\ rec \in [Recoveries -> RecoveryRuns]
FileOK == desired \in Configs /\ edits \in 0..MaxEdits
LockOK == lock \in Procs \cup {None} /\ rc \in [Procs -> ReconnectRuns]

TypeOK ==
  /\ ConnOK /\ LeaseOK /\ MarkOK /\ FileOK /\ LockOK
  /\ call \in [Callers -> CallRuns]
  /\ breaker \in CB!Breakers

Init ==
  /\ gen = 0 /\ installed \in Configs /\ desired = installed /\ edits = 0
  /\ damped = None
  /\ transport = [g \in Gens |-> IF g = 0 THEN "live" ELSE "unborn"]
  /\ active = [g \in Gens |-> {}] /\ retired = {} /\ retiring = {}
  /\ unavailable = None /\ recoveryTask = None /\ recoveryGen = None
  /\ rec = [s \in Recoveries |-> FreeSlot]
  /\ lock = None /\ rc = [p \in Procs |-> NoReconnect]
  /\ call = [c \in Callers |-> IdleCall]
  /\ CB!Init
-----------------------------------------------------------------------------
(* Helpers shared by the handlers.                                         *)

At(c, pc) == call[c].pc = pc
Finish(c) == call' = [call EXCEPT ![c] = IdleCall]
Goto(c, pc) == call' = [call EXCEPT ![c].pc = pc]

(* A bug: a task that has not run yet is taken for a dead one.             *)
RecoveryStarted == recoveryTask # None /\ rec[recoveryTask].state = "running"

RecoveryLive == recoveryTask # None /\ rec[recoveryTask].state # "done"

Spawn(s, g, cfg) ==
  /\ rec[s].state = "free"
  /\ rec' = [rec EXCEPT ![s] = [state |-> "new", gen |-> g, cfg |-> cfg, ok |-> FALSE]]
  /\ recoveryTask' = s /\ recoveryGen' = g

(* _mark_generation_unavailable: only the current generation is marked.    *)
Marked(g) == IF gen = g THEN g ELSE unavailable

(* _schedule_reconnect_for_next_call, entered with marker mark.            *)
Schedule(g, cfg, mark) ==
  \/ /\ gen # g
     /\ unavailable' = IF mark = g THEN None ELSE mark
     /\ UNCHANGED <<recoveryTask, recoveryGen, rec>>
  \/ /\ gen = g
     /\ unavailable' = mark
     /\ \/ RecoveryLive /\ UNCHANGED <<recoveryTask, recoveryGen, rec>>
        \/ ~RecoveryLive /\ \E s \in Recoveries: Spawn(s, g, cfg)

(* A bug: the last lease of a retired generation closes nothing.           *)
ReleaseForgets(c) ==
  /\ active' = [active EXCEPT ![call[c].gen] = @ \ {c}]
  /\ UNCHANGED <<retired, retiring>>

(* _release_connection_session: the last lease of a retired generation     *)
(* spawns its close task.                                                  *)
Release(c) ==
  LET g == call[c].gen IN
  /\ active' = [active EXCEPT ![g] = @ \ {c}]
  /\ retiring' = IF active[g] = {c} /\ g \in retired THEN retiring \cup {g} ELSE retiring
  /\ UNCHANGED retired

(* _acquire_connection_session, then session.call_tool is entered.         *)
Dispatch(c) ==
  /\ call' = [call EXCEPT ![c] = [@ EXCEPT !.pc = "rpc", !.gen = gen, !.task = None]]
  /\ active' = [active EXCEPT ![gen] = @ \cup {c}]
  /\ UNCHANGED <<retired, retiring>>

(* Share the live recovery task, or spawn one, and await it.               *)
JoinRecovery(c, g) ==
  LET awaiting(s) == call' = [call EXCEPT ![c] = [@ EXCEPT !.pc = "await", !.gen = g, !.task = s]] IN
  \/ /\ RecoveryLive
     /\ awaiting(recoveryTask)
     /\ UNCHANGED <<recoveryTask, recoveryGen, rec>>
  \/ /\ ~RecoveryLive
     /\ \E s \in Recoveries : Spawn(s, g, call[c].cfg) /\ awaiting(s)

Requested(p) == IF p \in Callers THEN call[p].cfg ELSE rec[p].cfg

EnterReconnect(p) == rc' = [rc EXCEPT ![p] = [step |-> "lock", seen |-> gen]]

(* Leaving _reconnect_server, by return, exception or cancellation.        *)
LeaveReconnect(p) ==
  /\ rc' = [rc EXCEPT ![p] = NoReconnect]
  /\ lock' = IF lock = p THEN None ELSE lock
-----------------------------------------------------------------------------
(* A call up to its dispatch.                                              *)

(* The guarded call pins its config snapshot before _fetch_upstream runs.  *)
BeginCall(c) ==
  /\ At(c, "idle")
  /\ call' = [call EXCEPT ![c] = [IdleCall EXCEPT !.pc = "start", !.cfg = desired]]
  /\ UNCHANGED <<connVars, leaseVars, markVars, fileVars, lock, rc, breaker>>

NeedsConfigReconnect(c) == call[c].cfg # installed /\ call[c].cfg # damped

ConfigReconnect(c) ==
  /\ At(c, "start") /\ NeedsConfigReconnect(c)
  /\ Goto(c, "config")
  /\ EnterReconnect(c)
  /\ UNCHANGED <<connVars, leaseVars, markVars, fileVars, lock, breaker>>

AtGate(c) == At(c, "gate") \/ (At(c, "start") /\ ~NeedsConfigReconnect(c))

FastFail(c) ==
  /\ AtGate(c) /\ CB!IsOpen
  /\ Finish(c)
  /\ UNCHANGED <<connVars, leaseVars, markVars, fileVars, lock, rc, breaker>>

(* await_required_recovery finds no marker, or clears a stale one.         *)
DispatchFirst(c) ==
  /\ AtGate(c) /\ ~CB!IsOpen
  /\ unavailable # gen
  /\ unavailable' = None
  /\ Dispatch(c)
  /\ UNCHANGED <<connVars, recoveryTask, recoveryGen, rec, fileVars, lock, rc, breaker>>

(* A recovery of an older generation is still running: drain it first.     *)
DrainStale(c) ==
  /\ AtGate(c) /\ ~CB!IsOpen
  /\ unavailable = gen /\ RecoveryLive /\ recoveryGen # gen
  /\ call' = [call EXCEPT ![c] = [@ EXCEPT !.pc = "drain", !.gen = gen, !.task = recoveryTask]]
  /\ UNCHANGED <<connVars, leaseVars, markVars, fileVars, lock, rc, breaker>>

AwaitRecovery(c) ==
  /\ AtGate(c) /\ ~CB!IsOpen
  /\ unavailable = gen /\ ~(RecoveryLive /\ recoveryGen # gen)
  /\ JoinRecovery(c, gen)
  /\ UNCHANGED <<connVars, leaseVars, unavailable, fileVars, lock, rc, breaker>>

AfterDrain(c) ==
  /\ At(c, "drained")
  /\ \/ /\ gen # call[c].gen
        /\ unavailable' = None
        /\ Dispatch(c)
        /\ UNCHANGED <<recoveryTask, recoveryGen, rec>>
     \/ /\ gen = call[c].gen
        /\ JoinRecovery(c, gen)
        /\ UNCHANGED <<unavailable, leaseVars>>
  /\ UNCHANGED <<connVars, fileVars, lock, rc, breaker>>

DispatchRecovered(c) ==
  /\ At(c, "recovered") /\ gen # call[c].gen
  /\ unavailable' = None
  /\ Dispatch(c)
  /\ UNCHANGED <<connVars, recoveryTask, recoveryGen, rec, fileVars, lock, rc, breaker>>

(* "connection recovery failed; tool call was not dispatched"              *)
NotDispatched(c) ==
  /\ \/ At(c, "unrecovered")
     \/ At(c, "recovered") /\ gen = call[c].gen
  /\ CB!RecordFailure
  /\ Finish(c)
  /\ UNCHANGED <<connVars, leaseVars, markVars, fileVars, lock, rc>>
-----------------------------------------------------------------------------
(* The RPC, its outcomes, and the retry loop.                              *)

(* A result, an isError result, or a correlated oversize rejection.        *)
RpcCompletes(c) ==
  /\ At(c, "rpc")
  /\ Release(c) /\ CB!RecordSuccess
  /\ Finish(c)
  /\ UNCHANGED <<connVars, markVars, fileVars, lock, rc>>

RpcProgrammingError(c) ==
  /\ At(c, "rpc")
  /\ Release(c)
  /\ Finish(c)
  /\ UNCHANGED <<connVars, markVars, fileVars, lock, rc, breaker>>

(* A JSON-RPC error of _NO_RETRY_CODES: alive, but reconnect for later.    *)
RpcProtocolError(c) ==
  /\ At(c, "rpc")
  /\ Release(c) /\ CB!RecordSuccess
  /\ Schedule(gen, call[c].cfg, unavailable)
  /\ Finish(c)
  /\ UNCHANGED <<connVars, fileVars, lock, rc>>

(* Terminal ambiguous failure: retries are spent, or the catalogue of the  *)
(* moment gives no idempotency signal.  A timeout does not mark.           *)
RpcFailsForGood(c, timeout) ==
  /\ At(c, "rpc")
  /\ Release(c) /\ CB!RecordFailure
  /\ Schedule(call[c].gen, call[c].cfg, IF timeout THEN unavailable ELSE Marked(call[c].gen))
  /\ Finish(c)
  /\ UNCHANGED <<connVars, fileVars, lock, rc>>

(* A bug: the retry budget is not consulted.                               *)
RetryForever(c) ==
  /\ At(c, "rpc")
  /\ Release(c)
  /\ call' = [call EXCEPT ![c] = [@ EXCEPT !.pc = "backoff", !.gen = None,
                                 !.failed = call[c].gen,
                                 !.attempt = call[c].attempt + 1]]
  /\ UNCHANGED <<connVars, markVars, fileVars, lock, rc, breaker>>

(* Ambiguous failure of a replay-safe tool: back off, then reconnect.      *)
RpcFailsForRetry(c) ==
  /\ At(c, "rpc") /\ call[c].attempt < MaxRetries
  /\ Release(c)
  /\ call' = [call EXCEPT ![c] = [@ EXCEPT !.pc = "backoff", !.gen = None,
                                 !.failed = call[c].gen,
                                 !.attempt = call[c].attempt + 1]]
  /\ UNCHANGED <<connVars, markVars, fileVars, lock, rc, breaker>>

RetryReconnect(c) ==
  /\ At(c, "backoff")
  /\ Goto(c, "retry")
  /\ EnterReconnect(c)
  /\ UNCHANGED <<connVars, leaseVars, markVars, fileVars, lock, breaker>>

DispatchAgain(c) ==
  /\ At(c, "again")
  /\ Dispatch(c)
  /\ UNCHANGED <<connVars, markVars, fileVars, lock, rc, breaker>>
-----------------------------------------------------------------------------
(* _reconnect_server, run by a caller or by a recovery task.               *)

(* What the process that called _reconnect_server does when it returns:    *)
(* a config reconnect closes the breaker and goes on to the gate, a retry  *)
(* dispatches again, a recovery reports whether its generation is gone.    *)
Returned(p) ==
  \/ /\ p \in Callers /\ At(p, "config")
     /\ Goto(p, "gate") /\ CB!RecordSuccess
     /\ UNCHANGED rec
  \/ /\ p \in Callers /\ At(p, "retry")
     /\ Goto(p, "again")
     /\ UNCHANGED <<rec, breaker>>
  \/ /\ p \in Recoveries
     /\ rec' = [rec EXCEPT ![p].state = "done", ![p].ok = (gen # rec[p].gen)]
     /\ UNCHANGED <<call, breaker>>

(* And when it raises.  A failed config edit is damped and the call goes   *)
(* on over the old connection; a failed retry reconnect ends the call.     *)
Raised(p) ==
  \/ /\ p \in Callers /\ At(p, "config")
     /\ damped' = call[p].cfg
     /\ Goto(p, "gate")
     /\ UNCHANGED <<markVars, breaker>>
  \/ /\ p \in Callers /\ At(p, "retry")
     /\ CB!RecordFailure
     /\ Schedule(call[p].failed, call[p].cfg, Marked(call[p].failed))
     /\ Finish(p)
     /\ UNCHANGED damped
  \/ /\ p \in Recoveries
     /\ rec' = [rec EXCEPT ![p].state = "done", ![p].ok = FALSE]
     /\ UNCHANGED <<damped, unavailable, recoveryTask, recoveryGen, call, breaker>>

(* A bug: any reconnect that completed meanwhile is good enough.           *)
SupersededByAny(p) == gen # rc[p].seen

(* Another reconnect completed while p waited for the lock and installed   *)
(* what p wants, or what p wants is no longer what the file wants.         *)
Superseded(p) ==
  /\ gen # rc[p].seen
  /\ Requested(p) = installed \/ Requested(p) # desired

SkipReconnect(p) ==
  /\ rc[p].step = "lock" /\ lock = None
  /\ Superseded(p)
  /\ LeaveReconnect(p) /\ Returned(p)
  /\ UNCHANGED <<connVars, leaseVars, unavailable, recoveryTask, recoveryGen, fileVars>>

BeginEstablish(p) ==
  /\ rc[p].step = "lock" /\ lock = None
  /\ ~Superseded(p)
  /\ lock' = p
  /\ rc' = [rc EXCEPT ![p].step = "establish"]
  /\ UNCHANGED <<connVars, leaseVars, markVars, fileVars, call, breaker>>

EstablishFails(p) ==
  /\ rc[p].step = "establish"
  /\ LeaveReconnect(p) /\ Raised(p)
  /\ UNCHANGED <<gen, installed, transport, leaseVars, fileVars>>

(* A bug: the old transport is closed whoever leases it.                   *)
SwapCloses(p) ==
  /\ rc[p].step = "establish" /\ gen < MaxGeneration
  /\ gen' = gen + 1
  /\ installed' = Requested(p) /\ damped' = None
  /\ transport' = [transport EXCEPT ![gen + 1] = "live", ![gen] = "closing"]
  /\ rc' = [rc EXCEPT ![p].step = "tail"]
  /\ UNCHANGED <<leaseVars, markVars, fileVars, lock, call, breaker>>

(* The swap is one step: publish the replacement, advance the generation,  *)
(* then retire the old transport if leased, else start closing it.         *)
Swap(p) ==
  /\ rc[p].step = "establish" /\ gen < MaxGeneration
  /\ gen' = gen + 1
  /\ installed' = Requested(p) /\ damped' = None
  /\ IF active[gen] # {}
     THEN /\ retired' = retired \cup {gen}
          /\ transport' = [transport EXCEPT ![gen + 1] = "live"]
     ELSE /\ transport' = [transport EXCEPT ![gen + 1] = "live", ![gen] = "closing"]
          /\ UNCHANGED retired
  /\ rc' = [rc EXCEPT ![p].step = "tail"]
  /\ UNCHANGED <<active, retiring, markVars, fileVars, lock, call, breaker>>

(* The old transport is closed or retired and the catalogue announced.     *)
ReconnectReturns(p) ==
  /\ rc[p].step = "tail"
  /\ transport[gen - 1] # "closing" \/ gen - 1 \in retired
  /\ LeaveReconnect(p) /\ Returned(p)
  /\ UNCHANGED <<connVars, leaseVars, unavailable, recoveryTask, recoveryGen, fileVars>>
-----------------------------------------------------------------------------
(* The recovery task and its done callback.                                *)

(* The event loop is FIFO: the done callbacks of an ended task run before  *)
(* the first step of the task that was spawned after it ended.             *)
RecoveryStarts(s) ==
  /\ rec[s].state = "new" /\ \A t \in Recoveries : rec[t].state # "done"
  /\ \/ /\ gen # rec[s].gen
        /\ rec' = [rec EXCEPT ![s].state = "done", ![s].ok = TRUE]
        /\ UNCHANGED rc
     \/ /\ gen = rec[s].gen
        /\ rec' = [rec EXCEPT ![s].state = "running"]
        /\ EnterReconnect(s)
  /\ UNCHANGED <<connVars, leaseVars, unavailable, recoveryTask, recoveryGen,
                 fileVars, lock, call, breaker>>

(* A caller whose awaited task s has completed.                            *)
Resumed(c, s) ==
  IF call[c].task # s THEN call[c]
  ELSE [call[c] EXCEPT !.task = None,
          !.pc = CASE @ = "drain"           -> "drained"
                   [] @ = "await" /\ rec[s].ok -> "recovered"
                   [] OTHER                 -> "unrecovered"]

(* _on_recovery_task_done, then the wake-up of the shielded awaiters.      *)
RecoveryTaskDone(s) ==
  /\ rec[s].state = "done"
  /\ rec' = [rec EXCEPT ![s] = FreeSlot]
  /\ IF recoveryTask = s
     THEN /\ recoveryTask' = None /\ recoveryGen' = None
          /\ unavailable' = IF rec[s].ok /\ unavailable = rec[s].gen /\ gen # rec[s].gen
                            THEN None ELSE unavailable
     ELSE UNCHANGED <<recoveryTask, recoveryGen, unavailable>>
  /\ call' = [c \in Callers |-> Resumed(c, s)]
  /\ UNCHANGED <<connVars, leaseVars, fileVars, lock, rc, breaker>>
-----------------------------------------------------------------------------
(* Closing transports.                                                     *)

(* The retire task asks the owner of a drained generation to close.        *)
RetireBegins(g) ==
  /\ g \in retiring /\ transport[g] = "live"
  /\ transport' = [transport EXCEPT ![g] = "closing"]
  /\ UNCHANGED <<gen, installed, damped, leaseVars, markVars, fileVars, lock, rc, call, breaker>>

(* The owner task finishes unwinding its contexts.                         *)
OwnerUnwinds(g) ==
  /\ transport[g] = "closing"
  /\ transport' = [transport EXCEPT ![g] = "closed"]
  /\ UNCHANGED <<gen, installed, damped, leaseVars, markVars, fileVars, lock, rc, call, breaker>>

(* The retire task ends; a cleanup error leaves the retired entry behind.  *)
RetireEnds(g) ==
  /\ g \in retiring /\ transport[g] = "closed"
  /\ retiring' = retiring \ {g}
  /\ \/ retired' = retired \ {g}
     \/ UNCHANGED retired
  /\ UNCHANGED <<connVars, active, markVars, fileVars, lock, rc, call, breaker>>
-----------------------------------------------------------------------------
(* What the surroundings do at any await.                                  *)

Awaiting == {"config", "drain", "drained", "await", "recovered", "unrecovered",
             "backoff", "retry", "again"}

(* overall_deadline_seconds is found spent at an await, or before the next *)
(* attempt: deadline_failure.                                              *)
DeadlineExpires(c) ==
  LET failed == IF call[c].failed # None THEN call[c].failed ELSE unavailable IN
  /\ call[c].pc \in Awaiting
  /\ LeaveReconnect(c)
  /\ damped' = IF At(c, "config") THEN call[c].cfg ELSE damped
  /\ IF failed = None
     THEN UNCHANGED <<markVars, breaker>>
     ELSE CB!RecordFailure /\ Schedule(failed, call[c].cfg, Marked(failed))
  /\ Finish(c)
  /\ UNCHANGED <<gen, installed, transport, leaseVars, fileVars>>

(* The deadline is found spent right before the first dispatch, when the   *)
(* marker has already been looked at.                                      *)
DispatchTooLate(c) ==
  /\ \/ At(c, "gate") /\ ~CB!IsOpen /\ unavailable # gen
     \/ call[c].pc \in {"drained", "recovered"} /\ gen # call[c].gen
  /\ unavailable' = None
  /\ Finish(c)
  /\ UNCHANGED <<connVars, leaseVars, recoveryTask, recoveryGen, rec, fileVars,
                 lock, rc, breaker>>

(* A bug: the lease is dropped on failures, not in a finally.              *)
CancelledKeepsLease(c) ==
  /\ call[c].pc \in Awaiting \cup {"rpc"}
  /\ LeaveReconnect(c)
  /\ Finish(c)
  /\ UNCHANGED <<connVars, leaseVars, markVars, fileVars, breaker>>

(* The request task is cancelled: its finally blocks run, nothing else.    *)
CallCancelled(c) ==
  /\ call[c].pc \in Awaiting \cup {"rpc"}
  /\ LeaveReconnect(c)
  /\ IF At(c, "rpc") THEN Release(c) ELSE UNCHANGED leaseVars
  /\ Finish(c)
  /\ UNCHANGED <<connVars, markVars, fileVars, breaker>>

EditConfig(cfg) ==
  /\ edits < MaxEdits /\ cfg # desired
  /\ desired' = cfg /\ edits' = edits + 1
  /\ UNCHANGED <<connVars, leaseVars, markVars, lock, rc, call, breaker>>

BreakerAges ==
  /\ CB!Tick
  /\ UNCHANGED <<connVars, leaseVars, markVars, fileVars, lock, rc, call>>
-----------------------------------------------------------------------------
TakesLock(p) == SkipReconnect(p) \/ BeginEstablish(p)
EstablishEnds(p) == EstablishFails(p) \/ Swap(p)

Gate(c) == FastFail(c) \/ DispatchFirst(c) \/ DrainStale(c) \/ AwaitRecovery(c)

RpcEnds(c) ==
  \/ RpcCompletes(c) \/ RpcProgrammingError(c) \/ RpcProtocolError(c)
  \/ \E timeout \in BOOLEAN : RpcFailsForGood(c, timeout)
  \/ RpcFailsForRetry(c)

CallStep(c) ==
  \/ ConfigReconnect(c) \/ Gate(c) \/ AfterDrain(c) \/ DispatchRecovered(c)
  \/ NotDispatched(c) \/ RpcEnds(c) \/ RetryReconnect(c) \/ DispatchAgain(c)

RetireStep(g) == RetireBegins(g) \/ RetireEnds(g)

RecoveryStep(s) == RecoveryStarts(s) \/ RecoveryTaskDone(s)

Surroundings ==
  \/ \E c \in Callers :
       BeginCall(c) \/ DeadlineExpires(c) \/ DispatchTooLate(c) \/ CallCancelled(c)
  \/ \E cfg \in Configs : EditConfig(cfg)
  \/ BreakerAges

Next ==
  \/ Surroundings
  \/ \E c \in Callers : CallStep(c)
  \/ \E p \in Procs : TakesLock(p) \/ EstablishEnds(p) \/ ReconnectReturns(p)
  \/ \E s \in Recoveries : RecoveryStep(s)
  \/ \E g \in Gens : RetireStep(g) \/ OwnerUnwinds(g)

Spec == Init /\ [][Next]_vars

(* Tasks that are runnable run; per-attempt and connect timeouts bound the *)
(* RPC and the establishment; an owner that was asked to unwind does; and  *)
(* asyncio.Lock hands the reconnect lock over in arrival order.  Nothing   *)
(* is assumed of the overall deadline, of clients or of the config file.   *)
Fairness ==
  /\ \A c \in Callers : WF_vars(CallStep(c))
  /\ \A p \in Procs : /\ SF_vars(TakesLock(p))
                      /\ WF_vars(EstablishEnds(p))
                      /\ WF_vars(ReconnectReturns(p))
  /\ \A s \in Recoveries : WF_vars(RecoveryStep(s))
  /\ \A g \in Gens : WF_vars(RetireStep(g)) /\ WF_vars(OwnerUnwinds(g))

FairSpec == Spec /\ Fairness
-----------------------------------------------------------------------------
(* No transport is closed, or asked to close, under an RPC that leases it. *)
LeasedStaysLive == \A g \in Gens : active[g] # {} => transport[g] = "live"

(* Every superseded transport is on its way out: kept open by a lease, or  *)
(* owned by a retire task.  None is left live with nobody to close it.     *)
NoOrphanTransport ==
  \A g \in Gens : transport[g] = "live" /\ g # gen =>
    g \in retired /\ (active[g] # {} \/ g \in retiring)

(* A generation is leased by exactly the calls that have an RPC running on *)
(* it: no exit of a call, cancellation included, leaks a lease, which      *)
(* would keep a superseded transport open for ever.                        *)
LeaseMatchesRpc ==
  \A c \in Callers, g \in Gens : c \in active[g] <=> At(c, "rpc") /\ call[c].gen = g

(* One recovery task per server at a time, and only for a generation that  *)
(* has been published.                                                     *)
OneRecovery ==
  /\ Cardinality({s \in Recoveries : rec[s].state \in {"new", "running"}}) <= 1
  /\ \A s \in Recoveries : rec[s].state \in {"new", "running"} =>
       recoveryTask = s /\ recoveryGen <= gen

(* Every call ends, even when its overall deadline never interrupts it.    *)
CallsEnd == \A c \in Callers : call[c].pc # "idle" ~> call[c].pc = "idle"

(* Every superseded transport is eventually closed.                        *)
SupersededCloses == \A g \in Gens : g < gen ~> transport[g] = "closed"

(* A reconnect whose config the file no longer wants does not replace the  *)
(* one it does want.                                                       *)
UnwantedConfigSkips ==
  [][\A p \in Procs : rc[p].step = "lock" /\ rc'[p].step = "establish" =>
       ~(installed = desired /\ Requested(p) # desired)]_vars

(* A config reconnect that lets its call go on has installed the edit, has *)
(* damped it, or lost to a later edit of the file: an edit is not swallowed*)
(* by a reconnect that won the lock and reinstalled the old config.        *)
EditNotSwallowed ==
  [][\A c \in Callers : At(c, "config") /\ call'[c].pc = "gate" =>
       installed' = call[c].cfg \/ damped' = call[c].cfg \/ call[c].cfg # desired]_vars

(* The leases protect the transports: what an RPC uses stays live, what    *)
(* nothing uses is on its way out, and exactly the running RPCs hold one.  *)
LeasesAreSafe ==
  TypeOK /\ LeasedStaysLive /\ NoOrphanTransport /\ LeaseMatchesRpc
=============================================================================
