------------------------------ MODULE StoreWorker ------------------------------
(***************************************************************************)
(* The single-threaded worker of surfacing/store_io.py that runs every     *)
(* write of the feedback store, the durable circuit_open episodes that     *)
(* surfacing/engine.py queues on it and surfacing/feedback_store.py keeps, *)
(* and the teardown that closes the store behind the writes.  The rows are *)
(* shared with a peer process.                                             *)
(*                                                                         *)
(* Left out: the other kinds of faults, which only the key that succeeds   *)
(* closes, and the days the rows are split by, which no update looks at.   *)
(***************************************************************************)
EXTENDS Integers, Sequences, SequencesExt, FiniteSets

CONSTANTS
  Tools,      \* the keys of a fault row: server and tool
  MaxQueued,  \* MAX_QUEUED_WRITES
  MaxTime,    \* bound: the last moment of the wall clock, which starts at 1
  MaxClaims,  \* bound: the claims of the engine
  MaxLanded,  \* bound: writes and callbacks under way when a call succeeds
  Idle        \* no job

ASSUME WorkerAssumption ==
  MaxQueued \in Nat \ {0} /\ MaxTime \in Nat \ {0} /\ MaxClaims \in Nat

VARIABLES
  queue,      \* the executor's jobs that have not started
  running,    \* the job its thread is in
  left,       \* the job a shut-down executor's thread is still in
  executor,   \* whether there is an executor
  slots,      \* _queued
  store,      \* "open", "closing" (by a thread of its own) or "closed"
  lifetime,      \* of the process: up, draining, closing, down
  blocked,    \* _breaker_blocked_keys: a tool's claim number, 0 for none
  lastClaim,  \* _breaker_claim_seq
  landed,     \* the claims of recoveries whose callback the loop has to run
  faults,     \* the circuit_open row of a tool: its last fault and recovery
  peers,      \* the tools the peer's engine holds a claim on
  now         \* time.time()

workerVars == <<queue, running, left, executor, slots, store, lifetime, blocked, lastClaim,
                landed, faults, peers, now>>
engineVars == <<blocked, lastClaim, landed, faults, peers, now>>
threadVars == <<queue, running, left, executor, slots, store>>

Moments == 0..MaxTime
Claims == [Tools -> 0..MaxClaims]
WriteJobs == [op : {"fault"}, tool : Tools, at : Moments]
        \cup [op : {"recovery"}, tools : SUBSET Tools, at : Moments, released : Claims]
        \cup [op : {"write", "noop", "close"}]

ASSUME IdleAssumption == Idle \notin WriteJobs

(* What _enqueue counts; a drain's marker and the close take no slot.      *)
Counted(job) == job.op \in {"fault", "recovery", "write"}

CountedIn(jobs) == Cardinality({i \in DOMAIN jobs : Counted(jobs[i])})

WorkerInit ==
  /\ queue = <<>> /\ running = Idle /\ left = Idle /\ executor = FALSE /\ slots = 0
  /\ store = "open" /\ lifetime = "up"
  /\ blocked = [t \in Tools |-> 0] /\ lastClaim = 0 /\ landed = <<>>
  /\ faults = [t \in Tools |-> [last |-> 0, recovered |-> 0]]
  /\ peers = {} /\ now = 1
-----------------------------------------------------------------------------
(* The rows.  A recovery of 0 is NULL, a last fault of 0 no row.           *)

EpisodeOpen(row) == row.last > 0 /\ (row.recovered = 0 \/ row.recovered < row.last)

(* A bug: every fault reopens the episode, however late it lands.          *)
WithFaultReopening(row, at) ==
  [last |-> IF at > row.last THEN at ELSE row.last, recovered |-> 0]

(* _record_signal: a fault older than the recovery does not reopen.        *)
WithFault(row, at) ==
  [last |-> IF at > row.last THEN at ELSE row.last,
   recovered |-> IF at >= row.recovered THEN 0 ELSE row.recovered]

(* _close_episodes: a row whose last fault is newer stays open.            *)
WithRecovery(row, at) ==
  IF EpisodeOpen(row) /\ row.last <= at THEN [row EXCEPT !.recovered = at] ELSE row

(* The effect of a job on the rows; on a closed store none.                *)
Effect(job) ==
  IF store = "closed" THEN faults ELSE
  CASE job.op = "fault" -> [faults EXCEPT ![job.tool] = WithFault(@, job.at)]
    [] job.op = "recovery" ->
         [t \in Tools |-> IF t \in job.tools THEN WithRecovery(faults[t], job.at) ELSE faults[t]]
    [] OTHER -> faults
-----------------------------------------------------------------------------
(* The queue.                                                              *)

(* _enqueue; a refused best-effort write is dropped.                       *)
Submit(job) ==
  IF slots < MaxQueued
  THEN queue' = Append(queue, job) /\ slots' = slots + 1 /\ executor' = TRUE
  ELSE UNCHANGED <<queue, slots, executor>>

(* Past the cap: the close and a drain's marker, run_off_loop.             *)
SubmitUncounted(job) ==
  queue' = Append(queue, job) /\ executor' = TRUE /\ UNCHANGED slots

(* A write a caller awaits.  Its caller's timeout or cancellation leaves   *)
(* the write, and its slot, to the worker.                                 *)
AwaitedWrite ==
  /\ Submit([op |-> "write"])
  /\ UNCHANGED <<running, left, store, lifetime, blocked, lastClaim, landed, faults, peers, now>>

WorkerStarts ==
  /\ running = Idle /\ queue # <<>>
  /\ running' = Head(queue) /\ queue' = Tail(queue)
  /\ UNCHANGED <<left, executor, slots, store, lifetime>> /\ UNCHANGED engineVars

(* A bug: only a write that succeeds gives its slot back.                  *)
ReturnedOnSuccess(jobs, ok) == IF ok THEN slots - CountedIn(jobs) ELSE slots

(* The done-callbacks of the futures: a job that ran, well or not, and one *)
(* that was cancelled give their slots back.                               *)
Returned(jobs, ok) == slots - CountedIn(jobs)

(* A job ends.  A recovery that landed has the loop release its claims.    *)
Ends(job, ok) ==
  /\ faults' = IF ok THEN Effect(job) ELSE faults
  /\ slots' = Returned(<<job>>, ok)
  /\ store' = IF job.op = "close" THEN "closed" ELSE store
  /\ landed' = IF ok /\ job.op = "recovery" THEN Append(landed, job.released) ELSE landed
  /\ UNCHANGED <<queue, executor, blocked, lastClaim, peers, now>>

Endings(job) == IF job.op \in {"noop", "close"} THEN {TRUE} ELSE BOOLEAN

JobEnds(ok) ==
  /\ running # Idle /\ ok \in Endings(running)
  /\ Ends(running, ok)
  /\ running' = Idle
  /\ lifetime' = CASE running.op = "noop" /\ lifetime = "draining" -> "drained"
                [] running.op = "close" /\ lifetime = "closing" -> "closed"
                [] OTHER -> lifetime
  /\ UNCHANGED left

FinishLeft(ok) ==
  /\ left # Idle /\ ok \in Endings(left)
  /\ Ends(left, ok)
  /\ left' = Idle
  /\ UNCHANGED <<running, lifetime>>
-----------------------------------------------------------------------------
(* The engine, on its loop.  Its calls have ended when the store is closed.*)

(* _persist_fault of a call the open breaker turned away: the claim comes  *)
(* before the write, and stays whatever the write does.                    *)
TurnedAway(t) ==
  /\ lifetime # "down" /\ lastClaim < MaxClaims
  /\ lastClaim' = lastClaim + 1
  /\ blocked' = [blocked EXCEPT ![t] = lastClaim + 1]
  /\ Submit([op |-> "fault", tool |-> t, at |-> now])
  /\ UNCHANGED <<running, left, store, lifetime, landed, faults, peers, now>>

(* _persist_fault_recovery of the call that succeeded: its own episodes    *)
(* and those of every tool the breaker turned away, with the claims they   *)
(* carry now.                                                              *)
Succeeded(t) ==
  LET closes == {u \in Tools : blocked[u] # 0} \cup {t} IN
  /\ lifetime # "down" /\ slots + Len(landed) < MaxLanded
  /\ Submit([op |-> "recovery", tools |-> closes, at |-> now,
             released |-> [u \in Tools |-> IF u \in closes THEN blocked[u] ELSE 0]])
  /\ UNCHANGED <<running, left, store, lifetime>> /\ UNCHANGED engineVars

(* A bug: the claims are released by key.                                  *)
ReleasedByKey(released) == [t \in Tools |-> IF released[t] # 0 THEN 0 ELSE blocked[t]]

(* _release_breaker_claims: a claim made since is another claim.           *)
ReleasedClaims(released) ==
  [t \in Tools |-> IF blocked[t] = released[t] THEN 0 ELSE blocked[t]]

ReleaseClaims ==
  /\ landed # <<>>
  /\ blocked' = ReleasedClaims(Head(landed))
  /\ landed' = Tail(landed)
  /\ UNCHANGED <<lifetime, lastClaim, faults, peers, now>> /\ UNCHANGED threadVars

(* The engine of another process on the same file, whose writes land at    *)
(* once.                                                                   *)
PeerTurnedAway(t) ==
  /\ peers' = peers \cup {t}
  /\ faults' = [faults EXCEPT ![t] = WithFault(@, now)]
  /\ UNCHANGED <<lifetime, blocked, lastClaim, landed, now>> /\ UNCHANGED threadVars

PeerSucceeded(t) ==
  /\ peers' = {}
  /\ faults' = [u \in Tools |-> IF u \in peers \cup {t} THEN WithRecovery(faults[u], now)
                                                       ELSE faults[u]]
  /\ UNCHANGED <<lifetime, blocked, lastClaim, landed, now>> /\ UNCHANGED threadVars

ClockTick ==
  /\ now < MaxTime /\ now' = now + 1
  /\ UNCHANGED <<lifetime, blocked, lastClaim, landed, faults, peers>> /\ UNCHANGED threadVars
-----------------------------------------------------------------------------
(* The teardown: stop() of the engine, then close_store_on_worker.         *)

DrainWrites ==
  /\ lifetime = "up"
  /\ IF executor THEN lifetime' = "draining" /\ SubmitUncounted([op |-> "noop"])
                 ELSE lifetime' = "drained" /\ UNCHANGED <<queue, slots, executor>>
  /\ UNCHANGED <<running, left, store>> /\ UNCHANGED engineVars

(* The wait for the marker is not shielded: it takes a marker that has not *)
(* started along.                                                          *)
DrainTimesOut ==
  /\ lifetime = "draining" /\ lifetime' = "drained"
  /\ IF running # Idle /\ running.op = "noop" THEN UNCHANGED queue
     ELSE \E i \in DOMAIN queue : queue[i].op = "noop" /\ queue' = RemoveAt(queue, i)
  /\ UNCHANGED <<running, left, executor, slots, store>> /\ UNCHANGED engineVars

CloseStore ==
  /\ lifetime = "drained"
  /\ IF executor
     THEN lifetime' = "closing" /\ SubmitUncounted([op |-> "close"]) /\ UNCHANGED store
     ELSE lifetime' = "down" /\ store' = "closed" /\ UNCHANGED <<queue, slots, executor>>
  /\ UNCHANGED <<running, left>> /\ UNCHANGED engineVars

(* shutdown_worker: what has not started is cancelled, what runs goes on.  *)
ShutDown ==
  /\ executor' = FALSE /\ queue' = <<>>
  /\ slots' = Returned(queue, FALSE)
  /\ left' = running /\ running' = Idle

CloseReturns ==
  /\ lifetime = "closed" /\ lifetime' = "down"
  /\ ShutDown
  /\ UNCHANGED store /\ UNCHANGED engineVars

(* A bug: the close is left to the executor that was shut down.            *)
TimeoutLeavesClose == store

(* The close did not get its turn: a thread of its own waits for the store.*)
TimeoutCloses == IF store = "closed" THEN store ELSE "closing"

CloseTimesOut ==
  /\ lifetime = "closing" /\ lifetime' = "down"
  /\ ShutDown
  /\ store' = TimeoutCloses
  /\ UNCHANGED engineVars

ThreadCloses ==
  /\ store = "closing" /\ store' = "closed"
  /\ UNCHANGED <<queue, running, left, executor, slots, lifetime>> /\ UNCHANGED engineVars

WorkerNext ==
  \/ AwaitedWrite \/ WorkerStarts \/ \E ok \in BOOLEAN : JobEnds(ok) \/ FinishLeft(ok)
  \/ \E t \in Tools :
       TurnedAway(t) \/ Succeeded(t) \/ PeerTurnedAway(t) \/ PeerSucceeded(t)
  \/ ReleaseClaims \/ ClockTick
  \/ DrainWrites \/ DrainTimesOut \/ CloseStore \/ CloseReturns \/ CloseTimesOut \/ ThreadCloses

WorkerSpec == WorkerInit /\ [][WorkerNext]_workerVars

(* A write ends, within the busy timeout of SQLite; threads and timers run. *)
WorkerFairSpec ==
  /\ WorkerSpec
  /\ WF_workerVars(WorkerStarts) /\ WF_workerVars(\E ok \in BOOLEAN : JobEnds(ok))
  /\ WF_workerVars(DrainTimesOut) /\ WF_workerVars(CloseStore)
  /\ WF_workerVars(CloseReturns) /\ WF_workerVars(CloseTimesOut)
  /\ WF_workerVars(ThreadCloses)
-----------------------------------------------------------------------------
WorkerTypeOK ==
  /\ queue \in Seq(WriteJobs) /\ running \in WriteJobs \cup {Idle} /\ left \in WriteJobs \cup {Idle}
  /\ executor \in BOOLEAN /\ slots \in 0..MaxQueued
  /\ store \in {"open", "closing", "closed"}
  /\ lifetime \in {"up", "draining", "drained", "closing", "closed", "down"}
  /\ blocked \in Claims /\ lastClaim \in 0..MaxClaims /\ landed \in Seq(Claims)
  /\ faults \in [Tools -> [last : Moments, recovered : Moments]]
  /\ peers \subseteq Tools /\ now \in 1..MaxTime

InHand(job) == IF job = Idle THEN <<>> ELSE <<job>>

(* The cap counts the writes that are queued or running, and nothing else: *)
(* no path of a write, cancelled and failed ones included, keeps its slot. *)
SlotsAreWrites ==
  /\ WorkerTypeOK
  /\ slots = CountedIn(queue) + CountedIn(InHand(running)) + CountedIn(InHand(left))

(* An open episode is somebody's to close: the engine that recorded its    *)
(* last fault still holds a claim on the tool, whichever writes fail, are  *)
(* refused, dropped at the teardown or overtaken by a newer claim.         *)
EpisodesAreOwned ==
  store # "closed" => \A t \in Tools : EpisodeOpen(faults[t]) => blocked[t] # 0 \/ t \in peers

(* A fault that happened before a recovery does not reopen the episode,    *)
(* however late its write lands.                                           *)
RecoveryStands ==
  [][\A t \in Tools :
       ~EpisodeOpen(faults[t]) /\ EpisodeOpen(faults[t])' => faults'[t].last >= faults[t].recovered]_workerVars

(* A teardown closes the store, be the worker stuck behind other writes.   *)
StoreCloses == lifetime \in {"draining", "closing"} ~> store = "closed"

(* Slots of the queue and fault episodes have exactly their owners.        *)
WorkIsOwned == SlotsAreWrites /\ EpisodesAreOwned
=============================================================================
