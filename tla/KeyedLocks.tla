----------------------------- MODULE KeyedLocks ------------------------------
(***************************************************************************)
(* The refcounted per-key locks of utils/keyed_locks.py.  The registry     *)
(* holds one entry, an asyncio.Lock and a reference count, for each key    *)
(* that some task holds or waits for.  The stretch between two awaits is   *)
(* one action.                                                             *)
(*                                                                         *)
(* asyncio.Lock is external: a release wakes the first future in its queue *)
(* without giving it the lock, a new arrival may not overtake a queued     *)
(* future that is not cancelled, and a cancelled waiter passes a wake-up   *)
(* on.  A queue is kept as the set of the tasks ahead of each waiter.      *)
(***************************************************************************)
EXTENDS Integers, FiniteSets

CONSTANTS
  Tasks,     \* the coroutines that call hold()
  Keys,      \* lock keys
  Entries,   \* _Entry objects
  None       \* no entry, no key

ASSUME LocksAssumption == IsFiniteSet(Tasks) /\ None \notin Entries \cup Keys \cup Tasks

VARIABLES
  entries,   \* KeyedLocks._entries
  refs,      \* _Entry.refs
  locked,    \* whether an entry's lock is held
  task,      \* where each task is in hold(), with its key, entry and future
  ahead      \* the tasks queued ahead of a waiting task

lockVars == <<entries, refs, locked, task, ahead>>

At(s, k, e, f) == [step |-> s, key |-> k, entry |-> e, future |-> f]
Idle == At("idle", None, None, "none")
With(t, f) == At(task[t].step, task[t].key, task[t].entry, f)

LocksTypeOK ==
  /\ entries \in [Keys -> Entries \cup {None}]
  /\ refs \in [Entries -> Nat]
  /\ locked \in [Entries -> BOOLEAN]
  /\ task \in [Tasks -> [step: {"idle", "waiting", "inside"}, key: Keys \cup {None},
                         entry: Entries \cup {None},
                         future: {"none", "pending", "woken", "cancelled", "revoked"}]]
  /\ ahead \in [Tasks -> SUBSET Tasks]

LocksInit ==
  /\ entries = [k \in Keys |-> None]
  /\ refs = [e \in Entries |-> 0] /\ locked = [e \in Entries |-> FALSE]
  /\ task = [t \in Tasks |-> Idle] /\ ahead = [t \in Tasks |-> {}]
-----------------------------------------------------------------------------
(* asyncio.Lock.                                                           *)

Waiters(e) == {t \in Tasks : task[t].step = "waiting" /\ task[t].entry = e}

MayTake(e) == ~locked[e] /\ \A t \in Waiters(e) : task[t].future = "cancelled"

(* _wake_up_first, once t has left the queue or the lock of e: the first   *)
(* waiter, unless its future is already done.                              *)
Woken(e, t) ==
  {u \in Waiters(e) \ {t} : ahead[u] \subseteq {t} /\ task[u].future = "pending"}

Dequeued(t) == [u \in Tasks |-> IF u = t THEN {} ELSE ahead[u] \ {t}]

(* task' when t goes to `where` and the tasks in W are woken.              *)
Moved(t, where, W) ==
  [u \in Tasks |-> IF u = t THEN where
                   ELSE IF u \in W THEN With(u, "woken") ELSE task[u]]
-----------------------------------------------------------------------------
(* hold().                                                                 *)

Fresh(e) == e \notin {entries[k] : k \in Keys} /\ \A t \in Tasks : task[t].entry # e

(* A bug: the count is not claimed before the await.                       *)
ClaimedLate(k, e) ==
  /\ entries' = [entries EXCEPT ![k] = e]
  /\ refs' = [refs EXCEPT ![e] = IF entries[k] = None THEN 1 ELSE refs[e]]

(* The entry of the key, or a new one, with one more reference.            *)
Claimed(k, e) ==
  /\ entries' = [entries EXCEPT ![k] = e]
  /\ refs' = [refs EXCEPT ![e] = IF entries[k] = None THEN 1 ELSE refs[e] + 1]

(* The shape of #878: the entry goes with the first release.               *)
PoppedAlways(k, e) ==
  /\ refs' = [refs EXCEPT ![e] = refs[e] - 1]
  /\ entries' = [entries EXCEPT ![k] = None]

Dropped(k, e) ==
  /\ refs' = [refs EXCEPT ![e] = refs[e] - 1]
  /\ entries' = IF refs[e] - 1 <= 0 /\ entries[k] = e
                THEN [entries EXCEPT ![k] = None] ELSE entries

(* Up to the first await: the lock at once, or a place in its queue.       *)
Register(t, k, e) ==
  /\ task[t].step = "idle"
  /\ IF entries[k] = None THEN Fresh(e) ELSE e = entries[k]
  /\ Claimed(k, e)
  /\ IF entries[k] = None \/ MayTake(e)
     THEN /\ locked' = [locked EXCEPT ![e] = TRUE]
          /\ task' = [task EXCEPT ![t] = At("inside", k, e, "none")]
          /\ UNCHANGED ahead
     ELSE /\ task' = [task EXCEPT ![t] = At("waiting", k, e, "pending")]
          /\ ahead' = [ahead EXCEPT ![t] = Waiters(e)]
          /\ UNCHANGED locked

(* The waiter resumes and takes the lock it was woken for.                 *)
Resume(t) ==
  /\ task[t].step = "waiting" /\ task[t].future = "woken"
  /\ locked' = [locked EXCEPT ![task[t].entry] = TRUE]
  /\ task' = [task EXCEPT ![t] = At("inside", task[t].key, task[t].entry, "none")]
  /\ ahead' = Dequeued(t)
  /\ UNCHANGED <<entries, refs>>

(* Task.cancel() on a waiter, before or after it was woken.                *)
CancelTask(t) ==
  /\ task[t].step = "waiting" /\ task[t].future \in {"pending", "woken"}
  /\ task' = [task EXCEPT ![t] =
                With(t, IF task[t].future = "pending" THEN "cancelled" ELSE "revoked")]
  /\ UNCHANGED <<entries, refs, locked, ahead>>

(* A bug: the finally does not cover a cancelled wait.                     *)
ResumeLeaks(t) ==
  LET e == task[t].entry IN
  /\ task[t].step = "waiting" /\ task[t].future \in {"cancelled", "revoked"}
  /\ task' = Moved(t, Idle, IF locked[e] THEN {} ELSE Woken(e, t))
  /\ ahead' = Dequeued(t)
  /\ UNCHANGED <<entries, refs, locked>>

(* The cancelled waiter resumes, passes the wake-up on and unregisters.    *)
ResumeCancelled(t) ==
  LET e == task[t].entry IN
  /\ task[t].step = "waiting" /\ task[t].future \in {"cancelled", "revoked"}
  /\ task' = Moved(t, Idle, IF locked[e] THEN {} ELSE Woken(e, t))
  /\ ahead' = Dequeued(t)
  /\ Dropped(task[t].key, e)
  /\ UNCHANGED locked

(* A bug: an exception in the body leaves the lock held.                   *)
ExitHolding(t) ==
  /\ task[t].step = "inside"
  /\ task' = Moved(t, Idle, {})
  /\ Dropped(task[t].key, task[t].entry)
  /\ UNCHANGED <<ahead, locked>>

(* The body ends, is cancelled or raises.                                  *)
Exit(t) ==
  LET e == task[t].entry IN
  /\ task[t].step = "inside"
  /\ locked' = [locked EXCEPT ![e] = FALSE]
  /\ task' = Moved(t, Idle, Woken(e, t))
  /\ Dropped(task[t].key, e)
  /\ UNCHANGED ahead
-----------------------------------------------------------------------------
LocksNext ==
  \E t \in Tasks :
    \/ \E k \in Keys, e \in Entries : Register(t, k, e)
    \/ Resume(t) \/ CancelTask(t) \/ ResumeCancelled(t) \/ Exit(t)

LocksSpec == LocksInit /\ [][LocksNext]_lockVars

(* The event loop runs what is ready, and the body of a hold ends.         *)
LocksFairSpec == LocksSpec /\ \A t \in Tasks : WF_lockVars(Resume(t) \/ ResumeCancelled(t) \/ Exit(t))
-----------------------------------------------------------------------------
(* Two tasks are never inside one key, however the registrations, releases *)
(* and cancellations around them interleave.                               *)
MutualExclusion ==
  \A t, u \in Tasks : task[t].step = "inside" /\ task[u].step = "inside"
                        /\ task[t].key = task[u].key => t = u

(* An entry exists exactly while some task holds or waits for its key, and *)
(* they all use that entry: no leak, and no second lock under a key.       *)
EntriesInFlight ==
  \A k \in Keys :
    /\ entries[k] # None => \E t \in Tasks : task[t].key = k
    /\ \A t \in Tasks : task[t].key = k => entries[k] = task[t].entry

(* The registry of locks is sound: exclusion within a key, and one entry   *)
(* for each key in use.                                                    *)
RegistryIsSound == LocksTypeOK /\ MutualExclusion /\ EntriesInFlight

(* A waiter gets in or gives up: no wake-up is lost to a cancellation.     *)
WaitersEnter == \A t \in Tasks : task[t].step = "waiting" ~> task[t].step # "waiting"

Holder(k) ==
  IF \E t \in Tasks : task[t].step = "inside" /\ task[t].key = k
  THEN CHOOSE t \in Tasks : task[t].step = "inside" /\ task[t].key = k
  ELSE None

Abstract == INSTANCE KeyMutex WITH inside <- [k \in Keys |-> Holder(k)]

(* The registry implements one mutex for each key.                         *)
ImplementsMutex == Abstract!Spec
=============================================================================
