---------------------------- MODULE ResponseCache ----------------------------
(***************************************************************************)
(* The SQLite response cache (proxy/cache.py) that several processes, of   *)
(* the same or of different builds, open on one file.  No row a build      *)
(* calls sensitive may rest there after that build has initialized.  The   *)
(* database remembers in `stamp` whose policy has vetted the rows and, by  *)
(* triggers, queues every row written since; an initializer that finds its *)
(* own stamp only looks at the queue, one that does not sweep all rows, on *)
(* a snapshot and without the write reservation.                           *)
(*                                                                         *)
(* A transaction under BEGIN IMMEDIATE is one action.                      *)
(***************************************************************************)
EXTENDS Naturals, FiniteSets

CONSTANTS
  Processes,      \* processes that open the file, or writers of older builds
  Keys,           \* cache keys
  Bodies,         \* result and envelope of a row
  Policies,       \* privacy policy fingerprints
  TriggerTexts,   \* trigger SQL some build ships
  PolicyOf,       \* the policy of a process's build
  TriggersOf,     \* the trigger text of a process's build
  Sensitive,      \* the bodies a policy refuses to store
  Transient,      \* bodies that embed a transient retrieval key
  Careful,        \* policies whose builds keep transient rows queued
  Tracking,       \* trigger texts that queue every insert and body update
  Attempts,       \* _PRIVACY_REPAIR_ATTEMPTS
  MaxEntries,     \* max_entries
  None            \* no row, stamp or trigger

Tokens == Processes \X (1..Attempts)   \* repair tokens: a fresh uuid each

ASSUME CacheAssumption ==
  /\ PolicyOf \in [Processes -> Policies] /\ TriggersOf \in [Processes -> TriggerTexts]
  /\ Sensitive \in [Policies -> SUBSET Bodies]
  /\ Transient \subseteq Bodies /\ Careful \subseteq Policies /\ Tracking \subseteq TriggerTexts
  /\ Attempts \in Nat \ {0} /\ MaxEntries \in Nat \ {0}
  /\ None \notin Bodies \cup Policies \cup TriggerTexts \cup Tokens
  /\ Policies \cap Tokens = {}    \* "it matches NO process's policy fingerprint"

VARIABLES
  rows,       \* proxy_cache: the body stored under each key
  queue,      \* proxy_cache_privacy_unverified
  stamp,      \* privacy_policy_fingerprint in proxy_cache_meta
  triggers,   \* the queue triggers the database runs
  outdated,   \* PRAGMA user_version is below _KEY_SCHEMA_VERSION
  proc        \* per process: where its initialize() is, and what it has read

vars == <<rows, queue, stamp, triggers, outdated, proc>>

At(s, n, keys) == [step |-> s, attempt |-> n, swept |-> keys]

Closed == At("closed", 1, {})

TypeOK ==
  /\ rows \in [Keys -> Bodies \cup {None}]
  /\ queue \subseteq Keys
  /\ stamp \in Policies \cup Tokens \cup {None}
  /\ triggers \in TriggerTexts \cup {None}
  /\ outdated \in BOOLEAN
  /\ proc \in [Processes -> [step: {"closed", "repair", "token", "swept", "open"},
                             attempt: 1..Attempts, swept: SUBSET Keys]]

(* A file left by a build that knew neither the queue nor the stamp.       *)
Init ==
  /\ rows \in [Keys -> Bodies \cup {None}]
  /\ queue = {} /\ stamp = None /\ triggers = None
  /\ outdated \in BOOLEAN
  /\ proc = [p \in Processes |-> Closed]
-----------------------------------------------------------------------------
(* What a writer's statement does to the rows and, through whatever        *)
(* triggers are installed, to the queue.  A text that is not in Tracking   *)
(* may miss any write; no triggers miss every write.                       *)

Stale(P) == {k \in Keys : rows[k] \in Sensitive[P]}
TransientRows == {k \in Keys : rows[k] \in Transient}

Without(D) == [k \in Keys |-> IF k \in D THEN None ELSE rows[k]]

QueuedBy(text, k) ==
  {queue \cup {k} : x \in {text} \cap TriggerTexts} \cup {queue : x \in {text} \ Tracking}

DequeuedBy(text, D) ==
  {queue \ D : x \in {text} \cap TriggerTexts} \cup {queue : x \in {text} \ Tracking}

Remove(D) == rows' = Without(D) /\ queue' \in DequeuedBy(triggers, D)
-----------------------------------------------------------------------------
(* initialize(): open the file, then _repair_privacy_policy.               *)

(* The schema transaction: an outdated table is dropped, and SQLite drops  *)
(* its triggers with it; the queue and the stamp stay.                     *)
Open(p) ==
  /\ proc[p].step = "closed"
  /\ proc' = [proc EXCEPT ![p] = At("repair", 1, {})]
  /\ outdated' = FALSE
  /\ IF outdated THEN rows' = Without(Keys) /\ triggers' = None
                 ELSE UNCHANGED <<rows, triggers>>
  /\ UNCHANGED <<queue, stamp>>

TriggersCurrent(p) == triggers = TriggersOf[p]

StampCurrent(p) == TriggersCurrent(p) /\ stamp = PolicyOf[p]

(* _purge_dead_rows: expired rows, and rows that carry a transient key.    *)
DeadRows(p, expired, candidates) ==
  expired \cup IF PolicyOf[p] \in Careful THEN TransientRows \cap candidates ELSE {}

BecomesOpen(p) == proc' = [proc EXCEPT ![p] = At("open", proc[p].attempt, {})]

(* The stamp is ours: re-decide the queued rows and empty the queue.       *)
WarmRepair(p, expired) ==
  /\ proc[p].step = "repair" /\ StampCurrent(p)
  /\ rows' = Without(DeadRows(p, expired, queue) \cup (Stale(PolicyOf[p]) \cap queue))
  /\ queue' = {}
  /\ BecomesOpen(p)
  /\ UNCHANGED <<stamp, triggers, outdated>>

(* Foreign triggers, or the last attempt: sweep under the reservation.     *)
LockedRepair(p, expired) ==
  /\ proc[p].step = "repair" /\ ~StampCurrent(p)
  /\ ~TriggersCurrent(p) \/ proc[p].attempt = Attempts
  /\ rows' = Without(DeadRows(p, expired, Keys) \cup Stale(PolicyOf[p]))
  /\ queue' = {}
  /\ stamp' = PolicyOf[p] /\ triggers' = TriggersOf[p]
  /\ BecomesOpen(p)
  /\ UNCHANGED outdated

(* A bug: every attempt may lose the race, the last one too.               *)
PublishTokenAlways(p, expired) ==
  /\ proc[p].step = "repair" /\ ~StampCurrent(p)
  /\ TriggersCurrent(p)
  /\ Remove(DeadRows(p, expired, Keys))
  /\ stamp' = <<p, proc[p].attempt>>
  /\ proc' = [proc EXCEPT ![p] = At("token", proc[p].attempt, {})]
  /\ UNCHANGED <<triggers, outdated>>

(* Otherwise publish a repair token and let the reservation go.            *)
PublishToken(p, expired) ==
  /\ proc[p].step = "repair" /\ ~StampCurrent(p)
  /\ TriggersCurrent(p) /\ proc[p].attempt < Attempts
  /\ Remove(DeadRows(p, expired, Keys))
  /\ stamp' = <<p, proc[p].attempt>>
  /\ proc' = [proc EXCEPT ![p] = At("token", proc[p].attempt, {})]
  /\ UNCHANGED <<triggers, outdated>>

(* The unlocked sweep reads one WAL snapshot.                              *)
Sweep(p) ==
  /\ proc[p].step = "token"
  /\ proc' = [proc EXCEPT ![p] = At("swept", proc[p].attempt, Stale(PolicyOf[p]))]
  /\ UNCHANGED <<rows, queue, stamp, triggers, outdated>>

(* A bug: a token another initializer has replaced still counts.           *)
TokenIgnored(p) == TriggersCurrent(p)

TokenStands(p) == stamp = <<p, proc[p].attempt>> /\ TriggersCurrent(p)

(* A bug: a lost race does not use up an attempt.                          *)
SupersededFree(p) ==
  /\ proc[p].step = "swept" /\ ~TokenStands(p)
  /\ proc' = [proc EXCEPT ![p] = At("repair", proc[p].attempt, {})]
  /\ UNCHANGED <<rows, queue, stamp, triggers, outdated>>

Superseded(p) ==
  /\ proc[p].step = "swept" /\ ~TokenStands(p)
  /\ proc' = [proc EXCEPT ![p] = At("repair", proc[p].attempt + 1, {})]
  /\ UNCHANGED <<rows, queue, stamp, triggers, outdated>>

(* A bug: the sweep's verdict also counts for rewritten rows.              *)
FinishRepairTwice(p) ==
  /\ proc[p].step = "swept" /\ TokenStands(p)
  /\ rows' = Without(DeadRows(p, {}, queue) \cup (Stale(PolicyOf[p]) \cap queue) \cup proc[p].swept)
  /\ queue' = {}
  /\ stamp' = PolicyOf[p]
  /\ BecomesOpen(p)
  /\ UNCHANGED <<triggers, outdated>>

(* Queued rows are judged on the body they have now; the sweep's verdict   *)
(* counts for the rest.                                                    *)
FinishRepair(p) ==
  /\ proc[p].step = "swept" /\ TokenStands(p)
  /\ LET dead == DeadRows(p, {}, queue)
         left == queue \ dead
     IN  rows' = Without(dead \cup (Stale(PolicyOf[p]) \cap left) \cup (proc[p].swept \ left))
  /\ queue' = {}
  /\ stamp' = PolicyOf[p]
  /\ BecomesOpen(p)
  /\ UNCHANGED <<triggers, outdated>>

(* A crash, an error that makes initialize() raise, or close().            *)
Close(p) ==
  /\ proc[p].step # "closed"
  /\ proc' = [proc EXCEPT ![p] = Closed]
  /\ UNCHANGED <<rows, queue, stamp, triggers, outdated>>
-----------------------------------------------------------------------------
(* The store while it is open.                                             *)

(* A bug: set() dequeues its key whoever's policy is published.            *)
SetDequeues(p, k, body) ==
  /\ proc[p].step = "open" /\ body \notin Sensitive[PolicyOf[p]]
  /\ rows' = [rows EXCEPT ![k] = body]
  /\ queue' = queue \ {k}
  /\ UNCHANGED <<stamp, triggers, outdated, proc>>

(* set(): the gate, the upsert with the triggers' effect, the dequeue of a *)
(* key this policy has just vetted, then _trim.                            *)
Set(p, k, body) ==
  LET P == PolicyOf[p]
      vetted == stamp = P /\ (P \in Careful => body \notin Transient)
      stored == [rows EXCEPT ![k] = body]
      excess == Cardinality({j \in Keys : stored[j] # None}) - MaxEntries
  IN
  /\ proc[p].step = "open" /\ body \notin Sensitive[P]
  /\ \E queued \in QueuedBy(triggers, k), trimmed \in SUBSET {j \in Keys : stored[j] # None} :
       /\ Cardinality(trimmed) = IF excess > 0 THEN excess ELSE 0
       /\ rows' = [j \in Keys |-> IF j \in trimmed THEN None ELSE stored[j]]
       /\ queue' = (IF vetted THEN queued \ {k} ELSE queued)
                     \ IF triggers \in Tracking THEN trimmed ELSE {}
  /\ UNCHANGED <<stamp, triggers, outdated, proc>>

(* get() evicts a row its own policy would not have stored.                *)
GetEvicts(p, k) ==
  /\ proc[p].step = "open" /\ rows[k] \in Sensitive[PolicyOf[p]]
  /\ Remove({k})
  /\ UNCHANGED <<stamp, triggers, outdated, proc>>

(* invalidate(), clear() and purge_expired() delete one row or several.    *)
Delete(p, D) ==
  /\ proc[p].step = "open" /\ \E k \in D : rows[k] # None
  /\ Remove(D)
  /\ UNCHANGED <<stamp, triggers, outdated, proc>>

(* A writer that knows only the proxy_cache table.                         *)
LegacyWrite(k, body) ==
  /\ rows' = [rows EXCEPT ![k] = body]
  /\ queue' \in QueuedBy(triggers, k)
  /\ UNCHANGED <<stamp, triggers, outdated, proc>>
-----------------------------------------------------------------------------
RepairStep(p) ==
  \/ \E expired \in SUBSET Keys :
       WarmRepair(p, expired) \/ LockedRepair(p, expired) \/ PublishToken(p, expired)
  \/ Sweep(p) \/ Superseded(p) \/ FinishRepair(p)

StoreStep(p) ==
  \/ \E k \in Keys, body \in Bodies : Set(p, k, body)
  \/ \E k \in Keys : GetEvicts(p, k)
  \/ \E D \in SUBSET Keys : Delete(p, D)

Next ==
  \/ \E p \in Processes : Open(p) \/ RepairStep(p) \/ StoreStep(p) \/ Close(p)
  \/ \E k \in Keys, body \in Bodies : LegacyWrite(k, body)

Spec == Init /\ [][Next]_vars

(* initialize() is synchronous: unless the process dies it runs on.        *)
FairSpec == Spec /\ \A p \in Processes : WF_vars(RepairStep(p))
-----------------------------------------------------------------------------
(* A policy stamp vouches for every row that is not queued: a row written  *)
(* since, by whichever process, is in the queue the next warm open reads.  *)
StampVouches ==
  stamp \in Policies /\ triggers \in Tracking =>
    /\ Stale(stamp) \subseteq queue
    /\ stamp \in Careful => TransientRows \subseteq queue

(* initialize() returns with nothing at rest that its policy rejects and   *)
(* no row that carries a dead retrieval key, whoever raced it.             *)
InitializeCleans ==
  [][\A p \in Processes :
       /\ proc[p].step # "open" /\ proc'[p].step = "open"
       /\ TriggersOf[p] \in Tracking /\ PolicyOf[p] \in Careful
       => /\ stamp' = PolicyOf[p]
          /\ Stale(PolicyOf[p])' = {} /\ TransientRows' = {}]_vars

(* A verdict of the unlocked sweep deletes the body it judged, not one     *)
(* written under the same key since.                                       *)
PurgeIsExact ==
  [][\A p \in Processes : proc[p].step = "swept" /\ proc'[p].step = "open"
                            /\ TriggersOf[p] \in Tracking =>
       \A k \in Keys : rows[k] # None /\ rows'[k] = None =>
         rows[k] \in Sensitive[PolicyOf[p]] \cup Transient]_vars

(* However often initializers supersede each other, each of them ends.     *)
RepairEnds == \A p \in Processes :
  proc[p].step = "repair" ~> proc[p].step \in {"open", "closed"}

(* Rows and stamp agree, and every row, queue entry and stamp is one the   *)
(* builds write.                                                           *)
CacheIsVouched == TypeOK /\ StampVouches

(* What an initialization leaves and what it deletes: nothing its policy   *)
(* rejects is left, nothing it did not judge is deleted.                   *)
RepairIsExact == InitializeCleans /\ PurgeIsExact
=============================================================================
