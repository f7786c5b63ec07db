---------------------------- MODULE UpstreamShutdown ----------------------------
(***************************************************************************)
(* How ProxyManager.stop() (proxy/manager.py) ends an upstream whose older *)
(* transports are still being closed: the generations reconnects retired,  *)
(* the tasks that close them, a recovery in flight, and the drain that     *)
(* cancels those tasks under a budget before stop() closes what is left.   *)
(***************************************************************************)
EXTENDS Naturals, FiniteSets

CONSTANTS
  MaxGenerations, \* bound: the reconnects
  MaxLeases,      \* bound: the calls on one generation at a time
  Recovery,       \* the name of the recovery task
  Nobody          \* no generation

ASSUME ShutdownAssumption ==
  MaxGenerations \in Nat /\ MaxLeases \in Nat \ {0} /\ {Nobody, Recovery} \cap Nat = {}

Generations == 0..MaxGenerations

VARIABLES
  current,   \* conn.reconnect_generation
  owner,     \* per generation: its _UpstreamConnectionOwner
  leases,    \* conn.active_calls
  kept,      \* conn.retired_resources
  entry,     \* keys of conn.retiring_tasks
  retire,    \* per generation: the task of _close_retired_generation
  failed,    \* the owners whose unwind left a cleanup_error
  reconnect, \* the recovery: where it is, and the generation it waits for
  cancelled, \* the tasks that stop() has cancelled: generations, or Recovery
  stopping   \* stop(): where it is, what it has still to look at and waits for

shutdownVars ==
  <<current, owner, leases, kept, entry, retire, failed, reconnect, cancelled, stopping>>
tasks == <<entry, retire, reconnect, cancelled>>

ShutdownInit ==
  /\ current = 0
  /\ owner = [g \in Generations |-> IF g = 0 THEN "open" ELSE "none"]
  /\ leases = [g \in Generations |-> 0]
  /\ kept = {} /\ entry = {} /\ failed = {} /\ cancelled = {}
  /\ retire = [g \in Generations |-> "none"]
  /\ reconnect = [at |-> "none", on |-> Nobody]
  /\ stopping = [at |-> "up", todo |-> {}, on |-> Nobody]

Up == stopping.at = "up"
Runs(g) == retire[g] \in {"new", "closing"}

\* owner.close(): the request, which a cancelled closer does not take back
Asked(g) == IF owner[g] = "open" THEN [owner EXCEPT ![g] = "closing"] ELSE owner
-----------------------------------------------------------------------------
(* The owner task, which alone enters and leaves the transport.            *)

Unwinds(g) ==
  /\ owner[g] = "closing"
  /\ owner' = [owner EXCEPT ![g] = "closed"]
  /\ failed' \in {failed, failed \cup {g}}
  /\ UNCHANGED <<current, leases, kept, tasks, stopping>>

(* The transport fails under it, and the SDK cancels the owner.            *)
Dies(g) ==
  /\ owner[g] = "open" /\ owner' = [owner EXCEPT ![g] = "closing"]
  /\ UNCHANGED <<current, leases, kept, failed, tasks, stopping>>
-----------------------------------------------------------------------------
(* Calls, and the generations they keep from being closed.                 *)

Lease ==
  /\ Up /\ leases[current] < MaxLeases
  /\ leases' = [leases EXCEPT ![current] = @ + 1]
  /\ UNCHANGED <<current, owner, kept, failed, tasks, stopping>>

Unlease(g) ==
  /\ leases[g] > 0 /\ leases' = [leases EXCEPT ![g] = @ - 1]
  /\ IF leases[g] = 1 /\ g \in kept /\ g \notin entry /\ Up
       THEN retire' = [retire EXCEPT ![g] = "new"] /\ entry' = entry \cup {g}
       ELSE UNCHANGED <<retire, entry>>
  /\ UNCHANGED <<current, owner, kept, failed, reconnect, cancelled, stopping>>

RetireRuns(g) ==
  /\ retire[g] = "new" /\ g \notin cancelled
  /\ IF g \in kept
       THEN /\ retire' = [retire EXCEPT ![g] = "closing"] /\ owner' = Asked(g)
            /\ UNCHANGED entry
       ELSE /\ retire' = [retire EXCEPT ![g] = "done"] /\ entry' = entry \ {g}
            /\ UNCHANGED owner
  /\ UNCHANGED <<current, leases, kept, failed, reconnect, cancelled, stopping>>

RetireFinishes(g) ==
  /\ retire[g] = "closing" /\ owner[g] = "closed" /\ g \notin cancelled
  /\ retire' = [retire EXCEPT ![g] = "done"] /\ entry' = entry \ {g}
  /\ kept' = IF g \in failed THEN kept ELSE kept \ {g}
  /\ UNCHANGED <<current, owner, leases, failed, reconnect, cancelled, stopping>>

(* Cancelled before its first step, the task leaves its entry behind.      *)
RetireCancelled(g) ==
  /\ Runs(g) /\ g \in cancelled
  /\ entry' = IF retire[g] = "new" THEN entry ELSE entry \ {g}
  /\ retire' = [retire EXCEPT ![g] = "done"]
  /\ UNCHANGED <<current, owner, leases, kept, failed, reconnect, cancelled, stopping>>
-----------------------------------------------------------------------------
(* The recovery task: the replacement is opened before the old one goes.   *)

Establish ==
  /\ Up /\ reconnect.at = "none" /\ current < MaxGenerations
  /\ owner[current + 1] \in {"none", "closed"}
  /\ owner' = [owner EXCEPT ![current + 1] = "opening"]
  /\ reconnect' = [at |-> "establishing", on |-> current + 1]
  /\ UNCHANGED <<current, leases, kept, entry, retire, failed, cancelled, stopping>>

(* A failed or a cancelled setup is rolled back before it is reported.     *)
RollBack ==
  /\ reconnect.at = "establishing"
  /\ owner' = [owner EXCEPT ![reconnect.on] = "closing"]
  /\ reconnect' = [reconnect EXCEPT !.at = "joining"]
  /\ UNCHANGED <<current, leases, kept, entry, retire, failed, cancelled, stopping>>

SwapGeneration ==
  LET opened == [owner EXCEPT ![reconnect.on] = "open"] IN
  /\ reconnect.at = "establishing" /\ Recovery \notin cancelled
  /\ current' = reconnect.on
  /\ \/ /\ leases[current] > 0
        /\ kept' = kept \cup {current} /\ owner' = opened
        /\ reconnect' = [at |-> "none", on |-> Nobody]
     \/ /\ leases[current] = 0
        /\ owner' = [opened EXCEPT ![current] = Asked(current)[current]]
        /\ reconnect' = [at |-> "joining", on |-> current]
        /\ UNCHANGED kept
  /\ UNCHANGED <<leases, entry, retire, failed, cancelled, stopping>>

(* Cancelled while it joins a roll-back, the task still waits for it.      *)
ReconnectEnds ==
  /\ reconnect.at = "joining"
  /\ owner[reconnect.on] = "closed" \/ (Recovery \in cancelled /\ reconnect.on < current)
  /\ reconnect' = [at |-> "none", on |-> Nobody]
  /\ UNCHANGED <<current, owner, leases, kept, entry, retire, failed, cancelled, stopping>>
-----------------------------------------------------------------------------
(* stop().                                                                 *)

Pending ==
  {g \in Generations : Runs(g)} \cup (IF reconnect.at = "none" THEN {} ELSE {Recovery})

StopStarts ==
  /\ Up /\ stopping' = [stopping EXCEPT !.at = "draining"]
  /\ cancelled' = Pending
  /\ UNCHANGED <<current, owner, leases, kept, entry, retire, failed, reconnect>>

(* Every task has ended, or the budget of the drain is spent, and by then  *)
(* each has taken its cancellation: only a roll-back may outlast it.       *)
Drained ==
  /\ stopping.at = "draining"
  /\ \A g \in Generations : ~Runs(g)
  /\ reconnect.at # "establishing"
  /\ stopping' = [stopping EXCEPT !.at = "closing", !.todo = kept]
  /\ UNCHANGED <<current, owner, leases, kept, failed, tasks>>

(* A bug: a retire task's entry is taken for the task.                     *)
YieldedToEntry(g) == g \in entry

(* The close is left only to a task that is still running.                 *)
Yielded(g) == g \in entry /\ Runs(g)

StopLooks(g) ==
  /\ stopping.at = "closing" /\ stopping.on = Nobody /\ g \in stopping.todo
  /\ stopping' = [stopping EXCEPT !.todo = @ \ {g}, !.on = IF Yielded(g) THEN Nobody ELSE g]
  /\ owner' = IF Yielded(g) THEN owner ELSE Asked(g)
  /\ UNCHANGED <<current, leases, kept, failed, tasks>>

StopClosed ==
  /\ stopping.at = "closing" /\ stopping.on # Nobody /\ owner[stopping.on] = "closed"
  /\ kept' = IF stopping.on \in failed THEN kept ELSE kept \ {stopping.on}
  /\ stopping' = [stopping EXCEPT !.on = Nobody]
  /\ UNCHANGED <<current, owner, leases, failed, tasks>>

StopClosesLive ==
  /\ stopping.at = "closing" /\ stopping.on = Nobody /\ stopping.todo = {}
  /\ owner' = Asked(current) /\ stopping' = [stopping EXCEPT !.at = "last"]
  /\ UNCHANGED <<current, leases, kept, failed, tasks>>

\* and forgets the connection
StopEnds ==
  /\ stopping.at = "last" /\ owner[current] = "closed"
  /\ stopping' = [stopping EXCEPT !.at = "stopped"]
  /\ UNCHANGED <<current, owner, leases, kept, failed, tasks>>

ShutdownNext ==
  \/ Lease \/ Establish \/ RollBack \/ SwapGeneration \/ ReconnectEnds
  \/ StopStarts \/ Drained \/ StopClosed \/ StopClosesLive \/ StopEnds
  \/ \E g \in Generations :
       \/ Unwinds(g) \/ Dies(g) \/ Unlease(g)
       \/ RetireRuns(g) \/ RetireFinishes(g) \/ RetireCancelled(g) \/ StopLooks(g)

ShutdownSpec == ShutdownInit /\ [][ShutdownNext]_shutdownVars
-----------------------------------------------------------------------------
ShutdownTypeOK ==
  /\ current \in Generations /\ leases \in [Generations -> 0..MaxLeases]
  /\ owner \in [Generations -> {"none", "opening", "open", "closing", "closed"}]
  /\ kept \subseteq Generations /\ entry \subseteq Generations
  /\ failed \subseteq Generations /\ cancelled \subseteq Generations \cup {Recovery}
  /\ retire \in [Generations -> {"none", "new", "closing", "done"}]
  /\ reconnect \in [at : {"none", "establishing", "joining"}, on : Generations \cup {Nobody}]
  /\ stopping \in [at : {"up", "draining", "closing", "last", "stopped"},
                   todo : SUBSET Generations, on : Generations \cup {Nobody}]

(* When stop() has forgotten the connection, no transport of it is left    *)
(* that nobody has asked to close, however its closers were cancelled; and *)
(* until stop() begins, a retired one that no call uses is being closed.   *)
NothingLeftOpen ==
  /\ ShutdownTypeOK
  /\ stopping.at = "stopped" => \A g \in Generations : owner[g] \in {"none", "closing", "closed"}
  /\ \A g \in kept : Up /\ leases[g] = 0 => Runs(g) \/ g \in failed
=============================================================================
