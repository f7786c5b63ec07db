----------------------------- MODULE ChildReaper -----------------------------
(***************************************************************************)
(* The sweep of leaked children at the end of a process                    *)
(* (utils/child_reaper.py) with what races it: daemons that                *)
(* daemon/spawn.py launches detached and claims, the threads that reap     *)
(* them, stdio servers that end and are reaped, another sweep of the       *)
(* watchdog's thread, and the kernel, which hands a reaped pid to the next *)
(* child.                                                                  *)
(*                                                                         *)
(* The moments of time.monotonic() that the claims and the probes carry    *)
(* are compared with each other only: a retirement keeps the sweeps whose  *)
(* window was open then.  The clock is fine enough to tell two steps       *)
(* apart.  Assumed: a pid is not handed out again between a sweep's answer *)
(* and the signals it sends at once.  The code does not look a second time *)
(* before SIGTERM; only what it kills after the wait is polled until then. *)
(***************************************************************************)
EXTENDS Naturals, FiniteSets

CONSTANTS
  Pids,      \* process ids
  Spawns,    \* detached launches
  StdioServers, \* stdio servers this process starts and nobody claims
  Host,      \* a child of the host, there before this lifespan
  Sweeps,    \* sweeps, each in a thread of its own
  NoOne

ASSUME ReaperAssumption ==
  /\ IsFiniteSet(Pids) /\ Cardinality(Pids) >= 1
  /\ Spawns \cap StdioServers = {} /\ Host \notin Spawns \cup StdioServers
  /\ NoOne \notin Spawns \cup StdioServers \cup {Host}

VARIABLES
  bearer,    \* the child each pid names, alive or not reaped yet
  dead,      \* the children that have exited
  struck,    \* the children some sweep signalled
  claims,    \* _detached_claims
  holder,    \* who holds _detached_lock
  spawn,     \* the launch and its waiter: where they are, the pid, and the
             \* sweeps that were looking when the waiter released it
  server,    \* whether a stdio server has been started
  sweep      \* each sweep: where it is, what its probe saw, its answer

reaperVars == <<bearer, dead, struck, claims, holder, spawn, server, sweep>>

Children == Spawns \cup StdioServers \cup {Host}

Unclaimed == [serial |-> NoOne, retired |-> FALSE, within |-> {}]

ReaperInit ==
  /\ \E p \in Pids : bearer = [q \in Pids |-> IF q = p THEN Host ELSE NoOne]
  /\ dead = {} /\ struck = {}
  /\ claims = [p \in Pids |-> Unclaimed] /\ holder = NoOne
  /\ spawn = [d \in Spawns |-> [at |-> "idle", pid |-> NoOne, within |-> {}]]
  /\ server = [c \in StdioServers |-> FALSE]
  /\ sweep = [s \in Sweeps |-> [at |-> "idle", saw |-> {}, answer |-> {}]]

(* The pids of the startup probe: what the host had running.               *)
Baseline == {p \in Pids : bearer[p] = Host}

(* Assumed, as said above.                                                 *)
Answered(p) == \E s \in Sweeps : sweep[s].at = "signals" /\ p \in sweep[s].answer
FreePids == {p \in Pids : bearer[p] = NoOne /\ ~Answered(p)}

(* The sweeps registered in _active_probes.                                *)
OpenWindows == {s \in Sweeps : sweep[s].at \in {"opened", "probed"}}

Claimed(claim) == claim.serial # NoOne

(* _drop_settled_retirements()                                             *)
Settled(cs) ==
  [p \in Pids |-> IF cs[p].retired /\ cs[p].within \cap OpenWindows = {} THEN Unclaimed ELSE cs[p]]

(* spawn_claimed(): the lock, Popen, the claim.                            *)
TakeClaimLock(d) ==
  /\ spawn[d].at = "idle" /\ holder = NoOne
  /\ holder' = d /\ spawn' = [spawn EXCEPT ![d].at = "locked"]
  /\ UNCHANGED <<bearer, dead, struck, claims, server, sweep>>

Launch(d) ==
  /\ spawn[d].at = "locked"
  /\ \E p \in FreePids :
       /\ bearer' = [bearer EXCEPT ![p] = d]
       /\ spawn' = [spawn EXCEPT ![d].at = "launched", ![d].pid = p]
  /\ UNCHANGED <<dead, struck, claims, holder, server, sweep>>

LaunchFails(d) ==
  /\ spawn[d].at = "locked"
  /\ spawn' = [spawn EXCEPT ![d].at = "failed"] /\ holder' = NoOne
  /\ UNCHANGED <<bearer, dead, struck, claims, server, sweep>>

Claim(d) ==
  /\ spawn[d].at = "launched"
  /\ claims' = [claims EXCEPT ![spawn[d].pid] = [Unclaimed EXCEPT !.serial = d]]
  /\ spawn' = [spawn EXCEPT ![d].at = "claimed"] /\ holder' = NoOne
  /\ UNCHANGED <<bearer, dead, struck, server, sweep>>

(* The waiter: child.wait(), then release_claim().                         *)
Reap(d) ==
  /\ spawn[d].at = "claimed" /\ d \in dead
  /\ bearer' = [bearer EXCEPT ![spawn[d].pid] = NoOne]
  /\ spawn' = [spawn EXCEPT ![d].at = "reaped"]
  /\ UNCHANGED <<dead, struck, claims, holder, server, sweep>>

(* A bug: whoever claims the pid now loses it.                             *)
RetiredByPid(claim, d) ==
  IF Claimed(claim) /\ ~claim.retired
  THEN [claim EXCEPT !.retired = TRUE, !.within = OpenWindows]
  ELSE claim

Retired(claim, d) ==
  IF claim.serial = d /\ ~claim.retired
  THEN [claim EXCEPT !.retired = TRUE, !.within = OpenWindows]
  ELSE claim

Release(d) ==
  /\ spawn[d].at = "reaped" /\ holder = NoOne
  /\ claims' = Settled([claims EXCEPT ![spawn[d].pid] = Retired(@, d)])
  /\ spawn' = [spawn EXCEPT ![d].at = "released", ![d].within = OpenWindows]
  /\ UNCHANGED <<bearer, dead, struck, holder, server, sweep>>

(* What the process's other children do.                                   *)
StartServer(c) ==
  /\ ~server[c] /\ server' = [server EXCEPT ![c] = TRUE]
  /\ \E p \in FreePids : bearer' = [bearer EXCEPT ![p] = c]
  /\ UNCHANGED <<dead, struck, claims, holder, spawn, sweep>>

Exits(c) ==
  /\ \E p \in Pids : bearer[p] = c
  /\ c \notin dead /\ dead' = dead \cup {c}
  /\ UNCHANGED <<bearer, struck, claims, holder, spawn, server, sweep>>

ReapServer(c) ==
  /\ c \in dead \cap StdioServers
  /\ \E p \in Pids : bearer[p] = c /\ bearer' = [bearer EXCEPT ![p] = NoOne]
  /\ UNCHANGED <<dead, struck, claims, holder, spawn, server, sweep>>

(* leaked_child_pids(): the window, the probe, the claims.                 *)
OpenWindow(s) ==
  /\ sweep[s].at = "idle" /\ sweep' = [sweep EXCEPT ![s].at = "opened"]
  /\ UNCHANGED <<bearer, dead, struck, claims, holder, spawn, server>>

Probe(s) ==
  /\ sweep[s].at = "opened"
  /\ sweep' = [sweep EXCEPT ![s].at = "probed",
                            ![s].saw = {<<p, bearer[p]>> :
                                          p \in {q \in Pids \ Baseline : bearer[q] # NoOne}}]
  /\ UNCHANGED <<bearer, dead, struck, claims, holder, spawn, server>>

(* pgrep fails, or a launch keeps the lock: nothing is swept.              *)
Skip(s) ==
  /\ sweep[s].at = "opened" \/ (sweep[s].at = "probed" /\ holder # NoOne)
  /\ sweep' = [sweep EXCEPT ![s] = [at |-> "skipped", saw |-> {}, answer |-> {}]]
  /\ UNCHANGED <<bearer, dead, struck, claims, holder, spawn, server>>

Spared(s) ==
  {p \in Pids : Claimed(claims[p]) /\ (claims[p].retired => s \in claims[p].within)}

ReadClaims(s) ==
  /\ sweep[s].at = "probed" /\ holder = NoOne
  /\ sweep' = [sweep EXCEPT ![s].at = "signals",
                            ![s].answer = {seen[1] : seen \in sweep[s].saw} \ Spared(s)]
  /\ claims' = Settled(claims)
  /\ UNCHANGED <<bearer, dead, struck, holder, spawn, server>>

(* terminate_leaked_children(): what SIGTERM leaves, SIGKILL takes.        *)
Signal(s) ==
  /\ sweep[s].at = "signals"
  /\ LET hit == {bearer[p] : p \in sweep[s].answer} \ {NoOne} IN
       struck' = struck \cup hit /\ dead' = dead \cup hit
  /\ sweep' = [sweep EXCEPT ![s].at = "done"]
  /\ UNCHANGED <<bearer, claims, holder, spawn, server>>

ReaperNext ==
  \/ \E d \in Spawns : \/ TakeClaimLock(d) \/ Launch(d) \/ LaunchFails(d) \/ Claim(d)
                       \/ Reap(d) \/ Release(d)
  \/ \E c \in StdioServers : StartServer(c) \/ ReapServer(c)
  \/ \E c \in Children : Exits(c)
  \/ \E s \in Sweeps : OpenWindow(s) \/ Probe(s) \/ Skip(s) \/ ReadClaims(s) \/ Signal(s)

ReaperSpec == ReaperInit /\ [][ReaperNext]_reaperVars
-----------------------------------------------------------------------------
(* A sweep signals stdio servers only, and answers with no pid under which *)
(* its probe saw a claimed daemon: not the daemon of another launch that   *)
(* was given a pid whose waiter is late, nor one reaped since the probe    *)
(* (spawn_claimed, release_claim, leaked_child_pids).                      *)
OnlyLeaksAreSignalled ==
  /\ struck \subseteq StdioServers
  /\ \A s \in Sweeps : sweep[s].at = "signals" =>
       \A seen \in sweep[s].saw : seen[1] \in sweep[s].answer => seen[2] \in StdioServers

(* A daemon was reaped under p while sweep s looked, or its waiter has yet *)
(* to say so.                                                              *)
JustReaped(p, s) ==
  \E d \in Spawns : spawn[d].pid = p /\ (spawn[d].at = "reaped" \/ s \in spawn[d].within)

(* A sweep that answered names every stdio server its probe saw, unless    *)
(* the server was given the pid of a daemon reaped while the sweep looked: *)
(* a claim whose child is long gone exempts nobody (release_claim).        *)
LeaksAreAnswered ==
  \A s \in Sweeps : sweep[s].at = "probed" /\ holder = NoOne =>
    \A seen \in sweep[s].saw :
      (seen[2] \in StdioServers /\ bearer[seen[1]] = seen[2]) =>
        \/ seen[1] \notin Spared(s)
        \/ JustReaped(seen[1], s)

ReaperIsSound == OnlyLeaksAreSignalled /\ LeaksAreAnswered
=============================================================================
