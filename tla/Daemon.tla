------------------------------- MODULE Daemon --------------------------------
(***************************************************************************)
(* The shared surfacing daemon of one config fingerprint: its lifetime     *)
(* lock and handshake record (daemon/locking.py, discovery.py), the        *)
(* process that owns them (daemon/server.py), and the commands and clients *)
(* of other processes that start it, stop it and send it requests          *)
(* (daemon/spawn.py, client.py, cli/daemon_cmd.py).                        *)
(*                                                                         *)
(* A process that dies releases the lock, which is an flock, and leaves    *)
(* the record.  Every spawned process has a pid and a port of its own: a   *)
(* pid or a port the operating system recycles is not modelled, nor is     *)
(* Windows, where no command may signal a pid.                             *)
(***************************************************************************)
EXTENDS Integers, FiniteSets

CONSTANTS
  Daemons,      \* processes that may be spawned, each at most once
  Starts,       \* mms daemon start, or a hook or adapter that auto-spawns
  Stops,        \* mms daemon stop under this config
  StopAlls,     \* mms daemon stop --all under another config
  Clients,      \* connections that each carry one request at a time
  MaxPending,   \* config.daemon.max_pending_requests
  MaxLtmOps,    \* config.daemon.max_concurrent_ltm_ops
  MaxSpawns,    \* _START_MAX_SPAWNS
  None

Commands == Starts \cup Stops \cup StopAlls

ASSUME DaemonAssumption ==
  /\ None \notin Daemons \cup Commands
  /\ Daemons \cap Commands = {}
  /\ Starts \cap (Stops \cup StopAlls) = {} /\ Stops \cap StopAlls = {}
  /\ MaxPending \in Nat \ {0} /\ MaxLtmOps \in Nat \ {0} /\ MaxSpawns \in Nat

VARIABLES
  lock,         \* the process that holds stm-daemon-<fp>.lock, or None
  record,       \* the daemon stm-daemon-<fp>.json describes, or None
  daemon,       \* where each process is in serve()
  stopping,     \* its _shutdown_event
  pc,           \* where each command is
  raw,          \* the record a stop read first, or None
  spawns,       \* children a start has launched
  told,         \* the daemon a stop waits for: the one it asked, signalled or listed
  phase,        \* where each client's request is
  peer          \* the daemon the client's request is addressed to

commands == <<pc, raw, spawns, told>>
requests == <<phase, peer>>
vars == <<lock, record, daemon, stopping, commands, requests>>

Init ==
  /\ lock = None /\ record = None
  /\ daemon = [d \in Daemons |-> "unborn"]
  /\ stopping = [d \in Daemons |-> FALSE]
  /\ pc = [c \in Commands |-> "begin"]
  /\ raw = [c \in Commands |-> None]
  /\ spawns = [c \in Commands |-> 0]
  /\ told = [c \in Commands |-> None]
  /\ phase = [c \in Clients |-> "idle"]
  /\ peer = [c \in Clients |-> None]
-----------------------------------------------------------------------------
(* What a process is.  The listener is open in "serving" alone: "warm" has *)
(* bound its port, but nobody knows it before the record is published.     *)

Published == {"serving", "draining", "tearing", "torn", "checked"}
Owning == Published \cup {"building", "warm", "cleared"}
Alive(d) == daemon[d] \in Owning \cup {"waiting"}
Accepts(d) == d # None /\ daemon[d] = "serving"

Jobs(d, phases) == {c \in Clients : peer[c] = d /\ phase[c] \in phases}
Open == {"accepted", "queued", "running"}
Admitted == {"queued", "running"}

Turn(d, from, to) ==
  daemon[d] = from /\ daemon' = [daemon EXCEPT ![d] = to]

Move(c, from, to) ==
  pc[c] = from /\ pc' = [pc EXCEPT ![c] = to]

(* A command that reports is over but for the lock it may still hold.      *)
Report(c, from, what) ==
  /\ Move(c, from, what)
  /\ raw' = [raw EXCEPT ![c] = None] /\ told' = [told EXCEPT ![c] = None]

Shift(c, from, to) ==
  phase[c] = from /\ phase' = [phase EXCEPT ![c] = to]

(* The connection is closed, with a reply or without one.                  *)
Hangup(c, from) ==
  Shift(c, from, "idle") /\ peer' = [peer EXCEPT ![c] = None]
-----------------------------------------------------------------------------
(* serve: the lifetime lock, the engine, the record.                       *)

(* A bug: a child that builds its engine whether or not it got the lock.   *)
AcquireAnyway(d) ==
  /\ Turn(d, "waiting", "building")
  /\ lock' = d
  /\ UNCHANGED <<record, stopping, commands, requests>>

Acquire(d) ==
  /\ Turn(d, "waiting", "building")
  /\ lock = None /\ lock' = d
  /\ UNCHANGED <<record, stopping, commands, requests>>

LoseRace(d) ==
  /\ Turn(d, "waiting", "gone") /\ lock # None
  /\ UNCHANGED <<lock, record, stopping, commands, requests>>

Build(d) ==
  /\ Turn(d, "building", "warm")
  /\ UNCHANGED <<lock, record, stopping, commands, requests>>

Publish(d) ==
  /\ Turn(d, "warm", "serving") /\ record' = d
  /\ UNCHANGED <<lock, stopping, commands, requests>>

(* _idle_watch looks at the admitted requests, not at open connections.    *)
GoIdle(d) ==
  /\ daemon[d] = "serving" /\ ~stopping[d] /\ Jobs(d, Admitted) = {}
  /\ stopping' = [stopping EXCEPT ![d] = TRUE]
  /\ UNCHANGED <<lock, record, daemon, commands, requests>>

(* A bug: the record removed as the listener closes.                       *)
CloseUnpublished(d) ==
  /\ Turn(d, "serving", "draining") /\ stopping[d] /\ record' = None
  /\ UNCHANGED <<lock, stopping, commands, requests>>

(* `async with server` closes the listener, then waits for the handlers of *)
(* the connections it had accepted.                                        *)
CloseListener(d) ==
  /\ Turn(d, "serving", "draining") /\ stopping[d]
  /\ UNCHANGED <<lock, record, stopping, commands, requests>>

(* A bug: a teardown that does not wait for the handlers.                  *)
DrainUnawaited(d) ==
  /\ Turn(d, "draining", "tearing")
  /\ UNCHANGED <<lock, record, stopping, commands, requests>>

Drain(d) ==
  /\ Turn(d, "draining", "tearing") /\ Jobs(d, Open) = {}
  /\ UNCHANGED <<lock, record, stopping, commands, requests>>

Teardown(d) ==
  /\ Turn(d, "tearing", "torn")
  /\ UNCHANGED <<lock, record, stopping, commands, requests>>

(* remove_handshake_if_owner reads the record, then unlinks the path.      *)
CheckOwner(d) ==
  /\ Turn(d, "torn", IF record = d THEN "checked" ELSE "cleared")
  /\ UNCHANGED <<lock, record, stopping, commands, requests>>

Unlink(d) ==
  /\ Turn(d, "checked", "cleared") /\ record' = None
  /\ UNCHANGED <<lock, stopping, commands, requests>>

Release(d) ==
  /\ Turn(d, "cleared", "gone") /\ lock' = None
  /\ UNCHANGED <<record, stopping, commands, requests>>

(* An exception out of the build, a SIGKILL, the OOM killer.               *)
Crash(d) ==
  /\ Alive(d) /\ daemon' = [daemon EXCEPT ![d] = "gone"]
  /\ lock' = IF lock = d THEN None ELSE lock
  /\ phase' = [c \in Clients |->
                 IF c \in Jobs(d, Open) THEN "idle" ELSE phase[c]]
  /\ peer' = [c \in Clients |->
                IF c \in Jobs(d, Open) THEN None ELSE peer[c]]
  /\ UNCHANGED <<record, stopping, commands>>
-----------------------------------------------------------------------------
(* A request: _request connects to the recorded endpoint; _run_admitted.   *)
(* One whose endpoint is gone changes nothing, so the read of the record   *)
(* and the connection are one step.                                        *)

Connect(c) ==
  /\ Shift(c, "idle", "accepted")
  /\ Accepts(record) /\ peer' = [peer EXCEPT ![c] = record]
  /\ UNCHANGED <<lock, record, daemon, stopping, commands>>

Admit(c) ==
  /\ IF Cardinality(Jobs(peer[c], Admitted)) < MaxPending
     THEN Shift(c, "accepted", "queued") /\ UNCHANGED peer
     ELSE Hangup(c, "accepted")
  /\ UNCHANGED <<lock, record, daemon, stopping, commands>>

RunRequest(c) ==
  /\ Shift(c, "queued", "running")
  /\ Cardinality(Jobs(peer[c], {"running"})) < MaxLtmOps
  /\ UNCHANGED <<lock, record, daemon, stopping, commands, peer>>

Answer(c) ==
  /\ Hangup(c, "running")
  /\ UNCHANGED <<lock, record, daemon, stopping, commands>>

(* A bug: a deadline over the wait alone.                                  *)
ExpireWaiting(c) ==
  /\ Hangup(c, "queued") \/ Hangup(c, "accepted")
  /\ UNCHANGED <<lock, record, daemon, stopping, commands>>

(* The deadline covers the wait for a slot as well as the operation.       *)
Expire(c) ==
  /\ \E from \in Open : Hangup(c, from)
  /\ UNCHANGED <<lock, record, daemon, stopping, commands>>
-----------------------------------------------------------------------------
(* request_spawn and the loop of start_cmd.  A ping that fails against a   *)
(* daemon that serves goes on to the probe, which finds the lock held.     *)

StartPings(c) ==
  /\ Report(c, "begin", "ended") /\ Accepts(record)
  /\ UNCHANGED <<lock, record, daemon, stopping, spawns, requests>>

(* A bug: a start without _START_MAX_SPAWNS.                               *)
StartProbesUncapped(c) ==
  /\ Move(c, "begin", "probing")
  /\ lock = None /\ lock' = c
  /\ UNCHANGED <<record, daemon, stopping, raw, spawns, told, requests>>

StartProbes(c) ==
  /\ Move(c, "begin", "probing") /\ spawns[c] < MaxSpawns
  /\ lock = None /\ lock' = c
  /\ UNCHANGED <<record, daemon, stopping, raw, spawns, told, requests>>

StartReleases(c) ==
  /\ Move(c, "probing", "spawn") /\ lock' = None
  /\ UNCHANGED <<record, daemon, stopping, raw, spawns, told, requests>>

(* A launch that raises spends the same budget as one that does not.       *)
StartSpawns(c) ==
  /\ Move(c, "spawn", "begin") /\ spawns' = [spawns EXCEPT ![c] = @ + 1]
  /\ \/ \E d \in Daemons : Turn(d, "unborn", "waiting")
     \/ UNCHANGED daemon
  /\ UNCHANGED <<lock, record, stopping, raw, told, requests>>

StartTimesOut(c) ==
  /\ Report(c, "begin", "ended")
  /\ UNCHANGED <<lock, record, daemon, stopping, spawns, requests>>
-----------------------------------------------------------------------------
(* _stop_current_config_daemon: read_handshake, then client.shutdown,      *)
(* which reads the record again.  A read may fail and yield None.          *)

StopReads(c) ==
  /\ Move(c, "begin", "shutdown")
  /\ \E seen \in {record, None} : raw' = [raw EXCEPT ![c] = seen]
  /\ UNCHANGED <<lock, record, daemon, stopping, spawns, told, requests>>

StopFinds(c) ==
  /\ Move(c, "shutdown", "asking")
  /\ record # None /\ told' = [told EXCEPT ![c] = record]
  /\ UNCHANGED <<lock, record, daemon, stopping, raw, spawns, requests>>

StopAcked(c) ==
  /\ Move(c, "asking", "await") /\ Accepts(told[c])
  /\ stopping' = [stopping EXCEPT ![told[c]] = TRUE]
  /\ UNCHANGED <<lock, record, daemon, raw, spawns, told, requests>>

(* No record, no connection, or no answer in time: it may have been asked. *)
StopDeclined(c) ==
  /\ Move(c, "shutdown", "declined") \/ Move(c, "asking", "declined")
  /\ \/ UNCHANGED stopping
     \/ /\ Accepts(told[c])
        /\ stopping' = [stopping EXCEPT ![told[c]] = TRUE]
  /\ told' = [told EXCEPT ![c] = raw[c]]
  /\ UNCHANGED <<lock, record, daemon, raw, spawns, requests>>

StopWithoutRecord(c) ==
  /\ raw[c] = None
  /\ IF record = None
     THEN Move(c, "declined", "waitlock") /\ UNCHANGED <<raw, told>>
     ELSE Report(c, "declined", "ended")
  /\ UNCHANGED <<lock, record, daemon, stopping, spawns, requests>>

(* probe_listening may exceed its budget against a daemon that listens.    *)
StopWithRecord(c) ==
  /\ raw[c] # None
  /\ \/ Move(c, "declined", "signal") /\ Accepts(raw[c])
     \/ Move(c, "declined", "settle")
  /\ UNCHANGED <<lock, record, daemon, stopping, raw, spawns, told, requests>>

(* os.kill: the handler sets the shutdown event.  A pid gone by now leads  *)
(* `stop` to the stale case; `stop --all` awaits the record all the same.  *)
Signal(c) ==
  /\ pc[c] = "signal"
  /\ IF Alive(raw[c])
     THEN Move(c, "signal", "await") /\ stopping' = [stopping EXCEPT ![raw[c]] = TRUE]
     ELSE /\ Move(c, "signal", IF c \in Stops THEN "settle" ELSE "await")
          /\ UNCHANGED stopping
  /\ UNCHANGED <<lock, record, daemon, raw, spawns, told, requests>>

(* _wait_handshakes_removed.                                               *)
StopConfirmed(c) ==
  /\ Report(c, "await", "stopped") /\ record = None
  /\ UNCHANGED <<lock, record, daemon, stopping, spawns, requests>>

(* _wait_lock_free holds the lock while it looks and while it settles.     *)
StopFindsNone(c) ==
  /\ Report(c, "waitlock", "absent")
  /\ lock = None /\ lock' = c
  /\ UNCHANGED <<record, daemon, stopping, spawns, requests>>

(* A bug: a stale record settled without the lock.                         *)
SettleUnlocked(c) ==
  /\ Move(c, "settle", "settling")
  /\ UNCHANGED <<lock, record, daemon, stopping, raw, spawns, told, requests>>

StopTakesLock(c) ==
  /\ Move(c, "settle", "settling")
  /\ lock = None /\ lock' = c
  /\ UNCHANGED <<record, daemon, stopping, raw, spawns, told, requests>>

(* The unlink of a stale record is best effort.                            *)
Settle(c) ==
  /\ IF record = None
     THEN Report(c, "settling", "stopped") /\ UNCHANGED record
     ELSE Report(c, "settling", "stale") /\ record' \in {None, record}
  /\ UNCHANGED <<lock, daemon, stopping, spawns, requests>>

StopReleases(c) ==
  /\ \E from \in {"absent", "stale", "stopped"} : Move(c, from, "ended")
  /\ lock = c /\ lock' = None
  /\ UNCHANGED <<record, daemon, stopping, raw, spawns, told, requests>>

(* The wait ran out, the pid is not ours to signal, or the lock is UNKNOWN. *)
StopFails(c) ==
  /\ \E from \in {"signal", "await", "waitlock", "settle"} : Report(c, from, "ended")
  /\ UNCHANGED <<lock, record, daemon, stopping, spawns, requests>>
-----------------------------------------------------------------------------
(* _live_foreign_daemons and _stop_foreign_daemons.  _probe_lock takes and *)
(* releases the lock in one step here; it holds nothing while it waits.    *)

ListForeign(c) ==
  /\ IF record = None
     THEN Report(c, "begin", "ended")
     ELSE /\ Move(c, "begin", "judge")
          /\ \E seen \in {record, None} :
               /\ raw' = [raw EXCEPT ![c] = seen]
               /\ told' = [told EXCEPT ![c] = seen]
  /\ UNCHANGED <<lock, record, daemon, stopping, spawns, requests>>

Judge(c) ==
  /\ \/ Move(c, "judge", "recheck") /\ Accepts(raw[c]) /\ UNCHANGED <<raw, told>>
     \/ Move(c, "judge", "waitfree") /\ lock # None /\ UNCHANGED <<raw, told>>
     \/ Report(c, "judge", "ended") /\ lock = None
  /\ UNCHANGED <<lock, record, daemon, stopping, spawns, requests>>

Recheck(c) ==
  /\ \/ Move(c, "recheck", "signal") /\ Accepts(raw[c])
     \/ Move(c, "recheck", "waitfree") /\ lock # None
     \/ Move(c, "recheck", "peek") /\ lock = None
  /\ UNCHANGED <<lock, record, daemon, stopping, raw, spawns, told, requests>>

Peek(c) ==
  /\ Report(c, "peek", IF record = None THEN "stopped" ELSE "ended")
  /\ UNCHANGED <<lock, record, daemon, stopping, spawns, requests>>

ForeignFreed(c) ==
  /\ Report(c, "waitfree", "stopped") /\ lock = None
  /\ UNCHANGED <<lock, record, daemon, stopping, spawns, requests>>

ForeignFails(c) ==
  /\ \E from \in {"signal", "await", "waitfree"} : Report(c, from, "ended")
  /\ UNCHANGED <<lock, record, daemon, stopping, spawns, requests>>
-----------------------------------------------------------------------------
Serve(d) ==
  \/ Acquire(d) \/ LoseRace(d) \/ Build(d) \/ Publish(d)
  \/ CloseListener(d) \/ Drain(d) \/ Teardown(d)
  \/ CheckOwner(d) \/ Unlink(d) \/ Release(d)

Request(c) == Connect(c) \/ Admit(c) \/ RunRequest(c) \/ Answer(c) \/ Expire(c)

Start(c) ==
  StartPings(c) \/ StartProbes(c) \/ StartReleases(c) \/ StartSpawns(c) \/ StartTimesOut(c)

Stop(c) ==
  \/ StopReads(c) \/ StopFinds(c) \/ StopAcked(c) \/ StopDeclined(c)
  \/ StopWithoutRecord(c) \/ StopWithRecord(c) \/ Signal(c) \/ StopConfirmed(c)
  \/ StopFindsNone(c) \/ StopTakesLock(c) \/ Settle(c) \/ StopReleases(c) \/ StopFails(c)

StopAll(c) ==
  \/ ListForeign(c) \/ Judge(c) \/ Recheck(c) \/ Peek(c) \/ Signal(c)
  \/ StopConfirmed(c) \/ ForeignFreed(c) \/ ForeignFails(c)

Next ==
  \/ \E d \in Daemons : Serve(d) \/ GoIdle(d) \/ Crash(d)
  \/ \E c \in Clients : Request(c)
  \/ \E c \in Starts : Start(c)
  \/ \E c \in Stops : Stop(c)
  \/ \E c \in StopAlls : StopAll(c)

Spec == Init /\ [][Next]_vars

(* A process that runs takes its next step, and a deadline that has passed *)
(* fires; an operation itself may hang for good.                           *)
Fairness ==
  /\ \A d \in Daemons : WF_vars(Serve(d))
  /\ \A c \in Clients : WF_vars(Admit(c)) /\ WF_vars(Expire(c))

FairSpec == Spec /\ Fairness
-----------------------------------------------------------------------------
TypeOK ==
  /\ lock \in Daemons \cup Commands \cup {None}
  /\ record \in Daemons \cup {None}
  /\ daemon \in [Daemons -> Owning \cup {"unborn", "waiting", "gone"}]
  /\ stopping \in [Daemons -> BOOLEAN]
  /\ pc \in [Commands -> {"begin", "probing", "spawn", "shutdown", "asking", "declined",
                          "signal", "await", "waitlock", "settle", "settling", "judge",
                          "recheck", "peek", "waitfree", "absent", "stale",
                          "stopped", "ended"}]
  /\ raw \in [Commands -> Daemons \cup {None}]
  /\ spawns \in [Commands -> 0..MaxSpawns]
  /\ told \in [Commands -> Daemons \cup {None}]
  /\ phase \in [Clients -> Open \cup {"idle"}]
  /\ peer \in [Clients -> Daemons \cup {None}]

(* At most one process is past the lifetime lock, so at most one holds a   *)
(* warm engine: a losing child leaves before it builds one.                *)
SingleOwner ==
  \A d, e \in Daemons : daemon[d] \in Owning /\ daemon[e] \in Owning => d = e

(* A daemon stays discoverable from its publication until its engine, its  *)
(* stores and its LTM child are down: no successor overwrites its record   *)
(* and no stop cleans it up as stale.                                      *)
RecordOutlivesTeardown ==
  \A d \in Daemons : daemon[d] \in Published => record = d

(* Admitted or accepted work never runs on an engine that is going down.   *)
EngineCoversWork ==
  \A d \in Daemons : Jobs(d, Open) # {} => daemon[d] \in {"serving", "draining"}

Down(d) == d # None => daemon[d] \in {"cleared", "gone"}

Truthful(c) ==
  pc'[c] # pc[c] =>
    /\ pc'[c] = "stopped" => \A d \in {told[c]} : Down(d)'
    /\ pc'[c] \in {"absent", "stale"} => \A d \in Daemons : daemon'[d] \notin Owning

(* A stop that reports "stopped" speaks of a daemon whose teardown is over *)
(* or which is dead; one that reports no daemon, or a stale record, does   *)
(* so while none is starting, serving or tearing down.                     *)
ReportsAreTrue == [][\A c \in Stops \cup StopAlls : Truthful(c)]_vars

(* A daemon told to stop finishes: requests it had accepted cannot keep it *)
(* draining past their deadlines, and its lock and record are given up.    *)
StopEnds ==
  \A d \in Daemons :
    stopping[d] ~> (daemon[d] = "gone" /\ lock # d)

(* The daemon's invariants together: one owner, a record that lasts as     *)
(* long as there is something to discover, and an engine under all work.   *)
DaemonIsSound ==
  TypeOK /\ SingleOwner /\ RecordOutlivesTeardown /\ EngineCoversWork
=============================================================================
