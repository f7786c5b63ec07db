----------------------------- MODULE LtmAdapter ------------------------------
(***************************************************************************)
(* The adapter that talks to the long-term memory server                   *)
(* (surfacing/mcp_client.py, McpClientSearchAdapter).  The contexts of a   *)
(* transport may only be exited by the task that entered them, so callers  *)
(* queue start, reconnect and close requests for one owner task, and leave *)
(* when they are cancelled: a queued request is then skipped, one in       *)
(* flight runs on.  A session that failed an RPC is marked dirty by its    *)
(* generation, and all callers share one reconnect flight for it.          *)
(*                                                                         *)
(* The stretch between two awaits is one action.  _needs_reconnect is set  *)
(* and cleared with `dirty`, and is left out.                              *)
(***************************************************************************)
EXTENDS Naturals, Sequences

CONSTANTS
  Callers,     \* request tasks: search, compose, scratch, proposals, boosts
  Replaying,   \* those that send their RPC again after a reconnect
  Warm,        \* the warm_up() task
  Nobody,      \* no task: the caller of a request has left
  MaxGen,      \* bound: sessions
  MaxQueue,    \* bound: requests waiting for the owner when a start is abandoned
  MaxFailures, \* bound: starts that fail
  MaxDeaths    \* bound: owner tasks cancelled from outside

ASSUME AdapterAssumption ==
  /\ Replaying \subseteq Callers /\ Warm \notin Callers /\ Nobody \notin Callers \cup {Warm}
  /\ MaxGen \in Nat \ {0} /\ MaxQueue \in Nat \ {0} /\ MaxFailures \in Nat /\ MaxDeaths \in Nat

Gens == 1..MaxGen
Owners == 1..MaxDeaths + 1

VARIABLES
  session,     \* generation of the published session, 0 for None
  generation,  \* sessions published so far
  dirty,       \* _dirty_generation, 0 for None
  stack,       \* the owner that entered the current contexts, 0 for None
  live,        \* per owner, the transports it entered that are still open
  owner,       \* the owner task: its number and where it is
  queue,       \* _requests
  current,     \* _current_req
  attempted,   \* _start_attempted
  startLock,   \* holder of _start_lock
  flights,     \* _reconnect_flights
  caller,      \* where each caller is
  warm,        \* where warm_up() is
  stop,        \* where stop() is
  gathering,   \* the flights stop() waits for
  failures, deaths

sessionVars == <<session, generation, dirty>>
ownerVars == <<stack, live, owner, queue, current, failures, deaths>>
adapterVars == <<sessionVars, ownerVars, attempted, startLock, flights, caller, warm, stop, gathering>>

AdapterRequest(o, w, g) == [op |-> o, who |-> w, gen |-> g]
NoRequest == AdapterRequest("none", Nobody, 0)
At(s, g, r) == [step |-> s, gen |-> g, result |-> r]
Idle == At("idle", 0, "none")

AdapterTypeOK ==
  /\ session \in 0..MaxGen /\ generation \in 0..MaxGen /\ dirty \in 0..MaxGen
  /\ stack \in Owners \cup {0} /\ live \in [Owners -> 0..1]
  /\ owner \in [id: 0..MaxDeaths + 1, step: {"absent", "idle", "closing", "starting", "dead"}]
  /\ \A i \in DOMAIN queue : queue[i].op \in {"start", "reconnect", "close"}
  /\ current.op \in {"none", "start", "reconnect", "close"}
  /\ attempted \in BOOLEAN /\ startLock \in Callers \cup {Nobody}
  /\ flights \in [Gens -> {"none", "new", "waiting", "ok", "failed"}]
  /\ caller \in [Callers -> [step: {"idle", "queued", "starting", "healing", "rpc", "rejoining", "retry"},
                             gen: 0..MaxGen, result: {"none", "ok", "failed"}]]
  /\ warm \in {"due", "waiting", "over"} /\ stop \in {"no", "joining", "gathering", "done"}
  /\ gathering \subseteq Gens /\ failures \in 0..MaxFailures /\ deaths \in 0..MaxDeaths

AdapterInit ==
  /\ session = 0 /\ generation = 0 /\ dirty = 0 /\ stack = 0
  /\ live = [o \in Owners |-> 0] /\ owner = [id |-> 0, step |-> "absent"]
  /\ queue = <<>> /\ current = NoRequest /\ attempted = FALSE /\ startLock = Nobody
  /\ flights = [g \in Gens |-> "none"] /\ caller = [c \in Callers |-> Idle]
  /\ warm \in {"due", "over"} /\ stop = "no" /\ gathering = {}
  /\ failures = 0 /\ deaths = 0

Stopped == stop # "no"
-----------------------------------------------------------------------------
(* _submit: queue a request for the owner, and create one if there is none *)
(* that lives.  A new owner must not exit what a dead one entered.         *)

OwnerAlive == owner.step \in {"idle", "closing", "starting"}

Submit(request) ==
  /\ ~Stopped
  /\ queue' = Append(queue, request)
  /\ IF OwnerAlive THEN UNCHANGED <<owner, stack, session>>
     ELSE /\ owner' = [id |-> owner.id + 1, step |-> "idle"]
          /\ stack' = 0
          /\ session' = IF stack # 0 THEN 0 ELSE session
  /\ UNCHANGED <<live, current, failures, deaths, generation, dirty>>

(* The awaiting side of the futures in R, when they get result r.          *)
Resolved(R, r) ==
  /\ caller' = [c \in Callers |->
       IF AdapterRequest("start", c, 0) \in R THEN [caller[c] EXCEPT !.result = r] ELSE caller[c]]
  /\ flights' = [g \in Gens |->
       IF AdapterRequest("reconnect", Nobody, g) \in R THEN r ELSE flights[g]]
  /\ warm' = IF AdapterRequest("start", Warm, 0) \in R THEN "over" ELSE warm

Queued == {queue[i] : i \in DOMAIN queue}

(* _submit's caller is cancelled: its request has nobody waiting for it.   *)
Abandoned(c) ==
  LET left(r) == IF r.who = c THEN [r EXCEPT !.who = Nobody] ELSE r IN
  /\ queue' = [i \in DOMAIN queue |-> left(queue[i])]
  /\ current' = left(current)
-----------------------------------------------------------------------------
(* The callers: _heal_if_needed, the RPC, and what its failure does.       *)

Goes(c, s, g) == caller' = [caller EXCEPT ![c] = At(s, g, "none")]

(* _shared_reconnect: join the flight for g, or create it.                 *)
Joins(c, s, g) ==
  /\ Goes(c, s, g)
  /\ flights' = [flights EXCEPT ![g] = IF flights[g] = "none" THEN "new" ELSE flights[g]]

(* A bug: the mark does not look at what is published by now.              *)
MarkedAny(g) == g

(* _mark_dirty: only the published session can become dirty.               *)
Marked(g) == IF session = g THEN g ELSE dirty

(* Holding _start_lock: somebody else started, or failed to, or we do.     *)
StartLocked(c) ==
  \/ /\ (session # 0 \/ attempted)
     /\ IF session # 0 THEN Goes(c, "rpc", generation) ELSE Goes(c, "idle", 0)
     /\ startLock' = Nobody
     /\ UNCHANGED <<sessionVars, ownerVars, attempted>>
  \/ /\ session = 0 /\ ~attempted /\ Stopped
     /\ Goes(c, "idle", 0) /\ attempted' = TRUE /\ startLock' = Nobody
     /\ UNCHANGED <<sessionVars, ownerVars>>
  \/ /\ session = 0 /\ ~attempted
     /\ attempted' = TRUE /\ startLock' = c
     /\ Submit(AdapterRequest("start", c, 0))
     /\ Goes(c, "starting", 0)

CallDirty(c) ==
  /\ caller[c].step = "idle" /\ dirty # 0
  /\ Joins(c, "healing", dirty)
  /\ UNCHANGED <<sessionVars, ownerVars, attempted, startLock, warm, stop, gathering>>

CallReady(c) ==
  /\ caller[c].step = "idle" /\ dirty = 0 /\ session # 0
  /\ Goes(c, "rpc", generation)
  /\ UNCHANGED <<sessionVars, ownerVars, attempted, startLock, flights, warm, stop, gathering>>

CallCold(c) ==
  /\ caller[c].step = "idle" /\ dirty = 0 /\ session = 0
  /\ IF startLock = Nobody /\ \A d \in Callers : caller[d].step # "queued" THEN StartLocked(c)
     ELSE Goes(c, "queued", 0) /\ UNCHANGED <<sessionVars, ownerVars, attempted, startLock>>
  /\ UNCHANGED <<flights, warm, stop, gathering>>

TakeLock(c) ==
  /\ caller[c].step = "queued" /\ startLock = Nobody
  /\ StartLocked(c)
  /\ UNCHANGED <<flights, warm, stop, gathering>>

(* start() returned or raised.  Without a session the caller's assertion   *)
(* fails, which ends the call too.                                         *)
StartReturns(c) ==
  /\ caller[c].step = "starting" /\ caller[c].result # "none"
  /\ IF caller[c].result = "ok" /\ session # 0 THEN Goes(c, "rpc", generation) ELSE Goes(c, "idle", 0)
  /\ startLock' = Nobody
  /\ UNCHANGED <<sessionVars, ownerVars, attempted, flights, warm, stop, gathering>>

HealReturns(c) ==
  /\ caller[c].step = "healing" /\ caller[c].result # "none"
  /\ IF caller[c].result = "ok" /\ session # 0 THEN Goes(c, "rpc", generation) ELSE Goes(c, "idle", 0)
  /\ UNCHANGED <<sessionVars, ownerVars, attempted, startLock, flights, warm, stop, gathering>>

(* An answer, of any kind: the transport works.                            *)
RpcEnds(c) ==
  /\ caller[c].step \in {"rpc", "retry"}
  /\ Goes(c, "idle", 0)
  /\ UNCHANGED <<sessionVars, ownerVars, attempted, startLock, flights, warm, stop, gathering>>

(* A transport error: mark the session the RPC ran on, and reconnect.      *)
RpcBreaks(c) ==
  /\ caller[c].step = "rpc" /\ caller[c].gen < MaxGen
  /\ dirty' = Marked(caller[c].gen)
  /\ Joins(c, "rejoining", caller[c].gen)
  /\ UNCHANGED <<session, generation, ownerVars, attempted, startLock, warm, stop, gathering>>

RejoinReturns(c) ==
  /\ caller[c].step = "rejoining" /\ caller[c].result # "none"
  /\ IF caller[c].result = "ok" /\ session # 0 /\ c \in Replaying
     THEN Goes(c, "retry", generation) ELSE Goes(c, "idle", 0)
  /\ UNCHANGED <<sessionVars, ownerVars, attempted, startLock, flights, warm, stop, gathering>>

RetryBreaks(c) ==
  /\ caller[c].step = "retry" /\ caller[c].gen < MaxGen
  /\ dirty' = Marked(caller[c].gen)
  /\ Goes(c, "idle", 0)
  /\ UNCHANGED <<session, generation, ownerVars, attempted, startLock, flights, warm, stop, gathering>>

(* A bug: a cancelled caller leaves the start marked as attempted.         *)
CancelSticks(c) ==
  /\ caller[c].step # "idle"
  /\ caller[c].step = "starting" => Len(queue) < MaxQueue
  /\ caller[c].step = "starting" => Len(queue) < MaxQueue
  /\ Goes(c, "idle", 0)
  /\ IF caller[c].step = "starting"
     THEN startLock' = Nobody /\ Abandoned(c)
     ELSE UNCHANGED <<startLock, queue, current>>
  /\ UNCHANGED <<sessionVars, stack, live, owner, failures, deaths, attempted, flights, warm, stop, gathering>>

(* The engine's timeout cancels the caller wherever it waits.              *)
CancelCaller(c) ==
  /\ caller[c].step # "idle"
  /\ caller[c].step = "starting" => Len(queue) < MaxQueue
  /\ Goes(c, "idle", 0)
  /\ IF caller[c].step = "starting"
     THEN attempted' = FALSE /\ startLock' = Nobody /\ Abandoned(c)
     ELSE UNCHANGED <<attempted, startLock, queue, current>>
  /\ UNCHANGED <<sessionVars, stack, live, owner, failures, deaths, flights, warm, stop, gathering>>
-----------------------------------------------------------------------------
(* warm_up(), scheduled at startup before any request can arrive.          *)
WarmUp ==
  /\ warm = "due" /\ owner.step = "absent" /\ \A c \in Callers : caller[c] = Idle
  /\ IF Stopped THEN warm' = "over" /\ UNCHANGED <<sessionVars, ownerVars>>
     ELSE warm' = "waiting" /\ Submit(AdapterRequest("start", Warm, 0))
  /\ UNCHANGED <<attempted, startLock, flights, caller, stop, gathering>>

(* A bug: a flight reconnects whatever has happened since.                 *)
FlightRunsStale(g) ==
  /\ flights[g] = "new"
  /\ \/ /\ Stopped
        /\ flights' = [flights EXCEPT ![g] = "failed"]
        /\ UNCHANGED <<sessionVars, ownerVars>>
     \/ /\ Submit(AdapterRequest("reconnect", Nobody, g))
        /\ flights' = [flights EXCEPT ![g] = "waiting"]
  /\ UNCHANGED <<attempted, startLock, caller, warm, stop, gathering>>

(* _reconnect_generation: the generation may have been replaced already.   *)
FlightRuns(g) ==
  /\ flights[g] = "new"
  /\ \/ /\ (dirty # g \/ Stopped)
        /\ flights' = [flights EXCEPT ![g] = IF dirty # g THEN "ok" ELSE "failed"]
        /\ UNCHANGED <<sessionVars, ownerVars>>
     \/ /\ dirty = g
        /\ Submit(AdapterRequest("reconnect", Nobody, g))
        /\ flights' = [flights EXCEPT ![g] = "waiting"]
  /\ UNCHANGED <<attempted, startLock, caller, warm, stop, gathering>>

(* The flight ends, is evicted, and resumes those that share it.           *)
FlightEnds(g) ==
  /\ flights[g] \in {"ok", "failed"}
  /\ flights' = [flights EXCEPT ![g] = "none"] /\ gathering' = gathering \ {g}
  /\ caller' = [c \in Callers |->
       IF caller[c].step \in {"healing", "rejoining"} /\ caller[c].gen = g /\ caller[c].result = "none"
       THEN At(caller[c].step, g, flights[g]) ELSE caller[c]]
  /\ UNCHANGED <<sessionVars, ownerVars, attempted, startLock, warm, stop>>
-----------------------------------------------------------------------------
(* The owner task: _owner_loop, _do_start, _do_close.                      *)

Becomes(s) == owner' = [owner EXCEPT !.step = s]
Opened == live' = [live EXCEPT ![owner.id] = @ + 1] /\ stack' = owner.id
ClosedStack == live' = [live EXCEPT ![stack] = @ - 1]

(* A bug: the requests still queued are dropped.                           *)
DiesSilently(R) ==
  /\ Becomes("dead") /\ queue' = <<>> /\ current' = NoRequest
  /\ Resolved(R, "failed")

(* The owner leaves its loop: everything still queued fails.               *)
Dies(R) ==
  /\ Becomes("dead") /\ queue' = <<>> /\ current' = NoRequest
  /\ Resolved(R \cup Queued, "failed")

(* A bug: a start does not look whether a session is there already.        *)
StartsAnyway(r) == r.op = "start"

OwnerStarts(r) == r.op = "start" /\ session = 0

Take(r) == owner.step = "idle" /\ queue # <<>> /\ r = Head(queue) /\ queue' = Tail(queue)

SkipRequest ==
  /\ \E r \in Queued : Take(r) /\ r.op = "start" /\ r.who = Nobody
  /\ UNCHANGED <<sessionVars, stack, live, owner, current, failures, deaths, attempted, startLock,
                 flights, caller, warm, stop, gathering>>

StartNeedless ==
  /\ \E r \in Queued : Take(r) /\ r.op = "start" /\ r.who # Nobody /\ ~OwnerStarts(r) /\ Resolved({r}, "ok")
  /\ UNCHANGED <<sessionVars, stack, live, owner, current, failures, deaths, attempted, startLock, stop, gathering>>

BeginStart ==
  /\ \E r \in Queued :
       /\ Take(r) /\ current' = r
       /\ \/ r.op = "reconnect" /\ stack = 0
          \/ r.who # Nobody /\ OwnerStarts(r)
  /\ Opened /\ Becomes("starting")
  /\ UNCHANGED <<sessionVars, failures, deaths, attempted, startLock, flights, caller, warm, stop, gathering>>

BeginClose ==
  /\ \E r \in Queued : Take(r) /\ r.op \in {"reconnect", "close"} /\ current' = r
  /\ stack # 0
  /\ Becomes("closing")
  /\ UNCHANGED <<sessionVars, stack, live, failures, deaths, attempted, startLock, flights, caller, warm, stop, gathering>>

CloseNothing ==
  /\ owner.step = "idle" /\ queue # <<>> /\ Head(queue).op = "close" /\ stack = 0
  /\ Dies({})
  /\ UNCHANGED <<sessionVars, stack, live, failures, deaths, attempted, startLock, stop, gathering>>

(* The contexts are exited: a reconnect goes on, a close ends the owner.   *)
CloseEnds ==
  /\ owner.step = "closing"
  /\ session' = 0
  /\ \/ /\ current.op = "reconnect"
        /\ stack' = owner.id
        /\ live' = IF stack = owner.id THEN live ELSE [live EXCEPT ![stack] = @ - 1, ![owner.id] = @ + 1]
        /\ Becomes("starting") /\ UNCHANGED <<queue, current, flights, caller, warm>>
     \/ /\ current.op = "close"
        /\ ClosedStack /\ stack' = 0
        /\ Dies({})
  /\ UNCHANGED <<generation, dirty, failures, deaths, attempted, startLock, stop, gathering>>

(* stop()'s close fails: the error goes to its future, the loop goes on.   *)
CloseFails ==
  /\ owner.step = "closing" /\ current.op = "close" /\ failures < MaxFailures
  /\ failures' = failures + 1
  /\ ClosedStack /\ stack' = 0 /\ session' = 0
  /\ Becomes("idle") /\ current' = NoRequest
  /\ UNCHANGED <<generation, dirty, queue, deaths, attempted, startLock, flights, caller, warm, stop, gathering>>

StartSucceeds ==
  /\ owner.step = "starting"
  /\ generation' = generation + 1 /\ session' = generation + 1
  /\ dirty' = IF current.op = "reconnect" /\ dirty = current.gen THEN 0 ELSE dirty
  /\ Becomes("idle") /\ current' = NoRequest
  /\ Resolved({current}, "ok")
  /\ UNCHANGED <<stack, live, queue, failures, deaths, attempted, startLock, stop, gathering>>

(* A bug: a failed start does not exit the contexts it entered.            *)
StartFailsOpen ==
  /\ owner.step = "starting" /\ failures < MaxFailures
  /\ failures' = failures + 1
  /\ stack' = 0 /\ session' = 0
  /\ Becomes("idle") /\ current' = NoRequest
  /\ Resolved({current}, "failed")
  /\ UNCHANGED <<live, generation, dirty, queue, deaths, attempted, startLock, stop, gathering>>

StartFails ==
  /\ owner.step = "starting" /\ failures < MaxFailures
  /\ failures' = failures + 1
  /\ ClosedStack /\ stack' = 0 /\ session' = 0
  /\ Becomes("idle") /\ current' = NoRequest
  /\ Resolved({current}, "failed")
  /\ UNCHANGED <<generation, dirty, queue, deaths, attempted, startLock, stop, gathering>>

(* A bug: a cancelled owner leaves the caller of its op waiting.           *)
OwnerCancelledMute ==
  /\ OwnerAlive
  /\ IF owner.step = "idle" THEN UNCHANGED <<live, stack, session>>
     ELSE ClosedStack /\ stack' = 0 /\ session' = 0
  /\ Dies({})
  /\ UNCHANGED <<generation, dirty, failures, attempted, startLock>>

(* The owner is cancelled: an open contexts' exit or rollback runs in it,  *)
(* but an idle owner leaves the contexts of its session behind.            *)
OwnerCancelled ==
  /\ OwnerAlive
  /\ IF owner.step = "idle" THEN UNCHANGED <<live, stack, session>>
     ELSE ClosedStack /\ stack' = 0 /\ session' = 0
  /\ Dies({current})
  /\ UNCHANGED <<generation, dirty, failures, attempted, startLock>>

(* From outside, as the streamable HTTP transport does on a failure.       *)
OwnerKilled ==
  /\ deaths < MaxDeaths /\ stop = "no"
  /\ deaths' = deaths + 1
  /\ OwnerCancelled /\ UNCHANGED <<stop, gathering>>
-----------------------------------------------------------------------------
(* stop().                                                                 *)

StopBegins ==
  /\ stop = "no"
  /\ IF OwnerAlive
     THEN /\ stop' = "joining" /\ queue' = Append(queue, AdapterRequest("close", Nobody, 0))
          /\ UNCHANGED <<stack, session>>
     ELSE stop' = "done" /\ stack' = 0 /\ session' = 0 /\ UNCHANGED queue
  /\ UNCHANGED <<generation, dirty, live, owner, current, failures, deaths, attempted, startLock,
                 flights, caller, warm, gathering>>

(* The bounded join gives up on what the owner is at and cancels it; after *)
(* a close that failed, the owner waits for requests nobody will queue.    *)
StopTimesOut ==
  /\ stop = "joining" /\ (owner.step = "idle" => queue = <<>>)
  /\ OwnerCancelled /\ UNCHANGED <<deaths, stop, gathering>>

OwnerJoined ==
  /\ stop = "joining" /\ owner.step = "dead"
  /\ stop' = "gathering" /\ gathering' = {g \in Gens : flights[g] # "none"}
  /\ stack' = 0 /\ session' = 0
  /\ UNCHANGED <<generation, dirty, live, owner, queue, current, failures, deaths, attempted, startLock,
                 flights, caller, warm>>

FlightsGathered ==
  /\ stop = "gathering" /\ gathering = {}
  /\ stop' = "done"
  /\ UNCHANGED <<sessionVars, ownerVars, attempted, startLock, flights, caller, warm, gathering>>
-----------------------------------------------------------------------------
CallerStep(c) ==
  \/ StartReturns(c) \/ HealReturns(c) \/ RpcEnds(c) \/ RejoinReturns(c)

ContextsChanged == CloseEnds \/ CloseFails \/ StartSucceeds \/ StartFails

FlightStep(g) == FlightRuns(g) \/ FlightEnds(g)

StopStep == StopTimesOut \/ OwnerJoined \/ FlightsGathered

(* The event loop gets to the tasks that a result or a freed start lock    *)
(* has made ready before the transport's contexts are next entered, exited *)
(* or cancelled: those take round trips.                                   *)
Ready ==
  \/ \E c \in Callers : caller[c].result # "none" \/ (caller[c].step = "queued" /\ startLock = Nobody)
  \/ \E g \in Gens : flights[g] \in {"new", "ok", "failed"}
  \/ owner.step = "idle" /\ queue # <<>>

OwnerStep ==
  \/ SkipRequest \/ StartNeedless \/ BeginStart \/ BeginClose \/ CloseNothing
  \/ ~Ready /\ ContextsChanged

AdapterNext ==
  \/ \E c \in Callers : \/ CallDirty(c) \/ CallReady(c) \/ CallCold(c) \/ TakeLock(c) \/ CallerStep(c)
                        \/ RpcBreaks(c) \/ RetryBreaks(c) \/ CancelCaller(c)
  \/ \E g \in Gens : FlightStep(g)
  \/ WarmUp \/ OwnerStep \/ StopBegins \/ StopStep
  \/ ~Ready /\ OwnerKilled

AdapterSpec == AdapterInit /\ [][AdapterNext]_adapterVars

(* The event loop runs what is ready, RPCs and context changes end, the    *)
(* bounded join times out, and an asyncio.Lock serves its waiters in turn. *)
AdapterFairSpec ==
  /\ AdapterSpec /\ WF_adapterVars(OwnerStep) /\ WF_adapterVars(StopStep)
  /\ \A g \in Gens : WF_adapterVars(FlightStep(g))
  /\ \A c \in Callers : WF_adapterVars(CallerStep(c)) /\ SF_adapterVars(TakeLock(c))
-----------------------------------------------------------------------------
(* No child leaks: the contexts a live owner has entered are the current   *)
(* ones, there is one set of them at most, and it exits no other task's.   *)
NoChildLeaks ==
  /\ OwnerAlive => live[owner.id] = IF stack = owner.id THEN 1 ELSE 0
  /\ OwnerAlive => stack \in {0, owner.id}
  /\ session # 0 => stack # 0

(* A session is torn down only when it is dirty, or by stop() or the       *)
(* replacement of a dead owner: a reconnect for an older generation never  *)
(* cuts the sibling RPCs of a healthy one.                                 *)
HealthySessionKept ==
  [][session # 0 /\ session' = 0 => dirty = session \/ Stopped \/ ~OwnerAlive]_adapterVars

(* A dirty mark names the published generation or one whose replacement    *)
(* failed, never a healthy successor's predecessor.                        *)
DirtyIsCurrent == dirty # 0 => dirty = generation

(* Surfacing is switched off for good only by a start that failed, never   *)
(* by a caller's timeout.                                                  *)
OffOnlyOnFailure ==
  attempted /\ startLock = Nobody /\ session = 0 /\ dirty = 0 => failures > 0 \/ deaths > 0 \/ Stopped

(* After stop() nothing a live task could have closed stays open.          *)
StoppedIsClosed ==
  stop = "done" /\ deaths = 0 => \A o \in Owners : live[o] = 0

(* No caller waits for ever on a request or a flight.                      *)
CallersResume == \A c \in Callers :
  caller[c].step \in {"queued", "starting", "healing", "rejoining"}
    ~> caller[c].step \notin {"queued", "starting", "healing", "rejoining"}

StopReturns == stop = "joining" ~> stop = "done"

(* The invariants of the adapter together.                                 *)
AdapterIsSound ==
  AdapterTypeOK /\ NoChildLeaks /\ DirtyIsCurrent /\ OffOnlyOnFailure /\ StoppedIsClosed

(* Whoever waits on the adapter is answered: callers and stop().           *)
AdapterAnswers == CallersResume /\ StopReturns
=============================================================================
