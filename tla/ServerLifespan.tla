---------------------------- MODULE ServerLifespan ----------------------------
(***************************************************************************)
(* The life of the MCP server's process: what server.py's app_lifespan     *)
(* opens and closes, the signals of utils/signal_shutdown.py, the watchdog *)
(* of utils/teardown_watchdog.py and the watcher of                        *)
(* utils/parent_liveness.py that may take a silent client for gone.        *)
(*                                                                         *)
(* Until the first await, in manager.start(), nothing interleaves: the     *)
(* initial states are those of that await, or of a teardown entered        *)
(* because opening raised.  The five stores open and close alike and are   *)
(* one resource.  Time is counted in the watcher's polls.                  *)
(***************************************************************************)
EXTENDS Naturals, Sequences, FiniteSets

CONSTANTS
  Grace,        \* parent_liveness_grace_seconds, in polls
  Always,       \* bound: resources no instance is without
  MaxFrames,    \* bound: frames of the client
  MaxMisreads   \* bound: samples that miss a parent which is there

ASSUME LifespanAssumption ==
  Grace \in Nat /\ MaxFrames \in Nat /\ MaxMisreads \in Nat

VARIABLES
  stage,      \* "starting", "serving", "teardown" or "over"
  opened,     \* what the lifespan has opened
  attempted,  \* what its teardown has tried to close
  step,       \* the teardown's step
  stuck,      \* a step that never returns: "no", "awaits", or "blocks" the loop
  cut,        \* whether a CancelledError has skipped the rest of the teardown
  swept,      \* whether leaked children have been looked for
  exit,       \* how the process ended, "running" while it has not
  threads,    \* whether the watchdog's thread can be started
  watchdog,   \* "off", "armed", "firing" or "disarmed"
  signalled,  \* _signalled
  tearing,    \* _tearing_down
  landing,    \* whether a cancellation has still to be delivered
  parent,     \* "here", "gone", or "never" there (_born_orphaned)
  watch,      \* whether the watcher's task runs
  confirmed,  \* confirmations
  missing,    \* whether the last sample missed the parent
  quiet,      \* polls since _last_activity, as far as Grace
  inFlight,   \* _in_flight
  frames,     \* frames so far
  misreads    \* misread samples so far

closeVars == <<opened, attempted, step, stuck, cut, swept>>
signalVars == <<signalled, tearing, landing>>
watcherVars == <<parent, watch, confirmed, missing, quiet, inFlight, frames, misreads>>
lifespanVars == <<stage, closeVars, exit, threads, watchdog, signalVars, watcherVars>>

(* A bug: the adapter is stopped with what is still fed by it.             *)
StepsAdapterFirst ==
  <<"tools", "manager", "adapter", "engine", "feedback", "stores", "watcher", "warmup", "export",
    "sweep">>

Steps == <<"tools", "manager", "engine", "feedback", "stores", "watcher", "warmup", "adapter",
           "export", "sweep">>
Resources == {Steps[i] : i \in 1..(Len(Steps) - 1)}

Awaits == {"manager", "engine", "feedback", "watcher", "warmup", "adapter"}
Bounded == {"manager", "engine", "watcher", "warmup"}   \* await_or_warn
CatchesCancel == {"watcher", "warmup"}

(* Opening the surfacing path: each part may be off or fail, and an engine *)
(* without its adapter is never built.                                     *)
SurfacingOpens(got) ==
  /\ got \cap {"feedback", "engine"} # {} => "adapter" \in got
  /\ "warmup" \in got => "engine" \in got

(* What has been opened by the first await.                                *)
OpenedBefore(got) ==
  SurfacingOpens(got) /\ "manager" \in got /\ ("adapter" \in got => "engine" \in got)

(* Only the engine's constructor, the exporter and the manager's           *)
(* constructor raise.                                                      *)
RaisedAt(got) ==
  /\ SurfacingOpens(got) /\ "manager" \notin got
  /\ "export" \in got => ("adapter" \in got => "engine" \in got)

Armed(dog) == IF dog = "off" /\ threads THEN "armed" ELSE dog

LifespanInit ==
  /\ threads \in BOOLEAN /\ parent \in {"here", "never"}
  /\ opened \in SUBSET (Resources \ {"tools"})
  /\ \/ stage = "starting" /\ OpenedBefore(opened) /\ Always \subseteq opened
        /\ tearing = FALSE /\ watchdog = "off"
     \/ stage = "teardown" /\ RaisedAt(opened) /\ tearing = TRUE
        /\ watchdog = IF threads THEN "armed" ELSE "off"
  /\ watch = IF "watcher" \in opened THEN "on" ELSE "off"
  /\ attempted = {} /\ step = 1 /\ stuck = "no" /\ cut = FALSE /\ swept = FALSE
  /\ exit = "running" /\ signalled = FALSE /\ landing = FALSE
  /\ confirmed = 0 /\ missing = FALSE /\ quiet = 0 /\ inFlight = 0
  /\ frames = 0 /\ misreads = 0

(* The loop runs other callbacks: between the steps that do not await, and *)
(* in a step that blocks it, it does not.                                  *)
LoopRuns ==
  /\ exit = "running"
  /\ \/ stage \in {"starting", "serving"}
     \/ stage = "teardown" /\ Steps[step] \in Awaits /\ stuck # "blocks"

(* The `finally` of the lifespan: the watchdog first, then the signals.    *)
(* What no step reads any more is reset.                                   *)
EnterTeardown ==
  /\ stage' = "teardown" /\ step' = 1
  /\ watchdog' = Armed(watchdog) /\ tearing' = TRUE
  /\ inFlight' = 0 /\ frames' = 0

Unwatched == watch' = "off" /\ confirmed' = 0 /\ missing' = FALSE /\ quiet' = 0

StartEnds ==
  /\ stage = "starting" /\ exit = "running" /\ ~landing
  /\ stage' = "serving" /\ opened' = opened \cup {"tools"}
  /\ UNCHANGED <<attempted, step, stuck, cut, swept, exit, threads, watchdog, signalVars,
                 watcherVars>>

StartFails ==
  /\ stage = "starting" /\ exit = "running" /\ EnterTeardown
  /\ UNCHANGED <<opened, attempted, stuck, cut, swept, exit, threads, signalled, landing, parent,
                 watch, confirmed, missing, quiet, misreads>>

(* The client closes its end, or the session fails.                        *)
ServingEnds ==
  /\ stage = "serving" /\ exit = "running" /\ EnterTeardown
  /\ UNCHANGED <<opened, attempted, stuck, cut, swept, exit, threads, signalled, landing,
                 parent, watch, confirmed, missing, quiet, misreads>>

(* The cancellation reaches the lifespan; a cancel scope may deliver it    *)
(* again at a later await.                                                 *)
CancelLands ==
  /\ landing /\ stage \in {"starting", "serving"} /\ exit = "running" /\ EnterTeardown
  /\ landing' \in BOOLEAN
  /\ UNCHANGED <<opened, attempted, stuck, cut, swept, exit, threads, signalled,
                 parent, watch, confirmed, missing, quiet, misreads>>

(* A connection that is cancelled counts as failed, and start() goes on.   *)
CancelAbsorbed ==
  /\ landing /\ stage = "starting" /\ exit = "running" /\ landing' = FALSE
  /\ UNCHANGED <<stage, closeVars, exit, threads, watchdog, signalled, tearing, watcherVars>>
-----------------------------------------------------------------------------
(* The teardown's steps.                                                   *)
Tearing(s) == stage = "teardown" /\ exit = "running" /\ Steps[step] = s

(* A step is over: done, failed and logged, or given up at its ceiling.    *)
StepEnds ==
  /\ stage = "teardown" /\ exit = "running" /\ Steps[step] # "sweep"
  /\ stuck = "no" \/ (stuck = "awaits" /\ Steps[step] \in Bounded)
  /\ attempted' = attempted \cup ({Steps[step]} \cap opened)
  /\ step' = step + 1 /\ stuck' = "no"
  /\ IF Steps[step] = "watcher" THEN Unwatched ELSE UNCHANGED <<watch, confirmed, missing, quiet>>
  /\ UNCHANGED <<stage, opened, cut, swept, exit, threads, watchdog, signalVars, parent, inFlight,
                 frames, misreads>>

(* A step hangs: a ceiling ends the ones that take a cancellation.         *)
StepHangs ==
  /\ stage = "teardown" /\ exit = "running" /\ stuck = "no"
  /\ Steps[step] \in opened \ {"tools"}
  /\ stuck' \in {"awaits", "blocks", "deaf"}
  /\ stuck' # "blocks" => Steps[step] \in Awaits
  /\ UNCHANGED <<stage, opened, attempted, step, cut, swept, exit, threads, watchdog, signalVars,
                 watcherVars>>

(* `except Exception` lets a CancelledError out of the step.               *)
CutShort ==
  /\ landing /\ stage = "teardown" /\ exit = "running" /\ stuck \in {"no", "awaits"}
  /\ Steps[step] \in (Awaits \ CatchesCancel) \cap opened
  /\ attempted' = attempted \cup {Steps[step]}
  /\ step' = Len(Steps) /\ stuck' = "no" /\ cut' = TRUE
  /\ UNCHANGED <<stage, opened, swept, exit, threads, watchdog, signalVars, watcherVars>>

(* exit_after_signal_shutdown(): the status is 0, for app_lifespan says    *)
(* teardown_completed() in its innermost `finally`, also when it was cut.  *)
SignalledStatus == "zero"

(* The sweep, teardown_completed(), disarm(), and the exit of a process    *)
(* that was told to go; another one returns from main.                     *)
Finish ==
  /\ Tearing("sweep")
  /\ swept' = TRUE /\ stage' = "over"
  /\ watchdog' = IF watchdog = "firing" THEN watchdog ELSE "disarmed"
  /\ exit' = IF signalled THEN SignalledStatus ELSE "returned"
  /\ UNCHANGED <<opened, attempted, step, stuck, cut, threads, signalVars, watcherVars>>
-----------------------------------------------------------------------------
(* _wait_and_fire() and _fire(): the budget is over, and the process goes, *)
(* whatever has become of the teardown since.                              *)
TimesOut ==
  /\ watchdog = "armed" /\ exit = "running" /\ watchdog' = "firing"
  /\ UNCHANGED <<stage, closeVars, exit, threads, signalVars, watcherVars>>

Fires ==
  /\ watchdog = "firing" /\ exit \in {"running", "returned"}
  /\ exit' = "fired" /\ swept' \in {TRUE, swept}
  /\ UNCHANGED <<stage, opened, attempted, step, stuck, cut, threads, watchdog, signalVars,
                 watcherVars>>

(* A bug: the watchdog waits for the teardown.                             *)
BeginUnguarded ==
  /\ signalled' = TRUE /\ UNCHANGED watchdog /\ landing' = TRUE

(* _begin_shutdown(): the lifespan's own task is not cancelled, the tasks  *)
(* started since are, the watcher's among them.                            *)
BeginShutdown ==
  /\ signalled' = TRUE /\ watchdog' = Armed(watchdog) /\ landing' = TRUE

(* _on_signal(), as an operator would: a second one ends it.               *)
FirstSignal ==
  /\ LoopRuns /\ ~signalled /\ ~tearing /\ BeginShutdown /\ Unwatched
  /\ UNCHANGED <<stage, closeVars, exit, threads, tearing, parent, inFlight, frames, misreads>>

SecondSignal ==
  /\ LoopRuns /\ (signalled \/ tearing)
  /\ swept' = TRUE /\ exit' = "signal"
  /\ UNCHANGED <<stage, opened, attempted, step, stuck, cut, threads, watchdog, signalVars,
                 watcherVars>>
-----------------------------------------------------------------------------
(* The middleware: a frame holds the veto while it is served.              *)
FrameArrives ==
  /\ stage = "serving" /\ exit = "running" /\ frames < MaxFrames
  /\ frames' = frames + 1 /\ inFlight' = inFlight + 1 /\ quiet' = 0
  /\ UNCHANGED <<stage, closeVars, exit, threads, watchdog, signalVars, parent, watch,
                 confirmed, missing, misreads>>

FrameServed ==
  /\ stage = "serving" /\ exit = "running" /\ inFlight > 0
  /\ inFlight' = inFlight - 1 /\ quiet' = 0
  /\ UNCHANGED <<stage, closeVars, exit, threads, watchdog, signalVars, parent, watch,
                 confirmed, missing, frames, misreads>>

ParentGoes ==
  /\ parent = "here" /\ exit = "running" /\ parent' = "gone"
  /\ UNCHANGED <<stage, closeVars, exit, threads, watchdog, signalVars, watch, confirmed,
                 missing, quiet, inFlight, frames, misreads>>

(* A bug: it cancels a teardown that is under way.                         *)
TriggeredAgain ==
  IF signalled
  THEN UNCHANGED <<signalled, watchdog, landing>>
  ELSE BeginShutdown

(* trigger(): inert once a shutdown has begun.                             *)
Triggered ==
  IF signalled \/ tearing
  THEN UNCHANGED <<signalled, watchdog, landing>>
  ELSE BeginShutdown

Confirmations(missed) == IF missed THEN IF confirmed < 2 THEN confirmed + 1 ELSE 2 ELSE 0

(* One round of run().                                                     *)
Poll ==
  /\ watch = "on" /\ LoopRuns
  /\ \E misread \in BOOLEAN :
       LET missed == parent # "here" \/ misread IN
       /\ misread => parent = "here" /\ misreads < MaxMisreads
       /\ misreads' = IF misread THEN misreads + 1 ELSE misreads
       /\ missing' = missed
       /\ confirmed' = Confirmations(missed)
       /\ quiet' = IF quiet < Grace THEN quiet + 1 ELSE Grace
       /\ IF confirmed' = 2 /\ missed /\ inFlight = 0 /\ quiet' = Grace
          THEN watch' = "off" /\ Triggered
          ELSE UNCHANGED <<watch, signalled, watchdog, landing>>
  /\ UNCHANGED <<stage, closeVars, exit, threads, tearing, parent, inFlight, frames>>

LifespanNext ==
  \/ StartEnds \/ StartFails \/ ServingEnds \/ CancelLands \/ CancelAbsorbed
  \/ StepEnds \/ StepHangs \/ CutShort \/ Finish \/ TimesOut \/ Fires
  \/ FirstSignal \/ SecondSignal \/ FrameArrives \/ FrameServed \/ ParentGoes \/ Poll

LifespanSpec == LifespanInit /\ [][LifespanNext]_lifespanVars

(* The watchdog's thread and the watcher's task are scheduled; a step of   *)
(* the teardown may never return, and a cancellation may never land.       *)
LifespanFairSpec ==
  /\ LifespanSpec /\ WF_lifespanVars(TimesOut) /\ WF_lifespanVars(Fires) /\ WF_lifespanVars(Poll)
-----------------------------------------------------------------------------
(* Who uses what: a resource is closed behind everything that uses it.     *)
Uses == {<<"tools", "manager">>, <<"manager", "engine">>, <<"manager", "stores">>,
         <<"engine", "feedback">>, <<"engine", "adapter">>, <<"warmup", "adapter">>}

(* A teardown closes a resource after its users, misses none unless it is  *)
(* cut short, and however the process ends by itself, but for the          *)
(* watchdog, leaked children have been looked for (app_lifespan).          *)
LifespanIsSound ==
  /\ \A u \in Uses : u[2] \in attempted /\ u[1] \in opened => u[1] \in attempted
  /\ stage = "over" /\ ~cut => opened \subseteq attempted
  /\ exit \notin {"running", "fired"} => swept

(* No shutdown begins in a teardown, which its cancellation would cut      *)
(* short, and the watcher takes the client for gone only with no request   *)
(* in flight, no frame for the grace, and two samples in a row without the *)
(* parent (ShutdownSignals.trigger, ParentLivenessWatcher.run).            *)
ShutdownIsCalledFor ==
  [][signalled' # signalled =>
       /\ stage # "teardown"
       /\ Poll => inFlight = 0 /\ quiet' = Grace /\ missing /\ missing']_lifespanVars

(* A process that was told to go does go, whatever of its teardown hangs,  *)
(* if the watchdog's thread could start; and a parent that has gone is     *)
(* noticed unless a request is in flight (arm, _fire, run).                *)
ShutdownEnds ==
  /\ (threads /\ signalled) ~> exit # "running"
  /\ (watch = "on" /\ parent = "gone" /\ stage = "serving")
       ~> (watch = "off" \/ inFlight > 0 \/ exit # "running" \/ stage # "serving")
=============================================================================
