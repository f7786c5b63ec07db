---------------------------- MODULE MCSurfacing ----------------------------
(***************************************************************************)
(* The surfacing engine and the keyed locks its calls wait in, side by     *)
(* side: a behaviour moves one and leaves the other as it began. (The      *)
(* engine's module has the locks as the mutex they implement.)             *)
(***************************************************************************)
EXTENDS SurfacingEngine, KeyedLocks

CONSTANTS c1, q1   \* a call and the query it asks

VARIABLE part

everything == <<part, vars, lockVars>>

\* The queries are interchangeable: one call asks q1, the others any query.
SurfacingInit ==
  /\ part \in {"engine", "locks"} /\ EngineInit /\ LocksInit
  /\ call[c1].query = q1

InEngine(A) == part = "engine" /\ A /\ UNCHANGED <<part, lockVars>>
InLocks(A) == part = "locks" /\ A /\ UNCHANGED <<part, vars>>

SurfacingSpec == SurfacingInit /\ [][InEngine(Next) \/ InLocks(LocksNext)]_everything

SurfacingFairSpec ==
  /\ SurfacingSpec
  /\ \A c \in Calls : /\ WF_everything(InEngine(CallStep(c)))
                      /\ WF_everything(InEngine(OpStep(c)))
                      /\ WF_everything(InEngine(Fire(c)))
  /\ WF_everything(InEngine(BreakerTick))
  /\ \A t \in Tasks : WF_everything(InLocks(Resume(t) \/ ResumeCancelled(t) \/ Exit(t)))
-----------------------------------------------------------------------------
(* Every surfacing call is answered and every waiter of a lock gets in:    *)
(* the liveness of the engine and of the keyed locks.                      *)
NobodyIsKeptWaiting == EngineAnswers /\ WaitersEnter
=============================================================================
