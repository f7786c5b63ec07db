-------------------------------- MODULE Stores --------------------------------
(***************************************************************************)
(* What the server keeps in files beside the response cache, side by side: *)
(* the worker that writes the feedback store, the ratings' effects, the    *)
(* scores they tune, the call metrics and the selection log.  They share   *)
(* no variable, so a behaviour moves one of them and leaves the others as  *)
(* they began.                                                             *)
(***************************************************************************)
EXTENDS StoreWorker, FeedbackTuning, FeedbackEffects, MetricsFile, SelectionLog

VARIABLE part

storeVars == <<part, workerVars, tuningVars, effectsVars, metricsVars, logVars>>

StoresInit == /\ part \in {"worker", "tuning", "effects", "metrics", "log"}
              /\ WorkerInit /\ TuningInit /\ EffectsInit /\ MetricsInit /\ LogInit

InWorker(A) == part = "worker" /\ A
                 /\ UNCHANGED <<part, tuningVars, effectsVars, metricsVars, logVars>>

TuningMoves == part = "tuning" /\ TuningNext
                 /\ UNCHANGED <<part, workerVars, effectsVars, metricsVars, logVars>>

EffectsMove == part = "effects" /\ EffectsNext
                 /\ UNCHANGED <<part, workerVars, tuningVars, metricsVars, logVars>>

MetricsMove == part = "metrics" /\ MetricsNext
                 /\ UNCHANGED <<part, workerVars, tuningVars, effectsVars, logVars>>

LogMoves == part = "log" /\ LogNext
              /\ UNCHANGED <<part, workerVars, tuningVars, effectsVars, metricsVars>>

StoresNext == InWorker(WorkerNext) \/ TuningMoves \/ EffectsMove \/ MetricsMove \/ LogMoves

(* The fairness of StoreWorker, whose teardown is the only liveness here.  *)
StoresSpec ==
  /\ StoresInit /\ [][StoresNext]_storeVars
  /\ WF_storeVars(InWorker(WorkerStarts)) /\ WF_storeVars(InWorker(\E ok \in BOOLEAN : JobEnds(ok)))
  /\ WF_storeVars(InWorker(DrainTimesOut)) /\ WF_storeVars(InWorker(CloseStore))
  /\ WF_storeVars(InWorker(CloseReturns)) /\ WF_storeVars(InWorker(CloseTimesOut))
  /\ WF_storeVars(InWorker(ThreadCloses))
-----------------------------------------------------------------------------
(* Ratings do what they promise, here and in the scores: the invariants of *)
(* the effects and of the tuning.                                          *)
RatingsAreSound == RatingsTakeEffect /\ TuningIsSound

(* What the processes that share a file recorded there is what it says:    *)
(* the invariants of the metrics and of the selection log.                 *)
RecordsAreKept == MetricsAreSound /\ LogIsTruthful
=============================================================================
