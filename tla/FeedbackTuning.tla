--------------------------- MODULE FeedbackTuning ---------------------------
(***************************************************************************)
(* The tuning of each tool's min_score from the ratings of its memories:   *)
(* AutoTuner of surfacing/feedback.py, called by every surfacing search    *)
(* that finds something, over the tables of surfacing/feedback_store.py.   *)
(* The servers of several hosts share the file; each keeps its own scores  *)
(* in memory, reads the saved ones when it starts and saves each step.  An *)
(* adjustment runs on the one write thread of its server, and the other    *)
(* servers write between any two of its statements.                        *)
(*                                                                         *)
(* Scores are whole steps.  A ratio that one read finds for the tool, and  *)
(* for all tools when the tool has too few samples, is one read.  A server *)
(* counts the ratings of the tools it is asked about; a rating of a search *)
(* on another score scale counts, but is in no ratio.                      *)
(***************************************************************************)
EXTENDS Integers, FiniteSets, FiniteSetsExt

CONSTANTS
  Servers,      \* the processes that share the file
  RatedTools,
  Pinned,       \* per server: the tools whose min_score its configuration fixes
  Base,         \* min_score
  Floor,        \* per server: auto_tune_score_floor
  Ceiling,      \* per server: auto_tune_score_ceiling
  Attainable,   \* the ceilings of the batches a search finds
  MinSamples,   \* auto_tune_min_samples
  RatingsMade,  \* the kinds of rating made of each tool's memories
  MaxChanges,   \* bounds the ratings made and the ratings deleted
  MaxStarts,    \* bounds the starts of the servers
  Unset         \* no score of its own

ASSUME TuningAssumption ==
  /\ IsFiniteSet(RatedTools) /\ MaxChanges \in Nat /\ Unset \notin Nat \X Nat
  /\ Base \in Nat /\ MinSamples \in Nat \ {0} /\ Attainable \subseteq Nat
  /\ \A t \in RatedTools : RatingsMade[t] \subseteq {"negative", "helpful", "neutral", "offscale"}
  /\ \A s \in Servers : /\ Pinned[s] \subseteq RatedTools
                        /\ Floor[s] \in 0..Base /\ Ceiling[s] \in Nat /\ Ceiling[s] >= Base

VARIABLES
  ratings,  \* surfacing_feedback: per tool, how many of each kind
  saved,    \* auto_tune_adjustments
  tuner,    \* per server: its AutoTuner
  tuning,   \* per server: the adjustment on its write thread
  everRated, \* the kinds of rating ever made, the deleted ones included
  changes,  \* how often the ratings have changed
  starts    \* how often a server has started

tuningVars == <<ratings, saved, tuner, tuning, everRated, changes, starts>>

RatingKinds == {"negative", "helpful", "neutral", "offscale"}
NotTuning == [at |-> "none"]

\* History. seen: the changes when the server started; moves: the steps made since;
\* since: the changes when the first count of the mark was read; torn: the changes
\* that landed between the two counts of a mark.
NoScores == [t \in RatedTools |-> Unset]
Zero == [t \in RatedTools |-> 0]
Down == [at |-> "down", score |-> NoScores, mark |-> NoScores,
         seen |-> 0, moves |-> Zero, since |-> Zero, torn |-> Zero]

TuningInit ==
  /\ ratings = [t \in RatedTools |-> [k \in RatingKinds |-> 0]]
  /\ saved = [t \in RatedTools |-> Unset]
  /\ tuner = [s \in Servers |-> Down]
  /\ tuning = [s \in Servers |-> NotTuning]
  /\ everRated = {} /\ changes = 0 /\ starts = 0
-----------------------------------------------------------------------------
(* The store.                                                              *)

(* The ratings of some kinds of some tools, which have at most MaxChanges  *)
(* of each.                                                                *)
CountIn(kinds, tools) ==
  Cardinality({row \in tools \X kinds \X (1..MaxChanges) : row[3] <= ratings[row[1]][row[2]]})

(* get_feedback_count.                                                     *)
FeedbackCount(tools) == CountIn(RatingKinds, tools)

Scaled == RatingKinds \ {"offscale"}

(* _get_tool_rating_ratio, of the tool or else of all: more than num in    *)
(* den of the samples are of the kind. Too few samples answer nothing.     *)
Sampled(tools) == CountIn(Scaled, tools) >= MinSamples
Evidence(t) == IF Sampled({t}) THEN {t} ELSE RatedTools
Over(t, kind, num, den) ==
  Sampled(Evidence(t)) /\ CountIn({kind}, Evidence(t)) * den > CountIn(Scaled, Evidence(t)) * num

Rate(t, k) ==
  /\ changes < MaxChanges /\ k \in RatingsMade[t]
  /\ ratings' = [ratings EXCEPT ![t][k] = @ + 1]
  /\ everRated' = everRated \cup {k} /\ changes' = changes + 1
  /\ UNCHANGED <<saved, tuner, tuning, starts>>

(* delete_events_older_than.                                               *)
Expire(t, k) ==
  /\ changes < MaxChanges /\ ratings[t][k] > 0
  /\ ratings' = [ratings EXCEPT ![t][k] = @ - 1]
  /\ changes' = changes + 1
  /\ UNCHANGED <<saved, tuner, tuning, everRated, starts>>
-----------------------------------------------------------------------------
(* A server's tuner.                                                       *)

Clamp(s, score) == Max({Floor[s], Min({Ceiling[s], score})})

OutOfBand(s) == {t \in RatedTools : tuner[s].score[t] # Unset
                                 /\ tuner[s].score[t] # Clamp(s, tuner[s].score[t])}

(* load_adjustments, and without the pinned tools, whose rows stay.        *)
Start(s) ==
  /\ tuner[s].at = "down" /\ starts < MaxStarts
  /\ tuner' = [tuner EXCEPT ![s] =
       [Down EXCEPT !.at = "starting", !.seen = changes, !.since = [t \in RatedTools |-> changes],
                    !.score = [t \in RatedTools |-> IF t \in Pinned[s] THEN Unset ELSE saved[t]]]]
  /\ starts' = starts + 1
  /\ UNCHANGED <<ratings, saved, tuning, everRated, changes>>

(* A score of another configuration is brought into the band and saved.    *)
ClampLoaded(s, t) ==
  /\ tuner[s].at = "starting" /\ t \in OutOfBand(s)
  /\ tuner' = [tuner EXCEPT ![s].score[t] = Clamp(s, @)]
  /\ saved' = [saved EXCEPT ![t] = Clamp(s, tuner[s].score[t])]
  /\ UNCHANGED <<ratings, tuning, everRated, changes, starts>>

Serve(s) ==
  /\ tuner[s].at = "starting" /\ OutOfBand(s) = {}
  /\ tuner' = [tuner EXCEPT ![s].at = "up"]
  /\ UNCHANGED <<ratings, saved, tuning, everRated, changes, starts>>

ServerDies(s) ==
  /\ tuner[s].at # "down"
  /\ tuner' = [tuner EXCEPT ![s] = Down] /\ tuning' = [tuning EXCEPT ![s] = NotTuning]
  /\ UNCHANGED <<ratings, saved, everRated, changes, starts>>

EffectiveCeiling(s, c) == Min({Ceiling[s], Max({c, Base})})

Current(s, t) == IF tuner[s].score[t] = Unset THEN Base ELSE tuner[s].score[t]

(* _active_min_score, for a batch whose scores reach c at most.            *)
ActiveMinScore(s, t, c) ==
  IF t \in Pinned[s] THEN Base ELSE Min({Current(s, t), EffectiveCeiling(s, c)})

(* maybe_adjust begins with the ratings of the tool, in a read of its own. *)
CountTool(s, t, c) ==
  /\ tuner[s].at = "up" /\ tuning[s].at = "none" /\ t \notin Pinned[s]
  /\ tuning' = [tuning EXCEPT ![s] =
       [at |-> "counting", tool |-> t, cap |-> EffectiveCeiling(s, c),
        own |-> FeedbackCount({t}), since |-> changes]]
  /\ UNCHANGED <<ratings, saved, tuner, everRated, changes, starts>>

NewMark(s) == <<tuning[s].own, FeedbackCount(RatedTools)>>

(* The counts are kept before anything is decided from them.               *)
Marked(s) ==
  LET t == tuning[s].tool IN
  [tuner[s] EXCEPT !.mark[t] = NewMark(s), !.since[t] = tuning[s].since,
                   !.torn[t] = @ + changes - tuning[s].since]

(* Then all the ratings, which may have changed meanwhile: with the counts *)
(* of the last time there is nothing to do.                                *)
CountAll(s) ==
  /\ tuning[s].at = "counting"
  /\ IF tuner[s].mark[tuning[s].tool] = NewMark(s)
       THEN tuning' = [tuning EXCEPT ![s] = NotTuning] /\ UNCHANGED tuner
       ELSE /\ tuner' = [tuner EXCEPT ![s] = Marked(s)]
            /\ tuning' = [tuning EXCEPT ![s] = [at |-> "marked", tool |-> @.tool, cap |-> @.cap]]
  /\ UNCHANGED <<ratings, saved, everRated, changes, starts>>

(* A read fails: the search goes on with the score it had.                 *)
ReadFails(s) ==
  /\ tuning[s].at \in {"counting", "marked", "read"}
  /\ tuning' = [tuning EXCEPT ![s] = NotTuning]
  /\ UNCHANGED <<ratings, saved, tuner, everRated, changes, starts>>

ReadNegative(s) ==
  /\ tuning[s].at = "marked"
  /\ tuning' = [tuning EXCEPT ![s] = [at |-> "read", tool |-> @.tool, cap |-> @.cap,
                                      noisy |-> Over(@.tool, "negative", 6, 10)]]
  /\ UNCHANGED <<ratings, saved, tuner, everRated, changes, starts>>

Raised(s, t, cap) == Max({Current(s, t), Min({Current(s, t) + 1, cap})})

Lowered(s, t, cap) == Min({Current(s, t), Max({Min({Current(s, t), cap}) - 1, Floor[s]})})

Lowers(t) == Over(t, "helpful", 8, 10)

Adjusted(s) ==
  LET t == tuning[s].tool IN
  IF tuning[s].noisy THEN Raised(s, t, tuning[s].cap)
  ELSE IF Lowers(t) THEN Lowered(s, t, tuning[s].cap) ELSE Current(s, t)

(* The helpful ratings are read and the score moves, in memory first.      *)
Decide(s) ==
  /\ tuning[s].at = "read"
  /\ LET t == tuning[s].tool IN
     IF Adjusted(s) = Current(s, t)
       THEN tuning' = [tuning EXCEPT ![s] = NotTuning] /\ UNCHANGED tuner
       ELSE /\ tuner' = [tuner EXCEPT ![s].score[t] = Adjusted(s), ![s].moves[t] = @ + 1]
            /\ tuning' = [tuning EXCEPT ![s] = [at |-> "moved", tool |-> t]]
  /\ UNCHANGED <<ratings, saved, everRated, changes, starts>>

(* save_adjustment: a write that fails leaves the row as it was.           *)
Save(s, ok) ==
  /\ tuning[s].at = "moved"
  /\ saved' = IF ok THEN [saved EXCEPT ![tuning[s].tool] = Current(s, tuning[s].tool)] ELSE saved
  /\ tuning' = [tuning EXCEPT ![s] = NotTuning]
  /\ UNCHANGED <<ratings, tuner, everRated, changes, starts>>

TuningNext ==
  \/ \E t \in RatedTools, k \in RatingKinds : Rate(t, k) \/ Expire(t, k)
  \/ \E s \in Servers : \/ Start(s) \/ Serve(s) \/ ServerDies(s)
                        \/ CountAll(s) \/ ReadNegative(s) \/ ReadFails(s) \/ Decide(s)
                        \/ \E ok \in BOOLEAN : Save(s, ok)
                        \/ \E t \in RatedTools : \/ ClampLoaded(s, t)
                                            \/ \E c \in Attainable : CountTool(s, t, c)

TuningSpec == TuningInit /\ [][TuningNext]_tuningVars
-----------------------------------------------------------------------------
(* The scores a serving server uses are within its own band, whatever a    *)
(* server of another configuration saved, and a search whose scores reach  *)
(* min_score is never filtered above what its scores can reach.            *)
ScoresInBand ==
  \A s \in Servers, t \in RatedTools : tuner[s].at = "up" =>
    /\ Current(s, t) \in Floor[s]..Ceiling[s]
    /\ \A c \in Attainable : c >= Base => ActiveMinScore(s, t, c) <= c

(* A score leaves min_score only in the direction someone's ratings asked  *)
(* for: never above it while nobody has rated anything negatively, never   *)
(* below it while nobody has found anything helpful; in no server, however *)
(* they share the saved scores and restart.                                *)
MovesAreAskedFor ==
  \A s \in Servers, t \in RatedTools :
    /\ "negative" \notin everRated => Current(s, t) <= Base
    /\ "helpful" \notin everRated => Current(s, t) >= Base

(* A tool has moved at most once for what was there when its server        *)
(* started and once for each change since, and once more for each change   *)
(* that landed between the two counts of a mark: only such a change is     *)
(* seen as new by two adjustments.                                         *)
MovesAreEvidenced ==
  \A s \in Servers, t \in RatedTools : tuner[s].at = "up" =>
    tuner[s].moves[t] <= 1 + (changes - tuner[s].seen) + tuner[s].torn[t]

(* What the tuning of the scores keeps.                                    *)
TuningIsSound == ScoresInBand /\ MovesAreAskedFor /\ MovesAreEvidenced
=============================================================================
