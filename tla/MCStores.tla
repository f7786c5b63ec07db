------------------------------ MODULE MCStores ------------------------------
(***************************************************************************)
(* What the server keeps in files beside the response cache, side by side: *)
(* the worker that writes the feedback store, the ratings' effects, the    *)
(* scores they tune, the call metrics and the selection log.  A behaviour  *)
(* moves one and leaves the others as they began.                          *)
(***************************************************************************)
EXTENDS Stores, TLC

CONSTANTS a, b, t1, t2,     \* servers and tools
          e1, e2, m1, m2,   \* events and memories
          w1, w2            \* the writers of the selection log

\* Both fix the score of t2, whose ratings are still among all ratings; the bands differ.
PinnedTools == a :> {t2} @@ b :> {t2}
Floors == a :> 0 @@ b :> 2
Ceilings == a :> 4 @@ b :> 3
RatingsOf == t1 :> {"negative", "helpful"} @@ t2 :> {"offscale"}

\* m2 is in one event only. A rating of one memory, of an event, and a batch.
EventMemories == e1 :> {m1, m2} @@ e2 :> {m1}
EventTools == e1 :> t1 @@ e2 :> t2
Rated(m, k) == [memory |-> m, rating |-> k]
RatingForms == {{Rated(m1, "negative")}, {Rated(Every, "negative")}, {Rated(m1, "helpful")},
                {Rated(Every, "helpful")}, {Rated(m1, "negative"), Rated(m2, "helpful")}}

\* One writer of the log keeps backups, the other none.
BackupsOf == w1 :> 2 @@ w2 :> 0
==============================================================================
