-------------------------- MODULE FeedbackEffects --------------------------
(***************************************************************************)
(* What a rating of a surfaced memory does: handle_feedback and            *)
(* handle_feedback_batch of surfacing/engine.py.  The rows are written on  *)
(* the store's one write thread, in the order submitted, and a caller that *)
(* gives up leaves its write in the line.  A negative rating takes the     *)
(* memory out of the cached results of its tool, a helpful one has the LTM *)
(* count an access, once for an event.                                     *)
(*                                                                         *)
(* One server process.  A neutral rating does neither and is left out.     *)
(* The FIFO limits of 10000 claims and invalidations are not reached.      *)
(***************************************************************************)
EXTENDS Naturals, Sequences, FiniteSets

CONSTANTS
  Requests,    \* the calls of stm_surfacing_feedback, each made once
  Events,      \* the surfacing events
  Memories,
  Delivered,   \* per event: the memories it delivered
  ToolOf,      \* per event: the server and tool it was for
  Every,       \* a rating of the event as a whole: no memory id
  Forms,       \* the ratings a call may make: one, or a batch of memories' ratings
  Threshold,   \* feedback_demotion_negative_threshold
  LineLength   \* the writes the worker's queue holds

ASSUME EffectsAssumption ==
  /\ \A e \in Events : Delivered[e] \subseteq Memories
  /\ Forms \subseteq SUBSET [memory : Memories \cup {Every}, rating : {"negative", "helpful"}]
  /\ Every \notin Memories /\ Threshold \in Nat \ {0} /\ LineLength \in Nat \ {0}

VARIABLES
  events,    \* surfacing_events
  rows,      \* surfacing_feedback, each row with the call that wrote it
  request,   \* per call: its place, what it rates, what was recorded
  line,      \* the calls whose writes wait for the worker
  hidden,    \* _invalidated_ids
  claimed,   \* _boosted_event_ids
  counted,   \* the calls whose access the LTM has counted
  gaveBack   \* history: the calls that gave their claim back

effectsVars == <<events, rows, request, line, hidden, claimed, counted, gaveBack>>

\* excused: its write failed halfway, or the event could not be read to hide a memory.
Unasked == [at |-> "idle"]
Done(e, excused) == [at |-> "done", event |-> e, excused |-> excused]

EffectsInit ==
  /\ events = Events /\ rows = {} /\ line = <<>> /\ hidden = {}
  /\ claimed = {} /\ counted = {} /\ gaveBack = {}
  /\ request = [r \in Requests |-> Unasked]
-----------------------------------------------------------------------------
Named(e, entry) == IF entry.memory = Every THEN Delivered[e] ELSE {entry.memory}

(* What record_feedback accepts: an event that is there, a memory of it.   *)
Accepted(e, entries) ==
  {n \in entries : e \in events /\ (n.memory = Every \/ n.memory \in Delivered[e])}

(* The rows of the entries of a write that land.                           *)
Rows(job, landed) == {[by |-> job.by, event |-> job.event, memory |-> n.memory,
                       rating |-> n.rating] : n \in landed}

(* _invalidate_cache_for_feedback, of the negative ones among the entries. *)
HiddenBy(e, entries) ==
  {<<ToolOf[e], m>> : m \in UNION {Named(e, n) : n \in
                             {x \in Accepted(e, entries) : x.rating = "negative"}}}

Ask(r, e, entries) ==
  /\ request[r].at = "idle"
  /\ IF Len(line) < LineLength
       THEN /\ request' = [request EXCEPT ![r] =
                 [at |-> "waiting", event |-> e, entries |-> entries]]
            /\ line' = Append(line, [by |-> r, event |-> e, entries |-> entries])
       ELSE request' = [request EXCEPT ![r] = Done(e, FALSE)] /\ UNCHANGED line
  /\ UNCHANGED <<events, rows, hidden, claimed, counted, gaveBack>>

(* The worker writes a request's rows, one transaction each.               *)
WriteRows ==
  /\ line # <<>>
  /\ LET job == Head(line)
         accepted == Accepted(job.event, job.entries) IN
     /\ rows' = rows \cup Rows(job, accepted)
     /\ request' = IF request[job.by].at # "waiting" THEN request
                   ELSE [request EXCEPT ![job.by] = [at |-> "written", event |-> @.event,
                                                     entries |-> accepted]]
  /\ line' = Tail(line)
  /\ UNCHANGED <<events, hidden, claimed, counted, gaveBack>>

(* SQLite refuses one of them: the rows before it stay, and the error is   *)
(* the caller's, who does nothing more.                                    *)
RowsRefused ==
  /\ line # <<>>
  /\ LET job == Head(line) IN
     /\ \E landed \in SUBSET Accepted(job.event, job.entries) :
          /\ landed # job.entries
          /\ rows' = rows \cup Rows(job, landed)
     /\ request' = IF request[job.by].at # "waiting" THEN request
                   ELSE [request EXCEPT ![job.by] = Done(@.event, TRUE)]
  /\ line' = Tail(line)
  /\ UNCHANGED <<events, hidden, claimed, counted, gaveBack>>

(* What a call hides of the entries it rated down: those whose event it    *)
(* can read, which it looks up anew for each.                              *)
Hides(r, read) == hidden \cup HiddenBy(request[r].event, read)

Excused(r, read) == \E n \in request[r].entries \ read : n.rating = "negative"

(* A bug: a call that gives up leaves the cached results as they are.      *)
AbandonedQuietly(r, read) == hidden

(* A call that gives up hides what it rated down: its row may yet land.    *)
Abandoned(r, read) == Hides(r, read)

(* The budget runs out, or the caller is cancelled, before the answer.     *)
Abandon(r) ==
  /\ request[r].at \in {"waiting", "written"}
  /\ \E read \in SUBSET request[r].entries :
       /\ hidden' = Abandoned(r, read)
       /\ request' = [request EXCEPT ![r] = Done(@.event, Excused(r, read))]
  /\ UNCHANGED <<events, rows, line, claimed, counted, gaveBack>>

(* What is boosted: the memories rated helpful. The rating of a whole      *)
(* event boosts what the event's row names, if it is there and read.       *)
Boosted(r, read) ==
  UNION {IF n.memory = Every /\ (n \notin read \/ request[r].event \notin events) THEN {}
         ELSE Named(request[r].event, n) : n \in {x \in request[r].entries : x.rating = "helpful"}}

(* The event is claimed before the LTM is asked.                           *)
Claimed(r) == claimed \cup {request[r].event}

(* The rows are written: negative ratings hide, helpful ones boost unless  *)
(* the event was boosted before.                                           *)
Resume(r) ==
  /\ request[r].at = "written"
  /\ \E read \in SUBSET request[r].entries :
       /\ hidden' = Hides(r, read)
       /\ IF Boosted(r, read) # {} /\ request[r].event \notin claimed
            THEN /\ claimed' = Claimed(r)
                 /\ request' = [request EXCEPT ![r] =
                      [at |-> "boosting", event |-> @.event, excused |-> Excused(r, read)]]
            ELSE /\ request' = [request EXCEPT ![r] = Done(@.event, Excused(r, read))]
                 /\ UNCHANGED claimed
  /\ UNCHANGED <<events, rows, line, counted, gaveBack>>

(* The end of the call to the LTM, which may have counted the access       *)
(* whatever its caller was told.                                           *)
BoostReturns(r, happened) ==
  /\ request[r].at = "boosting"
  /\ request' = [request EXCEPT ![r] = Done(@.event, @.excused)]
  /\ counted' = IF happened THEN counted \cup {r} ELSE counted

(* The adapter answers, also when it has swallowed an error of the LTM, or *)
(* the call is cancelled: the claim stays.                                 *)
BoostEnds(r, happened) ==
  /\ BoostReturns(r, happened)
  /\ UNCHANGED <<events, rows, line, hidden, claimed, gaveBack>>

(* The LTM is late or cannot be started: the claim is given back, another  *)
(* helpful rating may try again.                                           *)
BoostFails(r, happened) ==
  /\ BoostReturns(r, happened)
  /\ claimed' = claimed \ {request[r].event} /\ gaveBack' = gaveBack \cup {r}
  /\ UNCHANGED <<events, rows, line, hidden>>

(* delete_events_older_than: an event goes with its ratings.               *)
EventExpires(e) ==
  /\ e \in events
  /\ events' = events \ {e} /\ rows' = {w \in rows : w.event # e}
  /\ UNCHANGED <<request, line, hidden, claimed, counted, gaveBack>>

EffectsNext ==
  \/ WriteRows \/ RowsRefused
  \/ \E e \in Events : EventExpires(e)
  \/ \E r \in Requests : \/ \E e \in Events, entries \in Forms : Ask(r, e, entries)
                         \/ Abandon(r) \/ Resume(r)
                         \/ \E happened \in BOOLEAN :
                              BoostEnds(r, happened) \/ BoostFails(r, happened)

EffectsSpec == EffectsInit /\ [][EffectsNext]_effectsVars
-----------------------------------------------------------------------------
(* get_negative_feedback_counts: the events that rated a memory down.      *)
DownVotes(m) ==
  {e \in Events : \E w \in rows : /\ w.event = e /\ w.rating = "negative"
                                  /\ m \in Named(e, w)}

Demoted == {m \in Memories : Cardinality(DownVotes(m)) >= Threshold}

(* What _render_cached leaves of the cached results of a tool.             *)
Renders(tool) == {m \in Memories : <<tool, m>> \notin hidden} \ Demoted

(* A memory rated down is not shown again out of the cache for that tool   *)
(* once the rating's call has ended, whether it was answered, timed out or *)
(* was cancelled with its row still to be written.                         *)
RatedDownStaysHidden ==
  \A w \in rows :
    (w.rating = "negative" /\ request[w.by].at = "done" /\ ~request[w.by].excused) =>
      Named(w.event, w) \cap Renders(ToolOf[w.event]) = {}

(* The calls that have boosted an event, or may be about to, and have not  *)
(* given their claim back.                                                 *)
Boosters(e) ==
  {r \in Requests \ gaveBack : /\ request[r].at = "boosting" \/ r \in counted
                              /\ request[r].event = e}

(* However many helpful ratings of an event run side by side, at most one  *)
(* call is counted by the LTM and keeps its claim, and no other boosts     *)
(* beside it or after it: an access is counted twice only when a boost     *)
(* that failed had been counted.                                           *)
CountedOnce == \A e \in Events : \A r, q \in Boosters(e) : r = q

(* What a rating promises the agent that gave it.                          *)
RatingsTakeEffect == RatedDownStaysHidden /\ CountedOnce
=============================================================================
