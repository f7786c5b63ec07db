--------------------------- MODULE RetiringExtractors ---------------------------
(***************************************************************************)
(* The fact extractors of ProxyManager (proxy/manager.py): a call that     *)
(* finds the configuration changed publishes a new one and retires the     *)
(* old, stop() retires the last, and whoever retired one makes a pass over *)
(* all that still have to be closed.  Passes overlap; what runs under the  *)
(* extractor lock runs without an await, so it is one action, as is the    *)
(* stretch of a pass between two closes.                                   *)
(***************************************************************************)
EXTENDS Integers, FiniteSets

CONSTANTS
  Extracting,       \* the tasks that ask for an extractor
  Stopper,       \* the task of stop()
  MaxExtractors, \* bound: the extractors that are built
  Nothing        \* no extractor

ASSUME ExtractorAssumption ==
  Stopper \notin Extracting /\ MaxExtractors \in Nat /\ Nothing \notin Nat

VARIABLES
  built,      \* how many extractors were built: their names are 1..built
  closed,     \* those whose close() succeeded
  extractor,  \* _extractor, or Nothing
  replaced,   \* _retiring_extractors
  inflight,   \* _retiring_inflight
  requested,  \* _retiring_retry_requested
  draining,   \* _background_closed
  pass,       \* per task: its pass over the retiring extractors
  skipped,    \* those a pass passed over and nobody has attempted since
  excused     \* those whose request no pass is left to honour, as documented

extractorVars == <<built, closed, extractor, replaced, inflight, requested, draining, pass,
                   skipped, excused>>

Extractors == 1..MaxExtractors
Passers == Extracting \cup {Stopper}

\* look: over its snapshot of the set; again: over the requests left
NoPass == [at |-> "none", todo |-> {}, retried |-> {}, closing |-> Nothing, owed |-> FALSE]
NewPass(todo) == [NoPass EXCEPT !.at = "look", !.todo = todo]

ExtractorInit ==
  /\ built = 0 /\ closed = {} /\ extractor = Nothing
  /\ replaced = {} /\ inflight = {} /\ requested = {}
  /\ draining = FALSE
  /\ pass = [p \in Passers |-> NoPass]
  /\ skipped = {} /\ excused = {}
-----------------------------------------------------------------------------
(* _get_extractor of a caller that finds a changed configuration, or none: *)
(* built before published, the old one retired under the lock.             *)
Publish(c) ==
  LET waiting == replaced \cup ({extractor} \ {Nothing}) IN
  /\ pass[c] = NoPass /\ ~draining /\ built < MaxExtractors
  /\ built' = built + 1 /\ extractor' = built + 1
  /\ replaced' = waiting
  /\ pass' = [pass EXCEPT ![c] = IF waiting = {} THEN NoPass ELSE NewPass(waiting)]
  /\ UNCHANGED <<closed, inflight, requested, draining, skipped, excused>>

(* stop(): from here on the slot belongs to the teardown.                  *)
StopBegins ==
  /\ ~draining /\ draining' = TRUE
  /\ UNCHANGED <<built, closed, extractor, replaced, inflight, requested, pass, skipped,
                 excused>>

Detach ==
  LET waiting == replaced \cup ({extractor} \ {Nothing}) IN
  /\ draining /\ pass[Stopper] = NoPass
  /\ extractor' = Nothing /\ replaced' = waiting
  /\ pass' = [pass EXCEPT ![Stopper] = NewPass(waiting)]
  /\ UNCHANGED <<built, closed, inflight, requested, draining, skipped, excused>>
-----------------------------------------------------------------------------
(* _close_retiring_extractors.                                             *)

(* _attempt_retiring_close up to its await: the claim, and the request the *)
(* attempt spends.                                                         *)
Attempt(p, r, rest) ==
  /\ inflight' = inflight \cup {r}
  /\ pass' = [pass EXCEPT ![p] = [rest EXCEPT !.closing = r, !.owed = r \in requested]]

(* A bug: an entry claimed by another pass is passed over in silence.      *)
RecordedNever(passedOver) == requested

RecordedSkips(passedOver) == requested \cup passedOver

(* The first loop comes to r, after it has passed over some of the entries *)
(* that others have claimed or closed.                                     *)
LookAt(p, r, before) ==
  LET over == before \cap inflight IN
  /\ pass[p].at = "look" /\ pass[p].closing = Nothing
  /\ r \in (pass[p].todo \cap replaced) \ inflight
  /\ before \subseteq pass[p].todo \ {r} /\ before \cap (replaced \ inflight) = {}
  /\ Attempt(p, r, [pass[p] EXCEPT !.todo = @ \ (before \cup {r})])
  /\ requested' = RecordedSkips(over) \ {r}
  /\ skipped' = (skipped \cup over) \ {r} /\ excused' = excused \ {r}
  /\ UNCHANGED <<built, closed, extractor, replaced, draining>>

(* The first loop ends with entries it passes over; the second begins.     *)
LookEnds(p) ==
  LET over == pass[p].todo \cap inflight IN
  /\ pass[p].at = "look" /\ pass[p].closing = Nothing
  /\ (pass[p].todo \cap replaced) \ inflight = {}
  /\ pass' = [pass EXCEPT ![p].at = "again", ![p].todo = {}]
  /\ requested' = RecordedSkips(over)
  /\ skipped' = skipped \cup over
  /\ UNCHANGED <<built, closed, extractor, replaced, inflight, draining, excused>>

(* The requests whose claim has been released, each attempted once.        *)
Honourable(p) == (requested \cap replaced) \ (inflight \cup pass[p].retried)

LookAgain(p, r) ==
  /\ pass[p].at = "again" /\ pass[p].closing = Nothing
  /\ r \in Honourable(p)
  /\ Attempt(p, r, [pass[p] EXCEPT !.retried = @ \cup {r}])
  /\ requested' = requested \ {r}
  /\ skipped' = skipped \ {r} /\ excused' = excused \ {r}
  /\ UNCHANGED <<built, closed, extractor, replaced, draining>>

PassEnds(p) ==
  /\ pass[p].at = "again" /\ pass[p].closing = Nothing
  /\ Honourable(p) = {}
  /\ requested' = requested \cap replaced
  /\ pass' = [pass EXCEPT ![p] = NoPass]
  /\ draining' = (draining /\ p # Stopper)
  /\ UNCHANGED <<built, closed, extractor, replaced, inflight, skipped, excused>>
-----------------------------------------------------------------------------
(* The close of an extractor ends.                                         *)

Closing(p, r) == pass[p].closing = r /\ r # Nothing

Closes(p, r) ==
  /\ Closing(p, r)
  /\ closed' = closed \cup {r}
  /\ replaced' = replaced \ {r} /\ requested' = requested \ {r}
  /\ inflight' = inflight \ {r}
  /\ pass' = [pass EXCEPT ![p].closing = Nothing]
  /\ skipped' = skipped \ {r} /\ excused' = excused \ {r}
  /\ UNCHANGED <<built, extractor, draining>>

(* A bug: a close that failed gives its entry up.                          *)
GivenUp(r) == replaced \ {r}

KeptOnFailure(r) == replaced

(* A request made while this pass retried the entry is left to the next.   *)
CloseFails(p, r) ==
  /\ Closing(p, r)
  /\ replaced' = KeptOnFailure(r)
  /\ inflight' = inflight \ {r}
  /\ pass' = [pass EXCEPT ![p].closing = Nothing]
  /\ excused' = IF r \in pass[p].retried THEN excused \cup {r} ELSE excused
  /\ UNCHANGED <<built, closed, extractor, requested, draining, skipped>>

(* The task is cancelled in its close: the request is owed again, and what *)
(* is outstanding waits for the next trigger.  A stop() so ended leaves    *)
(* the manager refusing new extractors.                                    *)
CloseCancelled(p, r) ==
  /\ Closing(p, r)
  /\ requested' = IF pass[p].owed THEN requested \cup {r} ELSE requested
  /\ inflight' = inflight \ {r}
  /\ pass' = [pass EXCEPT ![p] = NoPass]
  /\ excused' = excused \cup skipped \cup {r}
  /\ UNCHANGED <<built, closed, extractor, replaced, draining, skipped>>

PassStep(p) ==
  \/ LookEnds(p) \/ PassEnds(p)
  \/ \E r \in Extractors :
       \/ LookAgain(p, r) \/ Closes(p, r) \/ CloseFails(p, r) \/ CloseCancelled(p, r)
       \/ \E before \in SUBSET pass[p].todo : LookAt(p, r, before)

ExtractorNext ==
  \/ \E c \in Extracting : Publish(c)
  \/ StopBegins \/ Detach
  \/ \E p \in Passers : PassStep(p)

ExtractorSpec == ExtractorInit /\ [][ExtractorNext]_extractorVars
-----------------------------------------------------------------------------
ExtractorTypeOK ==
  /\ built \in 0..MaxExtractors /\ closed \subseteq Extractors
  /\ extractor \in Extractors \cup {Nothing}
  /\ replaced \subseteq Extractors /\ inflight \subseteq Extractors
  /\ requested \subseteq Extractors /\ draining \in BOOLEAN
  /\ pass \in [Passers -> [at : {"none", "look", "again"}, todo : SUBSET Extractors,
                           retried : SUBSET Extractors, closing : Extractors \cup {Nothing},
                           owed : BOOLEAN]]
  /\ skipped \subseteq Extractors /\ excused \subseteq Extractors

(* An extractor that is not closed is in the slot or in the retired set,  *)
(* never out of reach; and no two passes close the same one.               *)
NoneOutOfReach ==
  /\ ExtractorTypeOK
  /\ \A r \in 1..built : r \in closed \/ r = extractor \/ r \in replaced
  /\ \A p, q \in Passers : p # q /\ pass[p].closing = pass[q].closing => pass[p].closing = Nothing
  /\ inflight = {pass[p].closing : p \in Passers} \ {Nothing}

(* A pass that will come to r: it has r still to look at, or to look at    *)
(* again.                                                                  *)
WillAttempt(p, r) ==
  /\ pass[p].at # "none"
  /\ r \in pass[p].todo \/ (r \in requested /\ r \notin pass[p].retried)

(* The attempt a pass could not make is not lost when the close it ran     *)
(* into fails: somebody is closing the entry, or will.                     *)
SkipsAreHonoured ==
  \A r \in skipped \ excused :
    r \in inflight \/ \E p \in Passers : WillAttempt(p, r)

(* No extractor is left open for good, and a pass that skips one is right. *)
ExtractorsAreKept == NoneOutOfReach /\ SkipsAreHonoured
=============================================================================
