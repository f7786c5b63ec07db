---------------------------- MODULE ManagerProofs ----------------------------
(***************************************************************************)
(* Proofs about the parts of the proxy manager, for any number of tasks,   *)
(* calls, sessions, generations and extractors.                            *)
(***************************************************************************)
EXTENDS Manager, TLAPS, FiniteSetTheorems, WellFoundedInduction
-----------------------------------------------------------------------------
(* The fact extractors.  What is being closed, or asked for again, is      *)
(* still kept, a skipped entry is asked for, and a pass in its second loop *)
(* has looked at everything once.                                          *)
PassRecords ==
  [at : {"none", "look", "again"}, todo : SUBSET Extractors, retried : SUBSET Extractors,
   closing : Extractors \cup {Nothing}, owed : BOOLEAN]

ExtractorTypes ==
  /\ built \in 0..MaxExtractors /\ extractor \in Extractors \cup {Nothing}
  /\ replaced \subseteq Extractors /\ closed \subseteq Extractors
  /\ excused \subseteq Extractors /\ draining \in BOOLEAN
  /\ pass \in [Passers -> PassRecords]

NoneLost == \A r \in 1..built : r \in closed \/ r = extractor \/ r \in replaced

ClosersAreOne ==
  \A p, q \in Passers : p # q /\ pass[p].closing = pass[q].closing => pass[p].closing = Nothing

ClaimsAreClosings ==
  /\ \A p \in Passers : pass[p].closing # Nothing => pass[p].closing \in inflight
  /\ \A r \in inflight : r # Nothing /\ \E p \in Passers : pass[p].closing = r

PassesAreSound ==
  \A p \in Passers :
    /\ pass[p].closing # Nothing => pass[p].at # "none"
    /\ pass[p].at = "again" => pass[p].todo = {}

ClaimsAreKept ==
  /\ inflight \subseteq replaced
  /\ skipped \subseteq requested
  /\ requested \subseteq replaced

ExtractorInv ==
  /\ ExtractorTypes /\ NoneLost /\ ClosersAreOne /\ ClaimsAreClosings
  /\ SkipsAreHonoured /\ PassesAreSound /\ ClaimsAreKept

LEMMA ExtractorInvShows == ExtractorInv => ExtractorsAreKept
<1> SUFFICES ASSUME ExtractorInv PROVE ExtractorsAreKept
  OBVIOUS
<1>1. ExtractorTypeOK
  <2>1. replaced \subseteq Extractors /\ ClaimsAreKept
    BY DEF ExtractorInv, ExtractorTypes
  <2>2. requested \subseteq Extractors /\ inflight \subseteq Extractors /\ skipped \subseteq Extractors
    BY <2>1 DEF ClaimsAreKept
  <2>3. QED
    BY <2>2 DEF ExtractorInv, ExtractorTypes, ExtractorTypeOK, PassRecords
<1>2. inflight = {pass[p].closing : p \in Passers} \ {Nothing}
  <2>1. \A r : r \in {pass[p].closing : p \in Passers} \ {Nothing} => r \in inflight
    BY DEF ExtractorInv, ClaimsAreClosings
  <2>2. \A r \in inflight : r \in {pass[p].closing : p \in Passers} \ {Nothing}
    BY DEF ExtractorInv, ClaimsAreClosings
  <2>3. QED
    BY <2>1, <2>2
<1>3. QED
  BY <1>1, <1>2 DEF ExtractorInv, ExtractorsAreKept, NoneOutOfReach, NoneLost, ClosersAreOne

LEMMA ExtractorInitInv == ExtractorInit => ExtractorInv
<1> SUFFICES ASSUME ExtractorInit PROVE ExtractorInv
  OBVIOUS
<1>1. \A p \in Passers : pass[p] = NoPass /\ pass[p].at = "none" /\ pass[p].closing = Nothing
  BY DEF ExtractorInit, NoPass
<1>2. ExtractorTypes
  <2>1. NoPass \in PassRecords
    BY DEF NoPass, PassRecords
  <2>2. pass \in [Passers -> PassRecords]
    BY <2>1 DEF ExtractorInit
  <2>3. built \in 0..MaxExtractors
    BY ExtractorAssumption DEF ExtractorInit
  <2>4. QED
    BY <2>2, <2>3 DEF ExtractorInit, ExtractorTypes
<1>3. NoneLost /\ ClosersAreOne /\ ClaimsAreClosings
  BY <1>1 DEF ExtractorInit, NoneLost, ClosersAreOne, ClaimsAreClosings
<1>4. SkipsAreHonoured /\ PassesAreSound /\ ClaimsAreKept
  BY <1>1 DEF ExtractorInit, SkipsAreHonoured, PassesAreSound, ClaimsAreKept
<1>5. QED
  BY <1>2, <1>3, <1>4 DEF ExtractorInv

(* The pass of one task becomes row.                                       *)
PassBecomes(p, row) ==
  /\ pass' \in [Passers -> PassRecords]
  /\ pass'[p] = row
  /\ \A q \in Passers \ {p} : pass'[q] = pass[q]

LEMMA PassReplaced ==
  ASSUME NEW p \in Passers, NEW row \in PassRecords, pass \in [Passers -> PassRecords],
         pass' = [pass EXCEPT ![p] = row]
  PROVE  PassBecomes(p, row)
BY DEF PassBecomes

(* A pass begins, over what waits to be closed.                            *)
PassBegins(p, waiting) ==
  /\ pass[p] = NoPass
  /\ waiting = replaced \cup ({extractor} \ {Nothing})
  /\ replaced' = waiting
  /\ pass' = [pass EXCEPT ![p] = IF waiting = {} /\ p \in Extracting THEN NoPass ELSE NewPass(waiting)]
  /\ UNCHANGED <<closed, inflight, requested, skipped, excused>>
  /\ draining' \in BOOLEAN
  /\ \/ built' = built /\ extractor' = Nothing
     \/ built' = built + 1 /\ built < MaxExtractors /\ extractor' = built'

LEMMA PassBeginsKeeps ==
  ASSUME NEW p \in Passers, NEW waiting, ExtractorInv, PassBegins(p, waiting)
  PROVE  ExtractorInv'
<1> PICK row : row = IF waiting = {} /\ p \in Extracting THEN NoPass ELSE NewPass(waiting)
  OBVIOUS
<1>1. waiting \subseteq Extractors /\ replaced \subseteq waiting
      /\ (extractor # Nothing => extractor \in waiting)
  BY DEF ExtractorInv, ExtractorTypes, PassBegins
<1>2. row \in PassRecords /\ row.closing = Nothing /\ row.at # "again"
  BY <1>1 DEF NoPass, NewPass, PassRecords
<1>3. PassBecomes(p, row)
  BY <1>2, PassReplaced DEF ExtractorInv, ExtractorTypes, PassBegins
<1>4. pass[p].at = "none" /\ pass[p].closing = Nothing
  BY DEF PassBegins, NoPass
<1>5. ExtractorTypes'
  <2>1. built' \in 0..MaxExtractors /\ extractor' \in Extractors \cup {Nothing}
    BY ExtractorAssumption DEF ExtractorInv, ExtractorTypes, PassBegins, Extractors
  <2>2. QED
    BY <1>1, <1>3, <2>1 DEF ExtractorInv, ExtractorTypes, PassBegins, PassBecomes
<1>6. NoneLost'
  <2>1. built \in Nat
    BY DEF ExtractorInv, ExtractorTypes
  <2>2. \A r \in 1..built : r \in closed' \/ r \in replaced'
    BY <1>1, ExtractorAssumption DEF ExtractorInv, NoneLost, PassBegins, ExtractorTypes
  <2>3. \A r \in 1..built' : r \in 1..built \/ r = extractor'
    BY <2>1 DEF PassBegins
  <2>4. QED
    BY <2>2, <2>3 DEF NoneLost
<1>7. \A q \in Passers : pass'[q].closing = pass[q].closing
  BY <1>2, <1>3, <1>4 DEF PassBecomes
<1>8. ClosersAreOne' /\ ClaimsAreClosings' /\ PassesAreSound'
  <2>1. ClosersAreOne' /\ ClaimsAreClosings'
    <3>1. inflight' = inflight
      BY DEF PassBegins
    <3>2. QED
      BY <1>7, <3>1 DEF ExtractorInv, ClosersAreOne, ClaimsAreClosings
  <2>2. PassesAreSound'
    BY <1>2, <1>3 DEF ExtractorInv, PassesAreSound, PassBecomes
  <2>3. QED
    BY <2>1, <2>2
<1>9. SkipsAreHonoured'
  BY <1>3, <1>4
     DEF ExtractorInv, PassBegins, SkipsAreHonoured, WillAttempt, PassBecomes
<1>10. ClaimsAreKept'
  BY <1>1 DEF ExtractorInv, ClaimsAreKept, PassBegins
<1>11. QED
  BY <1>5, <1>6, <1>8, <1>9, <1>10 DEF ExtractorInv

LEMMA PublishKeeps ==
  ASSUME NEW c \in Extracting, ExtractorInv, Publish(c) PROVE ExtractorInv'
<1>1. c \in Passers
  BY DEF Passers
<1>2. PICK waiting : waiting = replaced \cup ({extractor} \ {Nothing})
  OBVIOUS
<1>3. PassBegins(c, waiting)
  BY <1>2 DEF Publish, PassBegins, ExtractorInv, ExtractorTypes
<1>4. QED
  BY <1>1, <1>3, PassBeginsKeeps

LEMMA DetachKeeps ==
  ASSUME ExtractorInv, Detach PROVE ExtractorInv'
<1>1. Stopper \in Passers /\ Stopper \notin Extracting
  BY ExtractorAssumption DEF Passers
<1>2. PICK waiting : waiting = replaced \cup ({extractor} \ {Nothing})
  OBVIOUS
<1>3. PassBegins(Stopper, waiting)
  BY <1>1, <1>2 DEF Detach, PassBegins, ExtractorInv, ExtractorTypes
<1>4. QED
  BY <1>1, <1>3, PassBeginsKeeps

(* A pass claims r, from either loop.                                      *)
PassClaims(p, r, row) ==
  /\ pass[p].at # "none" /\ pass[p].closing = Nothing
  /\ r \in replaced \ inflight
  /\ inflight' = inflight \cup {r}
  /\ row \in PassRecords /\ row.at = pass[p].at /\ row.closing = r
  /\ pass[p].at = "again" => row.todo = {}
  /\ pass' = [pass EXCEPT ![p] = row]
  /\ UNCHANGED <<built, closed, extractor, replaced, draining>>
  /\ r \notin requested' /\ r \notin skipped'
  /\ \A x \in requested \ {r} : x \in requested'
  /\ \A x \in requested' : x \in requested \/ x \in inflight
  /\ \A x \in skipped' : x \in skipped \/ (x \in inflight /\ x \in requested')
  /\ excused' = excused \ {r}
  /\ \A x \in (skipped \ {r}) \ inflight : x \in pass[p].todo => x \in row.todo
  /\ \A x \in Extractors : x # r /\ x \notin pass[p].retried => x \notin row.retried

LEMMA PassClaimsKeeps ==
  ASSUME NEW p \in Passers, NEW r \in Extractors, NEW row, ExtractorInv, PassClaims(p, r, row)
  PROVE  ExtractorInv'
<1>1. r # Nothing
  BY ExtractorAssumption DEF Extractors
<1>2. PassBecomes(p, row)
  BY PassReplaced DEF ExtractorInv, ExtractorTypes, PassClaims
<1>3. ExtractorTypes'
  BY <1>2 DEF ExtractorInv, ExtractorTypes, PassClaims, PassBecomes
<1>4. NoneLost'
  BY DEF ExtractorInv, NoneLost, PassClaims
<1>5. \A q \in Passers : pass[q].closing # r
  BY <1>1 DEF ExtractorInv, ClaimsAreClosings, PassClaims
<1>6. pass'[p].closing = r /\ \A q \in Passers \ {p} : pass'[q].closing = pass[q].closing
  BY <1>2 DEF PassBecomes, PassClaims
<1>7. ClosersAreOne'
  BY <1>1, <1>5, <1>6 DEF ExtractorInv, ClosersAreOne
<1>8. ClaimsAreClosings'
  <2>1. \A q \in Passers : pass'[q].closing # Nothing => pass'[q].closing \in inflight'
    BY <1>6 DEF ExtractorInv, ClaimsAreClosings, PassClaims
  <2>2. \A x \in inflight' : x # Nothing /\ \E q \in Passers : pass'[q].closing = x
    <3>1. pass[p].closing = Nothing
      BY DEF PassClaims
    <3>2. QED
      BY <1>1, <1>6, <3>1 DEF ExtractorInv, ClaimsAreClosings, PassClaims
  <2>3. QED
    BY <2>1, <2>2 DEF ClaimsAreClosings
<1>9. PassesAreSound'
  BY <1>2 DEF ExtractorInv, PassesAreSound, PassBecomes, PassClaims
<1>10. ClaimsAreKept'
  BY DEF ExtractorInv, ClaimsAreKept, PassClaims
<1>11. SkipsAreHonoured'
  <2> SUFFICES ASSUME NEW x \in skipped' \ excused', x \notin inflight'
               PROVE  \E q \in Passers : WillAttempt(q, x)'
    BY DEF SkipsAreHonoured
  <2>1. x # r /\ x \in skipped /\ x \notin excused /\ x \notin inflight
    BY DEF PassClaims
  <2>2. x \in Extractors
    BY <2>1 DEF ExtractorInv, ClaimsAreKept, ExtractorTypes
  <2>3. PICK q \in Passers : WillAttempt(q, x)
    BY <2>1 DEF ExtractorInv, SkipsAreHonoured
  <2>4. CASE q = p
    <3>1. row.at # "none" /\ (x \in row.todo \/ (x \in requested' /\ x \notin row.retried))
      BY <2>1, <2>2, <2>3, <2>4 DEF PassClaims, WillAttempt
    <3>2. QED
      BY <1>2, <3>1 DEF PassBecomes, WillAttempt
  <2>5. CASE q # p
    <3>1. pass'[q] = pass[q] /\ (x \in requested => x \in requested')
      BY <1>2, <2>1, <2>5 DEF PassBecomes, PassClaims
    <3>2. QED
      BY <2>3, <3>1 DEF WillAttempt
  <2>6. QED
    BY <2>4, <2>5
<1>12. QED
  BY <1>3, <1>4, <1>7, <1>8, <1>9, <1>10, <1>11 DEF ExtractorInv

\* A pass that takes up r, of the requests asked.
TakingUp(rest, r, asked) == [rest EXCEPT !.closing = r, !.owed = r \in asked]

LEMMA TakingUpIsRecord ==
  ASSUME NEW rest \in PassRecords, NEW r \in Extractors, NEW asked
  PROVE  /\ TakingUp(rest, r, asked) \in PassRecords
         /\ TakingUp(rest, r, asked).at = rest.at
         /\ TakingUp(rest, r, asked).closing = r
         /\ TakingUp(rest, r, asked).retried = rest.retried
         /\ TakingUp(rest, r, asked).todo = rest.todo
<1>1. (r \in asked) \in BOOLEAN
  OBVIOUS
<1>2. QED
  BY <1>1 DEF TakingUp, PassRecords

LEMMA AttemptTakesUp ==
  ASSUME NEW p, NEW r, NEW rest, Attempt(p, r, rest)
  PROVE  /\ inflight' = inflight \cup {r}
         /\ pass' = [pass EXCEPT ![p] = TakingUp(rest, r, requested)]
BY Zenon DEF Attempt, TakingUp

LEMMA LookAtKeeps ==
  ASSUME NEW p \in Passers, NEW r \in Extractors, NEW before, ExtractorInv, LookAt(p, r, before)
  PROVE  ExtractorInv'
<1>1. PICK k \in PassRecords : k = pass[p]
  BY DEF ExtractorInv, ExtractorTypes
<1>2. PICK rest : rest = [k EXCEPT !.todo = k.todo \ (before \cup {r})]
  OBVIOUS
<1>a. rest \in PassRecords /\ rest.at = k.at /\ rest.retried = k.retried
      /\ rest.todo = k.todo \ (before \cup {r})
  BY <1>2 DEF PassRecords
<1>b. Attempt(p, r, rest)
  BY <1>1, <1>2 DEF LookAt
<1>c. PICK row : row = TakingUp(rest, r, requested)
  OBVIOUS
<1>3. /\ row \in PassRecords /\ row.at = k.at /\ row.closing = r /\ row.retried = k.retried
      /\ row.todo = k.todo \ (before \cup {r})
  BY <1>a, <1>c, TakingUpIsRecord
<1>4. pass' = [pass EXCEPT ![p] = row] /\ inflight' = inflight \cup {r}
  BY <1>b, <1>c, AttemptTakesUp
<1>5. /\ pass[p].at = "look" /\ pass[p].closing = Nothing /\ r \in replaced \ inflight
      /\ before \cap (replaced \ inflight) = {}
      /\ requested' = (requested \cup (before \cap inflight)) \ {r}
      /\ skipped' = (skipped \cup (before \cap inflight)) \ {r} /\ excused' = excused \ {r}
      /\ UNCHANGED <<built, closed, extractor, replaced, draining>>
  BY DEF LookAt, RecordedSkips
<1>6. \A x \in (skipped \ {r}) \ inflight : x \in pass[p].todo => x \in row.todo
  BY <1>1, <1>3, <1>5 DEF ExtractorInv, ClaimsAreKept
<1>7. PassClaims(p, r, row)
  <2>1. /\ r \notin requested' /\ r \notin skipped'
        /\ \A x \in requested \ {r} : x \in requested'
        /\ \A x \in requested' : x \in requested \/ x \in inflight
        /\ \A x \in skipped' : x \in skipped \/ (x \in inflight /\ x \in requested')
    BY <1>5
  <2>2. \A x \in Extractors : x # r /\ x \notin pass[p].retried => x \notin row.retried
    BY <1>1, <1>3
  <2>3. pass[p].at # "none" /\ row.at = pass[p].at /\ (pass[p].at = "again" => row.todo = {})
    BY <1>1, <1>3, <1>5
  <2>4. QED
    BY <1>3, <1>4, <1>5, <1>6, <2>1, <2>2, <2>3 DEF PassClaims
<1>8. QED
  BY <1>7, PassClaimsKeeps

LEMMA LookAgainKeeps ==
  ASSUME NEW p \in Passers, NEW r \in Extractors, ExtractorInv, LookAgain(p, r)
  PROVE  ExtractorInv'
<1>1. PICK k \in PassRecords : k = pass[p]
  BY DEF ExtractorInv, ExtractorTypes
<1>2. PICK rest : rest = [k EXCEPT !.retried = k.retried \cup {r}]
  OBVIOUS
<1>a. rest \in PassRecords /\ rest.at = k.at /\ rest.todo = k.todo
      /\ rest.retried = k.retried \cup {r}
  BY <1>2 DEF PassRecords
<1>b. Attempt(p, r, rest)
  BY <1>1, <1>2 DEF LookAgain
<1>c. PICK row : row = TakingUp(rest, r, requested)
  OBVIOUS
<1>3. /\ row \in PassRecords /\ row.at = k.at /\ row.closing = r /\ row.todo = k.todo
      /\ row.retried = k.retried \cup {r}
  BY <1>a, <1>c, TakingUpIsRecord
<1>4. pass' = [pass EXCEPT ![p] = row] /\ inflight' = inflight \cup {r}
  BY <1>b, <1>c, AttemptTakesUp
<1>5. /\ pass[p].at = "again" /\ pass[p].closing = Nothing /\ r \in replaced \ inflight
      /\ requested' = requested \ {r}
      /\ skipped' = skipped \ {r} /\ excused' = excused \ {r}
      /\ UNCHANGED <<built, closed, extractor, replaced, draining>>
  BY DEF LookAgain, Honourable
<1>6. row.todo = {} /\ pass[p].todo = {}
  BY <1>1, <1>3, <1>5 DEF ExtractorInv, PassesAreSound
<1>7. PassClaims(p, r, row)
  <2>1. /\ r \notin requested' /\ r \notin skipped'
        /\ \A x \in requested \ {r} : x \in requested'
        /\ \A x \in requested' : x \in requested
        /\ \A x \in skipped' : x \in skipped
    BY <1>5
  <2>2. \A x \in Extractors : x # r /\ x \notin pass[p].retried => x \notin row.retried
    BY <1>1, <1>3
  <2>3. pass[p].at # "none" /\ row.at = pass[p].at /\ (pass[p].at = "again" => row.todo = {})
    BY <1>1, <1>3, <1>5, <1>6
  <2>4. \A x \in (skipped \ {r}) \ inflight : x \in pass[p].todo => x \in row.todo
    BY <1>6
  <2>5. QED
    BY <1>3, <1>4, <1>5, <2>1, <2>2, <2>3, <2>4 DEF PassClaims
<1>8. QED
  BY <1>7, PassClaimsKeeps

(* A pass gives back what it was closing, or moves on with nothing in hand.*)
PassDrops(p, row) ==
  /\ row \in PassRecords /\ row.closing = Nothing /\ (row.at = "again" => row.todo = {})
  /\ pass' = [pass EXCEPT ![p] = row]
  /\ inflight' = inflight \ {pass[p].closing}
  /\ UNCHANGED <<built, extractor>>
  /\ draining' \in BOOLEAN

LEMMA PassDropsKeeps ==
  ASSUME NEW p \in Passers, NEW row, ExtractorInv, PassDrops(p, row)
  PROVE  /\ PassBecomes(p, row)
         /\ ClosersAreOne' /\ ClaimsAreClosings' /\ PassesAreSound'
<1>1. PassBecomes(p, row)
  BY PassReplaced DEF ExtractorInv, ExtractorTypes, PassDrops
<1>2. pass'[p].closing = Nothing /\ \A q \in Passers \ {p} : pass'[q].closing = pass[q].closing
  BY <1>1 DEF PassBecomes, PassDrops
<1>3. ClosersAreOne'
  BY <1>2 DEF ExtractorInv, ClosersAreOne
<1>4. ClaimsAreClosings'
  <2>0. inflight' = inflight \ {pass[p].closing}
    BY DEF PassDrops
  <2>1. \A q \in Passers : pass'[q].closing # Nothing => pass'[q].closing \in inflight'
    BY <1>2, <2>0 DEF ExtractorInv, ClaimsAreClosings, ClosersAreOne
  <2>2. \A x \in inflight' : x # Nothing /\ \E q \in Passers : pass'[q].closing = x
    BY <1>2, <2>0 DEF ExtractorInv, ClaimsAreClosings
  <2>3. QED
    BY <2>1, <2>2 DEF ClaimsAreClosings
<1>5. PassesAreSound'
  BY <1>1 DEF ExtractorInv, PassesAreSound, PassBecomes, PassDrops
<1>6. QED
  BY <1>1, <1>3, <1>4, <1>5

LEMMA LookEndsKeeps ==
  ASSUME NEW p \in Passers, ExtractorInv, LookEnds(p) PROVE ExtractorInv'
<1>1. PICK k \in PassRecords : k = pass[p]
  BY DEF ExtractorInv, ExtractorTypes
<1>2. PICK row : row = [k EXCEPT !.at = "again", !.todo = {}]
  OBVIOUS
<1>3. /\ row \in PassRecords /\ row.at = "again" /\ row.closing = k.closing
      /\ row.retried = k.retried /\ row.todo = {}
  BY <1>2 DEF PassRecords
<1>4. pass' = [pass EXCEPT ![p] = row]
  BY <1>1, <1>2 DEF LookEnds
<1>5. PICK over : over = pass[p].todo \cap inflight
  OBVIOUS
<1>6. /\ pass[p].closing = Nothing /\ pass[p].at = "look"
      /\ (pass[p].todo \cap replaced) \ inflight = {}
      /\ requested' = requested \cup over /\ skipped' = skipped \cup over
      /\ UNCHANGED <<built, closed, extractor, replaced, inflight, draining, excused>>
  BY <1>5 DEF LookEnds, RecordedSkips
<1>7. Nothing \notin inflight
  BY DEF ExtractorInv, ClaimsAreClosings
<1>8. PassDrops(p, row)
  BY <1>1, <1>3, <1>4, <1>6, <1>7 DEF PassDrops, ExtractorInv, ExtractorTypes
<1>9. PassBecomes(p, row) /\ ClosersAreOne' /\ ClaimsAreClosings' /\ PassesAreSound'
  BY <1>8, PassDropsKeeps
<1>10. ExtractorTypes' /\ NoneLost'
  BY <1>6, <1>9 DEF ExtractorInv, ExtractorTypes, NoneLost, PassBecomes
<1>11. ClaimsAreKept'
  BY <1>5, <1>6 DEF ExtractorInv, ClaimsAreKept
<1>12. SkipsAreHonoured'
  <2> SUFFICES ASSUME NEW x \in skipped' \ excused', x \notin inflight'
               PROVE  \E q \in Passers : WillAttempt(q, x)'
    BY DEF SkipsAreHonoured
  <2>1. x \in skipped /\ x \notin excused /\ x \notin inflight /\ x \in replaced /\ x \in requested'
    BY <1>5, <1>6 DEF ExtractorInv, ClaimsAreKept
  <2>2. PICK q \in Passers : WillAttempt(q, x)
    BY <2>1 DEF ExtractorInv, SkipsAreHonoured
  <2>3. CASE q = p
    <3>1. x \notin pass[p].todo
      BY <1>6, <2>1
    <3>2. x \notin row.retried
      BY <1>1, <1>3, <2>2, <2>3, <3>1 DEF WillAttempt
    <3>3. QED
      BY <1>3, <1>9, <2>1, <3>2 DEF PassBecomes, WillAttempt
  <2>4. CASE q # p
    <3>1. pass'[q] = pass[q]
      BY <1>9, <2>4 DEF PassBecomes
    <3>2. QED
      BY <2>1, <2>2, <3>1 DEF WillAttempt
  <2>5. QED
    BY <2>3, <2>4
<1>13. QED
  BY <1>9, <1>10, <1>11, <1>12 DEF ExtractorInv

LEMMA PassEndsKeeps ==
  ASSUME NEW p \in Passers, ExtractorInv, PassEnds(p) PROVE ExtractorInv'
<1>1. NoPass \in PassRecords /\ NoPass.closing = Nothing /\ NoPass.at # "again"
  BY DEF NoPass, PassRecords
<1>2. /\ pass[p].closing = Nothing /\ pass[p].at = "again"
      /\ \A x : x \in requested \cap replaced => x \in inflight \cup pass[p].retried
      /\ requested' = requested \cap replaced
      /\ pass' = [pass EXCEPT ![p] = NoPass]
      /\ UNCHANGED <<built, closed, extractor, replaced, inflight, skipped, excused>>
      /\ draining' \in BOOLEAN
  BY DEF PassEnds, Honourable, ExtractorInv, ExtractorTypes
<1>3. Nothing \notin inflight
  BY DEF ExtractorInv, ClaimsAreClosings
<1>4. PassDrops(p, NoPass)
  BY <1>1, <1>2, <1>3 DEF PassDrops
<1>5. PassBecomes(p, NoPass) /\ ClosersAreOne' /\ ClaimsAreClosings' /\ PassesAreSound'
  BY <1>4, PassDropsKeeps
<1>6. ExtractorTypes' /\ NoneLost'
  BY <1>2, <1>5 DEF ExtractorInv, ExtractorTypes, NoneLost, PassBecomes
<1>7. ClaimsAreKept'
  BY <1>2 DEF ExtractorInv, ClaimsAreKept
<1>8. SkipsAreHonoured'
  <2> SUFFICES ASSUME NEW x \in skipped' \ excused', x \notin inflight'
               PROVE  \E q \in Passers : WillAttempt(q, x)'
    BY DEF SkipsAreHonoured
  <2>1. x \in skipped /\ x \notin excused /\ x \notin inflight /\ x \in replaced /\ x \in requested'
    BY <1>2 DEF ExtractorInv, ClaimsAreKept
  <2>2. PICK q \in Passers : WillAttempt(q, x)
    BY <2>1 DEF ExtractorInv, SkipsAreHonoured
  <2>3. q # p
    <3>1. pass[p].todo = {}
      BY <1>2 DEF ExtractorInv, PassesAreSound
    <3>2. x \in pass[p].retried
      BY <1>2, <2>1
    <3>3. QED
      BY <2>2, <3>1, <3>2 DEF WillAttempt
  <2>4. pass'[q] = pass[q]
    BY <1>5, <2>3 DEF PassBecomes
  <2>5. QED
    BY <2>1, <2>2, <2>4 DEF WillAttempt
<1>9. QED
  BY <1>5, <1>6, <1>7, <1>8 DEF ExtractorInv

LEMMA ClosesKeeps ==
  ASSUME NEW p \in Passers, NEW r \in Extractors, ExtractorInv, Closes(p, r)
  PROVE  ExtractorInv'
<1>1. PICK k \in PassRecords : k = pass[p]
  BY DEF ExtractorInv, ExtractorTypes
<1>2. PICK row : row = [k EXCEPT !.closing = Nothing]
  OBVIOUS
<1>3. /\ row \in PassRecords /\ row.at = k.at /\ row.closing = Nothing
      /\ row.retried = k.retried /\ row.todo = k.todo
  BY <1>2 DEF PassRecords
<1>4. /\ pass' = [pass EXCEPT ![p] = row] /\ pass[p].closing = r
      /\ closed' = closed \cup {r}
      /\ replaced' = replaced \ {r} /\ requested' = requested \ {r}
      /\ inflight' = inflight \ {r} /\ skipped' = skipped \ {r} /\ excused' = excused \ {r}
      /\ UNCHANGED <<built, extractor, draining>>
  BY <1>1, <1>2 DEF Closes, Closing
<1>5. PassDrops(p, row)
  BY <1>1, <1>3, <1>4 DEF PassDrops, ExtractorInv, ExtractorTypes, PassesAreSound
<1>6. PassBecomes(p, row) /\ ClosersAreOne' /\ ClaimsAreClosings' /\ PassesAreSound'
  BY <1>5, PassDropsKeeps
<1>7. ExtractorTypes' /\ NoneLost'
  BY <1>4, <1>6 DEF ExtractorInv, ExtractorTypes, NoneLost, PassBecomes
<1>8. ClaimsAreKept'
  BY <1>4 DEF ExtractorInv, ClaimsAreKept
<1>9. SkipsAreHonoured'
  <2> SUFFICES ASSUME NEW x \in skipped' \ excused', x \notin inflight'
               PROVE  \E q \in Passers : WillAttempt(q, x)'
    BY DEF SkipsAreHonoured
  <2>1. x # r /\ x \in skipped /\ x \notin excused /\ x \notin inflight
    BY <1>4
  <2>2. PICK q \in Passers : WillAttempt(q, x)
    BY <2>1 DEF ExtractorInv, SkipsAreHonoured
  <2>3. /\ pass'[q].at = pass[q].at /\ pass'[q].todo = pass[q].todo
        /\ pass'[q].retried = pass[q].retried
    BY <1>1, <1>3, <1>6 DEF PassBecomes
  <2>4. QED
    BY <1>4, <2>1, <2>2, <2>3 DEF WillAttempt
<1>10. QED
  BY <1>6, <1>7, <1>8, <1>9 DEF ExtractorInv

LEMMA CloseFailsKeeps ==
  ASSUME NEW p \in Passers, NEW r \in Extractors, ExtractorInv, CloseFails(p, r)
  PROVE  ExtractorInv'
<1>1. PICK k \in PassRecords : k = pass[p]
  BY DEF ExtractorInv, ExtractorTypes
<1>2. PICK row : row = [k EXCEPT !.closing = Nothing]
  OBVIOUS
<1>3. /\ row \in PassRecords /\ row.at = k.at /\ row.closing = Nothing
      /\ row.retried = k.retried /\ row.todo = k.todo
  BY <1>2 DEF PassRecords
<1>4. /\ pass' = [pass EXCEPT ![p] = row] /\ pass[p].closing = r /\ r # Nothing
      /\ inflight' = inflight \ {r}
      /\ excused' = IF r \in pass[p].retried THEN excused \cup {r} ELSE excused
      /\ UNCHANGED <<built, closed, extractor, replaced, requested, draining, skipped>>
  BY <1>1, <1>2 DEF CloseFails, Closing, KeptOnFailure
<1>5. PassDrops(p, row)
  BY <1>1, <1>3, <1>4 DEF PassDrops, ExtractorInv, ExtractorTypes, PassesAreSound
<1>6. PassBecomes(p, row) /\ ClosersAreOne' /\ ClaimsAreClosings' /\ PassesAreSound'
  BY <1>5, PassDropsKeeps
<1>7. ExtractorTypes' /\ NoneLost'
  BY <1>4, <1>6 DEF ExtractorInv, ExtractorTypes, NoneLost, PassBecomes
<1>8. ClaimsAreKept'
  BY <1>4 DEF ExtractorInv, ClaimsAreKept
<1>9. SkipsAreHonoured'
  <2> SUFFICES ASSUME NEW x \in skipped' \ excused', x \notin inflight'
               PROVE  \E q \in Passers : WillAttempt(q, x)'
    BY DEF SkipsAreHonoured
  <2>1. x \in skipped /\ x \notin excused /\ x \in requested'
    BY <1>4 DEF ExtractorInv, ClaimsAreKept
  <2>2. \A q \in Passers :
          /\ pass'[q].at = pass[q].at /\ pass'[q].todo = pass[q].todo
          /\ pass'[q].retried = pass[q].retried
    BY <1>1, <1>3, <1>6 DEF PassBecomes
  <2>3. CASE x = r
    <3>1. x \notin pass[p].retried /\ pass[p].at # "none"
      BY <1>4, <2>3 DEF ExtractorInv, PassesAreSound
    <3>2. QED
      BY <2>1, <2>2, <3>1 DEF WillAttempt
  <2>4. CASE x # r
    <3>1. x \notin inflight
      BY <1>4, <2>4
    <3>2. PICK q \in Passers : WillAttempt(q, x)
      BY <2>1, <3>1 DEF ExtractorInv, SkipsAreHonoured
    <3>3. QED
      BY <2>1, <2>2, <3>2 DEF WillAttempt
  <2>5. QED
    BY <2>3, <2>4
<1>10. QED
  BY <1>6, <1>7, <1>8, <1>9 DEF ExtractorInv

LEMMA CloseCancelledKeeps ==
  ASSUME NEW p \in Passers, NEW r \in Extractors, ExtractorInv, CloseCancelled(p, r)
  PROVE  ExtractorInv'
<1>1. NoPass \in PassRecords /\ NoPass.closing = Nothing /\ NoPass.at # "again"
  BY DEF NoPass, PassRecords
<1>2. /\ pass[p].closing = r /\ r # Nothing
      /\ requested \subseteq requested' /\ requested' \subseteq requested \cup {r}
      /\ inflight' = inflight \ {r} /\ excused' = excused \cup skipped \cup {r}
      /\ pass' = [pass EXCEPT ![p] = NoPass]
      /\ UNCHANGED <<built, closed, extractor, replaced, draining, skipped>>
  BY DEF CloseCancelled, Closing
<1>3. r \in replaced
  BY <1>2 DEF ExtractorInv, ClaimsAreClosings, ClaimsAreKept
<1>4. PassDrops(p, NoPass)
  BY <1>1, <1>2 DEF PassDrops, ExtractorInv, ExtractorTypes
<1>5. PassBecomes(p, NoPass) /\ ClosersAreOne' /\ ClaimsAreClosings' /\ PassesAreSound'
  BY <1>4, PassDropsKeeps
<1>6. skipped \subseteq Extractors
  BY DEF ExtractorInv, ClaimsAreKept, ExtractorTypes
<1>7. ExtractorTypes' /\ NoneLost'
  BY <1>2, <1>5, <1>6 DEF ExtractorInv, ExtractorTypes, NoneLost, PassBecomes
<1>8. ClaimsAreKept'
  BY <1>2, <1>3 DEF ExtractorInv, ClaimsAreKept
<1>9. SkipsAreHonoured'
  BY <1>2 DEF SkipsAreHonoured
<1>10. QED
  BY <1>5, <1>7, <1>8, <1>9 DEF ExtractorInv

LEMMA ExtractorStep == ExtractorInv /\ [ExtractorNext]_extractorVars => ExtractorInv'
<1> SUFFICES ASSUME ExtractorInv, [ExtractorNext]_extractorVars PROVE ExtractorInv'
  OBVIOUS
<1>1. ASSUME NEW c \in Extracting, Publish(c) PROVE ExtractorInv'
  BY <1>1, PublishKeeps
<1>2. CASE Detach
  BY <1>2, DetachKeeps
<1>3. CASE StopBegins
  BY <1>3 DEF StopBegins, ExtractorInv, ExtractorTypes, NoneLost, ClosersAreOne, ClaimsAreClosings,
              SkipsAreHonoured, WillAttempt, PassesAreSound, ClaimsAreKept
<1>4. ASSUME NEW p \in Passers, PassStep(p) PROVE ExtractorInv'
  BY <1>4, LookEndsKeeps, PassEndsKeeps, LookAgainKeeps, ClosesKeeps, CloseFailsKeeps,
     CloseCancelledKeeps, LookAtKeeps, Zenon DEF PassStep
<1>5. CASE UNCHANGED extractorVars
  BY <1>5 DEF extractorVars, ExtractorInv, ExtractorTypes, NoneLost, ClosersAreOne,
              ClaimsAreClosings, SkipsAreHonoured, WillAttempt, PassesAreSound, ClaimsAreKept
<1>6. QED
  BY <1>1, <1>2, <1>3, <1>4, <1>5, Zenon DEF ExtractorNext
-----------------------------------------------------------------------------
(* The closing of connections.  An open transport is the current one or is *)
(* kept, one being opened belongs to the recovery, and once the drain is   *)
(* over stop() alone works on what is kept.                                *)
Phases == {"up", "draining", "closing", "last", "stopped"}
OwnerStates == {"none", "opening", "open", "closing", "closed"}
RetireStates == {"none", "new", "closing", "done"}
Stoppings == [at : Phases, todo : SUBSET Generations, on : Generations \cup {Nobody}]
Reconnects == [at : {"none", "establishing", "joining"}, on : Generations \cup {Nobody}]

ShutdownTypes ==
  /\ current \in Generations /\ leases \in [Generations -> 0..MaxLeases]
  /\ owner \in [Generations -> OwnerStates]
  /\ kept \subseteq Generations /\ entry \subseteq Generations
  /\ failed \subseteq Generations /\ cancelled \subseteq Generations \cup {Recovery}
  /\ retire \in [Generations -> RetireStates]
  /\ reconnect \in Reconnects /\ stopping \in Stoppings

OpenIsKnown ==
  \A g \in Generations :
    /\ owner[g] = "open" => g = current \/ g \in kept
    /\ owner[g] = "opening" => reconnect.at = "establishing" /\ reconnect.on = g

ReplacementIsNext ==
  reconnect.at = "establishing" => current < MaxGenerations /\ reconnect.on = current + 1

UnusedAreRetired == \A g \in kept : Up /\ leases[g] = 0 => Runs(g) \/ g \in failed

EntriesRun == Up => cancelled = {} /\ \A g \in entry : Runs(g)

Draining == stopping.at \in {"up", "draining"}

DrainIsOver == ~Draining => reconnect.at # "establishing" /\ \A g \in Generations : ~Runs(g)

KeptAreClosed ==
  /\ stopping.at = "closing" =>
       \A g \in kept : owner[g] = "open" => g \in stopping.todo \/ g = current
  /\ stopping.at \in {"last", "stopped"} => \A g \in Generations : owner[g] # "open"

ShutdownInv ==
  /\ ShutdownTypes /\ OpenIsKnown /\ ReplacementIsNext
  /\ UnusedAreRetired /\ EntriesRun /\ DrainIsOver /\ KeptAreClosed

LEMMA ShutdownInvShows == ShutdownInv => NothingLeftOpen
<1> SUFFICES ASSUME ShutdownInv PROVE NothingLeftOpen
  OBVIOUS
<1>1. ShutdownTypeOK
  BY DEF ShutdownInv, ShutdownTypes, ShutdownTypeOK, Stoppings, Reconnects, Phases, OwnerStates,
         RetireStates
<1>2. stopping.at = "stopped" => \A g \in Generations : owner[g] \in {"none", "closing", "closed"}
  BY DEF ShutdownInv, ShutdownTypes, OwnerStates, OpenIsKnown, DrainIsOver, Draining, KeptAreClosed
<1>3. QED
  BY <1>1, <1>2 DEF NothingLeftOpen, ShutdownInv, UnusedAreRetired

LEMMA ShutdownInitInv == ShutdownInit => ShutdownInv
<1> SUFFICES ASSUME ShutdownInit PROVE ShutdownInv
  OBVIOUS
<1>1. 0 \in Generations /\ 0 \in 0..MaxLeases
  BY ShutdownAssumption DEF Generations
<1>2. ShutdownTypes
  <2>1. current \in Generations /\ leases \in [Generations -> 0..MaxLeases]
    BY <1>1 DEF ShutdownInit
  <2>2. owner \in [Generations -> OwnerStates] /\ retire \in [Generations -> RetireStates]
    BY DEF ShutdownInit, OwnerStates, RetireStates
  <2>3. reconnect \in Reconnects /\ stopping \in Stoppings
    BY DEF ShutdownInit, Reconnects, Stoppings, Phases
  <2>4. QED
    BY <2>1, <2>2, <2>3 DEF ShutdownInit, ShutdownTypes
<1>3. OpenIsKnown /\ ReplacementIsNext /\ UnusedAreRetired /\ EntriesRun
  BY DEF ShutdownInit, OpenIsKnown, ReplacementIsNext, UnusedAreRetired, EntriesRun
<1>4. DrainIsOver /\ KeptAreClosed
  BY DEF ShutdownInit, DrainIsOver, Draining, KeptAreClosed
<1>5. QED
  BY <1>2, <1>3, <1>4 DEF ShutdownInv

(* The steps of the owner's task.                                          *)
LEMMA OwnerStepKeeps ==
  ASSUME NEW g \in Generations, ShutdownInv, Unwinds(g) \/ Dies(g) PROVE ShutdownInv'
<1>1. PICK state \in {"closing", "closed"} : owner' = [owner EXCEPT ![g] = state]
  BY DEF Unwinds, Dies
<1>2. /\ failed \subseteq failed' /\ failed' \subseteq Generations
      /\ UNCHANGED <<current, leases, kept, tasks, stopping>>
  BY DEF Unwinds, Dies, ShutdownInv, ShutdownTypes
<1>3. state \in OwnerStates /\ owner \in [Generations -> OwnerStates]
  BY DEF ShutdownInv, ShutdownTypes, OwnerStates
<1>4. /\ owner' \in [Generations -> OwnerStates]
      /\ \A h \in Generations : owner'[h] = IF h = g THEN state ELSE owner[h]
  BY <1>1, <1>3
<1>5. ShutdownTypes'
  BY <1>2, <1>4 DEF ShutdownInv, ShutdownTypes, tasks
<1>6. OpenIsKnown' /\ ReplacementIsNext' /\ UnusedAreRetired' /\ EntriesRun'
  BY <1>2, <1>4 DEF ShutdownInv, OpenIsKnown, ReplacementIsNext, UnusedAreRetired, EntriesRun, Runs, Up, tasks
<1>7. DrainIsOver' /\ KeptAreClosed'
  BY <1>2, <1>4 DEF ShutdownInv, DrainIsOver, Draining, KeptAreClosed, Runs, tasks, ShutdownTypes
<1>8. QED
  BY <1>5, <1>6, <1>7 DEF ShutdownInv

(* Calls and their leases.                                                 *)
LEMMA LeaseKeeps == ASSUME ShutdownInv, Lease PROVE ShutdownInv'
<1>1. leases[current] \in 0..MaxLeases /\ leases[current] < MaxLeases /\ current \in Generations
  BY DEF ShutdownInv, ShutdownTypes, Lease
<1>2. leases[current] + 1 \in 0..MaxLeases /\ leases[current] + 1 # 0
  BY <1>1, ShutdownAssumption
<1>3. /\ leases' \in [Generations -> 0..MaxLeases]
      /\ \A g \in Generations : leases'[g] = 0 => leases[g] = 0
  BY <1>1, <1>2 DEF ShutdownInv, ShutdownTypes, Lease
<1>4. UNCHANGED <<current, owner, kept, failed, tasks, stopping>>
  BY DEF Lease
<1>5. ShutdownTypes'
  BY <1>3, <1>4 DEF ShutdownInv, ShutdownTypes, tasks
<1>6. UnusedAreRetired'
  BY <1>3, <1>4 DEF ShutdownInv, ShutdownTypes, UnusedAreRetired, Runs, Up, tasks
<1>7. OpenIsKnown' /\ ReplacementIsNext' /\ EntriesRun' /\ DrainIsOver' /\ KeptAreClosed'
  BY <1>4 DEF ShutdownInv, OpenIsKnown, ReplacementIsNext, EntriesRun, DrainIsOver, Draining,
              KeptAreClosed, Runs, Up, tasks
<1>8. QED
  BY <1>5, <1>6, <1>7 DEF ShutdownInv

LEMMA UnleaseKeeps ==
  ASSUME NEW g \in Generations, ShutdownInv, Unlease(g) PROVE ShutdownInv'
<1>1. leases[g] \in 0..MaxLeases /\ leases[g] > 0
  BY DEF ShutdownInv, ShutdownTypes, Unlease
<1>2. leases[g] - 1 \in 0..MaxLeases
  BY <1>1, ShutdownAssumption
<1>3. /\ leases' \in [Generations -> 0..MaxLeases]
      /\ \A h \in Generations : h # g => leases'[h] = leases[h]
      /\ leases'[g] = 0 => leases[g] = 1
  BY <1>1, <1>2 DEF ShutdownInv, ShutdownTypes, Unlease
<1>4. /\ UNCHANGED <<current, owner, kept, failed, reconnect, cancelled, stopping>>
      /\ \/ retire' = [retire EXCEPT ![g] = "new"] /\ entry' = entry \cup {g} /\ Up
         \/ retire' = retire /\ entry' = entry /\ ~(leases[g] = 1 /\ g \in kept /\ g \notin entry /\ Up)
  BY DEF Unlease
<1>5. /\ retire' \in [Generations -> RetireStates] /\ entry' \subseteq Generations
      /\ \A h \in Generations : Runs(h) => Runs(h)'
      /\ \A h \in entry' : h \in entry \/ Runs(h)'
  BY <1>4 DEF ShutdownInv, ShutdownTypes, Runs, RetireStates
<1>6. ShutdownTypes'
  BY <1>3, <1>4, <1>5 DEF ShutdownInv, ShutdownTypes
<1>7. UnusedAreRetired'
  <2> SUFFICES ASSUME NEW h \in kept, Up, leases'[h] = 0, h \notin failed PROVE Runs(h)'
    BY <1>4 DEF UnusedAreRetired, Up
  <2>1. h \in Generations
    BY DEF ShutdownInv, ShutdownTypes
  <2>2. CASE h # g
    BY <1>3, <1>5, <2>1, <2>2 DEF ShutdownInv, UnusedAreRetired
  <2>3. CASE h = g
    <3>1. leases[g] = 1
      BY <1>3, <2>3
    <3>2. CASE g \in entry
      BY <1>5, <2>3, <3>2 DEF ShutdownInv, EntriesRun
    <3>3. CASE g \notin entry
      <4>1. retire' = [retire EXCEPT ![g] = "new"]
        BY <1>4, <2>3, <3>1, <3>3
      <4>2. QED
        BY <2>3, <4>1 DEF ShutdownInv, ShutdownTypes, Runs
    <3>4. QED
      BY <3>2, <3>3
  <2>4. QED
    BY <2>2, <2>3
<1>8. EntriesRun'
  BY <1>4, <1>5 DEF ShutdownInv, ShutdownTypes, EntriesRun, Up
<1>9. OpenIsKnown' /\ ReplacementIsNext' /\ KeptAreClosed'
  BY <1>4 DEF ShutdownInv, OpenIsKnown, ReplacementIsNext, KeptAreClosed
<1>10. DrainIsOver'
  BY <1>4 DEF ShutdownInv, DrainIsOver, Draining, Runs, Up
<1>11. QED
  BY <1>6, <1>7, <1>8, <1>9, <1>10 DEF ShutdownInv

(* The tasks that close a retired generation.                              *)
LEMMA AskedIsClosing ==
  ASSUME NEW g \in Generations, owner \in [Generations -> OwnerStates]
  PROVE  /\ Asked(g) \in [Generations -> OwnerStates]
         /\ Asked(g)[g] # "open"
         /\ \A h \in Generations : Asked(g)[h] \in {owner[h], "closing"}
BY DEF Asked, OwnerStates

LEMMA RetireKeeps ==
  ASSUME NEW g \in Generations, ShutdownInv,
         RetireRuns(g) \/ RetireFinishes(g) \/ RetireCancelled(g)
  PROVE  ShutdownInv'
<1>1. /\ Runs(g) /\ UNCHANGED <<current, leases, failed, reconnect, cancelled, stopping>>
      /\ \A h \in Generations \ {g} : retire'[h] = retire[h]
      /\ retire' \in [Generations -> RetireStates]
      /\ entry' \subseteq entry /\ kept' \subseteq kept
      /\ \A h \in Generations \ {g} : h \in kept => h \in kept'
  BY DEF RetireRuns, RetireFinishes, RetireCancelled, Runs, ShutdownInv, ShutdownTypes, RetireStates
<1>2. /\ owner' \in [Generations -> OwnerStates]
      /\ \A h \in Generations : owner'[h] \in {owner[h], "closing"}
      /\ g \in kept /\ g \notin kept' => owner'[g] # "open"
  BY AskedIsClosing DEF RetireRuns, RetireFinishes, RetireCancelled, ShutdownInv, ShutdownTypes
<1>3. Up => /\ g \in entry' => Runs(g)'
            /\ g \in kept' => Runs(g)' \/ g \in failed
  BY DEF RetireRuns, RetireFinishes, RetireCancelled, Runs, ShutdownInv, ShutdownTypes, EntriesRun
<1>4. Draining
  BY <1>1 DEF ShutdownInv, DrainIsOver
<1>5. ShutdownTypes'
  BY <1>1, <1>2 DEF ShutdownInv, ShutdownTypes
<1>6. OpenIsKnown' /\ ReplacementIsNext'
  BY <1>1, <1>2 DEF ShutdownInv, ShutdownTypes, OpenIsKnown, ReplacementIsNext, OwnerStates
<1>7. UnusedAreRetired' /\ EntriesRun'
  BY <1>1, <1>3 DEF ShutdownInv, ShutdownTypes, UnusedAreRetired, EntriesRun, Runs, Up
<1>8. DrainIsOver' /\ KeptAreClosed'
  BY <1>1, <1>4 DEF DrainIsOver, Draining, KeptAreClosed
<1>9. QED
  BY <1>5, <1>6, <1>7, <1>8 DEF ShutdownInv

(* The recovery task.                                                      *)
LEMMA EstablishKeeps == ASSUME ShutdownInv, Establish PROVE ShutdownInv'
<1>1. current + 1 \in Generations /\ current < MaxGenerations
  BY ShutdownAssumption DEF Establish, ShutdownInv, ShutdownTypes, Generations
<1>2. /\ UNCHANGED <<current, leases, kept, entry, retire, failed, cancelled, stopping>>
      /\ owner' = [owner EXCEPT ![current + 1] = "opening"]
      /\ reconnect' = [at |-> "establishing", on |-> current + 1]
      /\ Up /\ reconnect.at = "none"
  BY DEF Establish
<1>3. PICK new \in Generations : new = current + 1
  BY <1>1
<1>4. /\ owner' \in [Generations -> OwnerStates] /\ owner'[new] = "opening"
      /\ \A h \in Generations : h # new => owner'[h] = owner[h]
  BY <1>2, <1>3 DEF ShutdownInv, ShutdownTypes, OwnerStates
<1>5. reconnect' \in Reconnects /\ reconnect'.at = "establishing" /\ reconnect'.on = new
  BY <1>2, <1>3 DEF Reconnects
<1>6. ShutdownTypes'
  BY <1>2, <1>4, <1>5 DEF ShutdownInv, ShutdownTypes
<1>7. OpenIsKnown'
  BY <1>2, <1>4, <1>5 DEF ShutdownInv, OpenIsKnown
<1>8. ReplacementIsNext'
  BY <1>1, <1>2, <1>3, <1>5 DEF ReplacementIsNext
<1>9. UnusedAreRetired' /\ EntriesRun' /\ DrainIsOver' /\ KeptAreClosed'
  BY <1>2 DEF ShutdownInv, UnusedAreRetired, EntriesRun, DrainIsOver, Draining, KeptAreClosed, Runs, Up
<1>10. QED
  BY <1>6, <1>7, <1>8, <1>9 DEF ShutdownInv

LEMMA RollBackKeeps == ASSUME ShutdownInv, RollBack PROVE ShutdownInv'
<1>1. PICK k \in Reconnects : k = reconnect
  BY DEF ShutdownInv, ShutdownTypes
<1>2. /\ UNCHANGED <<current, leases, kept, entry, retire, failed, cancelled, stopping>>
      /\ owner' = [owner EXCEPT ![reconnect.on] = "closing"]
      /\ reconnect' = [k EXCEPT !.at = "joining"]
      /\ reconnect.at = "establishing"
  BY <1>1 DEF RollBack
<1>3. PICK new \in Generations : new = reconnect.on
  BY <1>2, ShutdownAssumption
     DEF ShutdownInv, ShutdownTypes, ReplacementIsNext, Generations
<1>4. /\ owner' \in [Generations -> OwnerStates] /\ owner'[new] = "closing"
      /\ \A h \in Generations : h # new => owner'[h] = owner[h]
  BY <1>2, <1>3 DEF ShutdownInv, ShutdownTypes, OwnerStates
<1>5. reconnect' \in Reconnects /\ reconnect'.at = "joining"
  BY <1>2 DEF Reconnects
<1>6. ShutdownTypes'
  BY <1>2, <1>4, <1>5 DEF ShutdownInv, ShutdownTypes
<1>7. OpenIsKnown' /\ ReplacementIsNext'
  BY <1>2, <1>3, <1>4, <1>5 DEF ShutdownInv, OpenIsKnown, ReplacementIsNext
<1>8. UnusedAreRetired' /\ EntriesRun' /\ DrainIsOver'
  BY <1>2, <1>5 DEF ShutdownInv, UnusedAreRetired, EntriesRun, DrainIsOver, Draining, Runs, Up
<1>9. KeptAreClosed'
  BY <1>2, <1>4 DEF ShutdownInv, KeptAreClosed, ShutdownTypes
<1>10. QED
  BY <1>6, <1>7, <1>8, <1>9 DEF ShutdownInv

LEMMA SwapKeeps == ASSUME ShutdownInv, SwapGeneration PROVE ShutdownInv'
<1>1. PICK new \in Generations : new = reconnect.on /\ new = current + 1
  BY ShutdownAssumption
     DEF SwapGeneration, ShutdownInv, ShutdownTypes, ReplacementIsNext, Generations
<1>2. PICK fresh \in [Generations -> OwnerStates] :
        fresh = [owner EXCEPT ![new] = "open"]
  BY DEF ShutdownInv, ShutdownTypes, OwnerStates
<1>3. current \in Generations /\ new # current
  BY <1>1 DEF ShutdownInv, ShutdownTypes, Generations
<1>4. /\ UNCHANGED <<leases, entry, retire, failed, cancelled, stopping>> /\ current' = new
      /\ reconnect.at = "establishing"
      /\ \/ leases[current] > 0 /\ kept' = kept \cup {current} /\ owner' = fresh
            /\ reconnect' = [at |-> "none", on |-> Nobody]
         \/ leases[current] = 0 /\ owner' = [fresh EXCEPT ![current] = Asked(current)[current]]
            /\ reconnect' = [at |-> "joining", on |-> current] /\ kept' = kept
  BY <1>1, <1>2 DEF SwapGeneration
<1>5. Asked(current)[current] \in OwnerStates /\ Asked(current)[current] # "open"
      /\ (Asked(current)[current] = "opening" => owner[current] = "opening")
  BY <1>3, AskedIsClosing DEF ShutdownInv, ShutdownTypes, OwnerStates
<1>6. /\ owner' \in [Generations -> OwnerStates]
      /\ \A h \in Generations : h # new /\ h # current => owner'[h] = owner[h]
      /\ owner'[new] = "open"
      /\ owner'[current] = "open" => current \in kept'
      /\ owner'[current] = "opening" => owner[current] = "opening"
  BY <1>2, <1>3, <1>4, <1>5
<1>7. reconnect' \in Reconnects /\ reconnect'.at # "establishing"
  BY <1>3, <1>4 DEF Reconnects
<1>8. kept \subseteq kept' /\ kept' \subseteq kept \cup {current}
  BY <1>4
<1>9. Draining
  BY <1>4 DEF ShutdownInv, DrainIsOver
<1>10. ShutdownTypes'
  BY <1>3, <1>4, <1>6, <1>7, <1>8 DEF ShutdownInv, ShutdownTypes
<1>11. OpenIsKnown'
  BY <1>1, <1>3, <1>4, <1>6, <1>8 DEF ShutdownInv, OpenIsKnown
<1>12. UnusedAreRetired'
  <2>1. current \in kept' => current \in kept \/ leases[current] > 0
    BY <1>4
  <2>2. leases[current] > 0 => leases[current] # 0
    BY <1>3 DEF ShutdownInv, ShutdownTypes
  <2>3. QED
    BY <1>4, <1>8, <2>1, <2>2 DEF ShutdownInv, UnusedAreRetired, Runs, Up
<1>13. ReplacementIsNext' /\ EntriesRun' /\ DrainIsOver' /\ KeptAreClosed'
  BY <1>4, <1>7, <1>9 DEF ShutdownInv, ReplacementIsNext, EntriesRun, DrainIsOver, Draining,
                          KeptAreClosed, Runs, Up
<1>14. QED
  BY <1>10, <1>11, <1>12, <1>13 DEF ShutdownInv

LEMMA ReconnectEndsKeeps == ASSUME ShutdownInv, ReconnectEnds PROVE ShutdownInv'
<1>1. /\ UNCHANGED <<current, owner, leases, kept, entry, retire, failed, cancelled, stopping>>
      /\ reconnect' = [at |-> "none", on |-> Nobody] /\ reconnect.at = "joining"
  BY DEF ReconnectEnds
<1>2. reconnect' \in Reconnects /\ reconnect'.at = "none"
  BY <1>1 DEF Reconnects
<1>3. ShutdownTypes'
  BY <1>1, <1>2 DEF ShutdownInv, ShutdownTypes
<1>4. OpenIsKnown' /\ ReplacementIsNext'
  BY <1>1, <1>2 DEF ShutdownInv, OpenIsKnown, ReplacementIsNext
<1>5. UnusedAreRetired' /\ EntriesRun' /\ DrainIsOver' /\ KeptAreClosed'
  BY <1>1, <1>2 DEF ShutdownInv, UnusedAreRetired, EntriesRun, DrainIsOver, Draining,
                    KeptAreClosed, Runs, Up
<1>6. QED
  BY <1>3, <1>4, <1>5 DEF ShutdownInv

(* stop().                                                                 *)
LEMMA StopStartsKeeps == ASSUME ShutdownInv, StopStarts PROVE ShutdownInv'
<1>1. PICK k \in Stoppings : k = stopping
  BY DEF ShutdownInv, ShutdownTypes
<1>2. /\ UNCHANGED <<current, owner, leases, kept, entry, retire, failed, reconnect>>
      /\ stopping' = [k EXCEPT !.at = "draining"] /\ cancelled' = Pending
  BY <1>1 DEF StopStarts
<1>3. stopping' \in Stoppings /\ stopping'.at = "draining"
  BY <1>2 DEF Stoppings, Phases
<1>4. cancelled' \subseteq Generations \cup {Recovery}
  BY <1>2 DEF Pending
<1>5. ShutdownTypes'
  BY <1>2, <1>3, <1>4 DEF ShutdownInv, ShutdownTypes
<1>6. OpenIsKnown' /\ ReplacementIsNext'
  BY <1>2 DEF ShutdownInv, OpenIsKnown, ReplacementIsNext
<1>7. UnusedAreRetired' /\ EntriesRun' /\ DrainIsOver' /\ KeptAreClosed'
  BY <1>3 DEF UnusedAreRetired, EntriesRun, DrainIsOver, Draining, KeptAreClosed, Up
<1>8. QED
  BY <1>5, <1>6, <1>7 DEF ShutdownInv

LEMMA DrainedKeeps == ASSUME ShutdownInv, Drained PROVE ShutdownInv'
<1>1. PICK k \in Stoppings : k = stopping
  BY DEF ShutdownInv, ShutdownTypes
<1>2. /\ UNCHANGED <<current, owner, leases, kept, failed, tasks>>
      /\ stopping' = [k EXCEPT !.at = "closing", !.todo = kept]
      /\ reconnect.at # "establishing" /\ \A g \in Generations : ~Runs(g)
  BY <1>1 DEF Drained
<1>3. stopping' \in Stoppings /\ stopping'.at = "closing" /\ stopping'.todo = kept
  BY <1>2 DEF Stoppings, Phases, ShutdownInv, ShutdownTypes
<1>4. ShutdownTypes'
  BY <1>2, <1>3 DEF ShutdownInv, ShutdownTypes, tasks
<1>5. OpenIsKnown' /\ ReplacementIsNext'
  BY <1>2 DEF ShutdownInv, OpenIsKnown, ReplacementIsNext, tasks
<1>6. UnusedAreRetired' /\ EntriesRun' /\ DrainIsOver' /\ KeptAreClosed'
  BY <1>2, <1>3 DEF UnusedAreRetired, EntriesRun, DrainIsOver, Draining, KeptAreClosed, Up, Runs, tasks
<1>7. QED
  BY <1>4, <1>5, <1>6 DEF ShutdownInv

LEMMA StopLooksKeeps ==
  ASSUME NEW g \in Generations, ShutdownInv, StopLooks(g) PROVE ShutdownInv'
<1>1. PICK k \in Stoppings : k = stopping
  BY DEF ShutdownInv, ShutdownTypes
<1>2. ~Yielded(g)
  BY DEF StopLooks, Yielded, ShutdownInv, DrainIsOver, Draining
<1>3. /\ UNCHANGED <<current, leases, kept, failed, tasks>>
      /\ stopping' = [k EXCEPT !.todo = @ \ {g}, !.on = g] /\ k.at = "closing"
      /\ owner' = Asked(g)
  BY <1>1, <1>2 DEF StopLooks
<1>4. stopping' \in Stoppings /\ stopping'.at = "closing" /\ stopping'.todo = k.todo \ {g}
  BY <1>3 DEF Stoppings, Phases
<1>5. /\ owner' \in [Generations -> OwnerStates] /\ owner'[g] # "open"
      /\ \A h \in Generations : owner'[h] \in {owner[h], "closing"}
  BY <1>3, AskedIsClosing DEF ShutdownInv, ShutdownTypes
<1>6. ShutdownTypes'
  BY <1>3, <1>4, <1>5 DEF ShutdownInv, ShutdownTypes, tasks
<1>7. OpenIsKnown' /\ ReplacementIsNext'
  BY <1>3, <1>5 DEF ShutdownInv, OpenIsKnown, ReplacementIsNext, tasks
<1>8. UnusedAreRetired' /\ EntriesRun' /\ DrainIsOver'
  BY <1>1, <1>3, <1>4 DEF ShutdownInv, UnusedAreRetired, EntriesRun, DrainIsOver, Draining, Up, Runs, tasks
<1>9. KeptAreClosed'
  BY <1>1, <1>3, <1>4, <1>5 DEF ShutdownInv, ShutdownTypes, KeptAreClosed
<1>10. QED
  BY <1>6, <1>7, <1>8, <1>9 DEF ShutdownInv

LEMMA StopClosedKeeps == ASSUME ShutdownInv, StopClosed PROVE ShutdownInv'
<1>1. PICK k \in Stoppings : k = stopping
  BY DEF ShutdownInv, ShutdownTypes
<1>2. /\ UNCHANGED <<current, owner, leases, failed, tasks>>
      /\ stopping' = [k EXCEPT !.on = Nobody] /\ k.at = "closing"
      /\ owner[k.on] = "closed" /\ kept' \in {kept, kept \ {k.on}}
  BY <1>1 DEF StopClosed
<1>3. stopping' \in Stoppings /\ stopping'.at = "closing" /\ stopping'.todo = k.todo
  BY <1>2 DEF Stoppings, Phases
<1>4. kept' \subseteq kept /\ \A h \in kept : owner[h] = "open" => h \in kept'
  BY <1>2
<1>5. ShutdownTypes'
  BY <1>2, <1>3, <1>4 DEF ShutdownInv, ShutdownTypes, tasks
<1>6. OpenIsKnown' /\ ReplacementIsNext'
  BY <1>2, <1>4 DEF ShutdownInv, OpenIsKnown, ReplacementIsNext, tasks
<1>7. UnusedAreRetired' /\ EntriesRun' /\ DrainIsOver' /\ KeptAreClosed'
  BY <1>1, <1>2, <1>3, <1>4 DEF ShutdownInv, UnusedAreRetired, EntriesRun, DrainIsOver, Draining,
                                KeptAreClosed, Up, Runs, tasks
<1>8. QED
  BY <1>5, <1>6, <1>7 DEF ShutdownInv

LEMMA StopClosesLiveKeeps == ASSUME ShutdownInv, StopClosesLive PROVE ShutdownInv'
<1>1. PICK k \in Stoppings : k = stopping
  BY DEF ShutdownInv, ShutdownTypes
<1>2. /\ UNCHANGED <<current, leases, kept, failed, tasks>>
      /\ stopping' = [k EXCEPT !.at = "last"] /\ k.at = "closing" /\ k.todo = {}
      /\ owner' = Asked(current)
  BY <1>1 DEF StopClosesLive
<1>3. stopping' \in Stoppings /\ stopping'.at = "last"
  BY <1>2 DEF Stoppings, Phases
<1>4. /\ owner' \in [Generations -> OwnerStates] /\ owner'[current] # "open"
      /\ \A h \in Generations : owner'[h] \in {owner[h], "closing"}
  BY <1>2, AskedIsClosing DEF ShutdownInv, ShutdownTypes
<1>5. \A h \in Generations : owner'[h] # "open"
  BY <1>1, <1>2, <1>4 DEF ShutdownInv, OpenIsKnown, KeptAreClosed
<1>6. ShutdownTypes'
  BY <1>2, <1>3, <1>4 DEF ShutdownInv, ShutdownTypes, tasks
<1>7. OpenIsKnown' /\ ReplacementIsNext'
  BY <1>2, <1>4, <1>5 DEF ShutdownInv, OpenIsKnown, ReplacementIsNext, tasks
<1>8. UnusedAreRetired' /\ EntriesRun' /\ DrainIsOver' /\ KeptAreClosed'
  BY <1>1, <1>2, <1>3, <1>5 DEF ShutdownInv, UnusedAreRetired, EntriesRun, DrainIsOver, Draining,
                                KeptAreClosed, Up, Runs, tasks
<1>9. QED
  BY <1>6, <1>7, <1>8 DEF ShutdownInv

LEMMA StopEndsKeeps == ASSUME ShutdownInv, StopEnds PROVE ShutdownInv'
<1>1. PICK k \in Stoppings : k = stopping
  BY DEF ShutdownInv, ShutdownTypes
<1>2. /\ UNCHANGED <<current, owner, leases, kept, failed, tasks>>
      /\ stopping' = [k EXCEPT !.at = "stopped"] /\ k.at = "last"
  BY <1>1 DEF StopEnds
<1>3. stopping' \in Stoppings /\ stopping'.at = "stopped"
  BY <1>2 DEF Stoppings, Phases
<1>4. ShutdownTypes'
  BY <1>2, <1>3 DEF ShutdownInv, ShutdownTypes, tasks
<1>5. OpenIsKnown' /\ ReplacementIsNext'
  BY <1>2 DEF ShutdownInv, OpenIsKnown, ReplacementIsNext, tasks
<1>6. UnusedAreRetired' /\ EntriesRun' /\ DrainIsOver' /\ KeptAreClosed'
  BY <1>1, <1>2, <1>3 DEF ShutdownInv, UnusedAreRetired, EntriesRun, DrainIsOver, Draining,
                          KeptAreClosed, Up, Runs, tasks
<1>7. QED
  BY <1>4, <1>5, <1>6 DEF ShutdownInv

LEMMA ShutdownStep == ShutdownInv /\ [ShutdownNext]_shutdownVars => ShutdownInv'
<1> SUFFICES ASSUME ShutdownInv, [ShutdownNext]_shutdownVars PROVE ShutdownInv'
  OBVIOUS
<1>1. CASE Lease \/ Establish \/ RollBack \/ SwapGeneration \/ ReconnectEnds
  BY <1>1, LeaseKeeps, EstablishKeeps, RollBackKeeps, SwapKeeps, ReconnectEndsKeeps
<1>2. CASE StopStarts \/ Drained \/ StopClosed \/ StopClosesLive \/ StopEnds
  BY <1>2, StopStartsKeeps, DrainedKeeps, StopClosedKeeps, StopClosesLiveKeeps, StopEndsKeeps
<1>3. ASSUME NEW g \in Generations,
             \/ Unwinds(g) \/ Dies(g) \/ Unlease(g)
             \/ RetireRuns(g) \/ RetireFinishes(g) \/ RetireCancelled(g) \/ StopLooks(g)
      PROVE  ShutdownInv'
  BY <1>3, OwnerStepKeeps, UnleaseKeeps, RetireKeeps, StopLooksKeeps
<1>4. CASE UNCHANGED shutdownVars
  BY <1>4 DEF shutdownVars, tasks, ShutdownInv, ShutdownTypes, OpenIsKnown, ReplacementIsNext,
              UnusedAreRetired, EntriesRun, DrainIsOver, Draining, KeptAreClosed, Up, Runs
<1>5. QED
  BY <1>1, <1>2, <1>3, <1>4, Zenon DEF ShutdownNext
-----------------------------------------------------------------------------
(* A step of the manager is a step of one part and a stutter of the others.*)
LEMMA ManagerStepParts ==
  ASSUME [ManagerNext]_managerVars
  PROVE  /\ [PendingNext]_pendingVars /\ [RefreshNext]_refreshVars
         /\ [ExtractorNext]_extractorVars /\ [ShutdownNext]_shutdownVars
         /\ [ExposureNext]_exposureVars /\ [ConsultNext]_consultVars
BY Zenon DEF ManagerNext, managerVars, PendingMoves, RefreshMoves, ExtractorsMove, ShutdownMoves,
             ExposureMoves, ConsultMoves

LEMMA ManagerInitParts ==
  ManagerInit => PendingInit /\ RefreshInit /\ ExtractorInit /\ ShutdownInit /\ ExposureInit
                 /\ ConsultInit
BY DEF ManagerInit

(* Whatever closes fail or are cancelled, however passes and drains        *)
(* overlap: an extractor still open is in the slot or kept for the next    *)
(* pass, and a stop that has ended left no transport open.                 *)
THEOREM NothingStaysLeft == ManagerSpec => []NothingIsLeft
<1>1. ManagerInit => ExtractorInv /\ ShutdownInv
  BY ManagerInitParts, ExtractorInitInv, ShutdownInitInv
<1>2. (ExtractorInv /\ ShutdownInv) /\ [ManagerNext]_managerVars => (ExtractorInv /\ ShutdownInv)'
  BY ManagerStepParts, ExtractorStep, ShutdownStep
<1>3. ExtractorInv /\ ShutdownInv => NothingIsLeft
  BY ExtractorInvShows, ShutdownInvShows DEF NothingIsLeft
<1>4. QED
  BY <1>1, <1>2, <1>3, PTL DEF ManagerSpec
-----------------------------------------------------------------------------
(* The refreshes of an upstream's tools.                                   *)
TaskRecords ==
  [at : TaskStates, session : Sessions \cup {NoSession}, got : Versions \cup {NoListing},
   cut : BOOLEAN]
ServerRecords == [version : Versions, notices : Versions]
Openings == [session : Sessions \cup {NoSession}, got : Versions \cup {NoListing}]
Listings == [session : Sessions \cup {NoSession}, version : Versions]

RefreshTypes ==
  /\ server \in [Sessions -> ServerRecords]
  /\ opened \in Sessions \cup {0} /\ served \in Sessions \cup {NoSession}
  /\ tools \in Listings /\ opening \in Openings
  /\ dirty \in BOOLEAN /\ claimed \in BOOLEAN /\ registered \in Tasks \cup {NoTask}
  /\ task \in [Tasks -> TaskRecords]
  /\ manager \in {"up", "stopping", "restarting", "down"}
  /\ cached \subseteq UNION {Eligible(v) : v \in Versions}
  /\ missed \subseteq Sessions /\ unlisted \in BOOLEAN

NoticesAreChanges == \A s \in Sessions : server[s].notices <= server[s].version

(* Who lives is registered, and who is registered lives, but while the     *)
(* manager cancels.                                                        *)
OneIsRegistered ==
  /\ \A r \in Tasks : Alive(r) => registered = r
  /\ claimed <=> registered # NoTask
  /\ registered # NoTask => task[registered].at # "none"
  /\ manager \in {"up", "down"} /\ registered # NoTask => Alive(registered)

(* Sessions are opened, installed and asked in order.                      *)
SessionsAdvance ==
  /\ served # NoSession => tools.session = served
  /\ tools.session <= opened
  /\ opening.session = NoSession => opening.got = NoListing
  /\ opening.session # NoSession => opening.session = opened /\ tools.session < opened
  /\ manager \in {"down", "restarting"} => served = NoSession /\ opening.session = NoSession

Asks(r) == task[r].at \in {"asking", "answered"}

QuestionsAreOld ==
  \A r \in Tasks : Asks(r) => task[r].session # NoSession /\ task[r].session <= tools.session

(* What was listed is what the server had, and an answer is no older than  *)
(* the list it will replace.                                               *)
ListingsAreReal ==
  /\ tools.session # NoSession => tools.version <= server[tools.session].version
  /\ opening.got # NoListing => opening.got <= server[opening.session].version
  /\ \A r \in Tasks : task[r].at = "answered" =>
       /\ task[r].got # NoListing
       /\ task[r].got <= server[task[r].session].version
       /\ task[r].session = tools.session => tools.version <= task[r].got

(* A list that changed after it was listed was announced.                  *)
ChangesAreNoticed ==
  /\ opening.got # NoListing /\ opening.got # server[opening.session].version =>
       server[opening.session].notices > 0 \/ opening.session \in missed
  /\ \A r \in Tasks :
       /\ task[r].at = "answered" /\ task[r].session = served /\ served # NoSession
       /\ task[r].got # server[served].version
       => server[served].notices > 0 \/ dirty

RefreshInv ==
  /\ RefreshTypes /\ NoticesAreChanges /\ OneIsRegistered /\ SessionsAdvance
  /\ QuestionsAreOld /\ ListingsAreReal /\ ChangesAreNoticed /\ ListCatchesUp

LEMMA SessionFacts ==
  /\ \A s \in Sessions : s \in Nat /\ s > 0 /\ s # NoSession
  /\ \A v \in Versions : v \in Nat /\ v # NoListing
  /\ 0 \in Versions
BY RefreshAssumption DEF Sessions, NoSession, Versions, NoListing

LEMMA RefreshInvShows == RefreshInv => RefreshIsSound
<1> SUFFICES ASSUME RefreshInv PROVE RefreshIsSound
  OBVIOUS
<1>1. RefreshTypeOK
  BY DEF RefreshInv, RefreshTypes, RefreshTypeOK, TaskRecords, ServerRecords, Openings, Listings
<1>2. Cardinality({r \in Tasks : Alive(r)}) <= 1
  <2>1. {r \in Tasks : Alive(r)} \subseteq {registered}
    BY DEF RefreshInv, OneIsRegistered
  <2>2. Cardinality({registered}) = 1 /\ IsFiniteSet({registered})
    BY FS_Singleton
  <2>3. QED
    BY <2>1, <2>2, FS_Subset
<1>3. QED
  BY <1>1, <1>2 DEF RefreshInv, RefreshIsSound, OneRefresh, OneIsRegistered

LEMMA RefreshInitInv == RefreshInit => RefreshInv
<1> SUFFICES ASSUME RefreshInit PROVE RefreshInv
  OBVIOUS
<1>1. NewTask \in TaskRecords /\ NewTask.at = "none" /\ NotOpening \in Openings
      /\ NotOpening.got = NoListing /\ NotOpening.session = NoSession
  BY DEF NewTask, TaskRecords, TaskStates, NotOpening, Openings
<1>2. \A r \in Tasks : task[r] = NewTask /\ ~Alive(r) /\ ~Asks(r) /\ task[r].at # "answered"
  BY <1>1 DEF RefreshInit, Alive, Asks
<1>3. RefreshTypes
  <2>1. server \in [Sessions -> ServerRecords]
    BY SessionFacts DEF RefreshInit, ServerRecords
  <2>2. tools \in Listings
    BY SessionFacts DEF RefreshInit, Listings
  <2>3. QED
    BY <1>1, <2>1, <2>2 DEF RefreshInit, RefreshTypes, NoSession
<1>4. NoticesAreChanges
  BY DEF RefreshInit, NoticesAreChanges
<1>5. OneIsRegistered /\ QuestionsAreOld
  BY <1>2 DEF RefreshInit, OneIsRegistered, QuestionsAreOld
<1>6. SessionsAdvance
  BY <1>1 DEF RefreshInit, SessionsAdvance, NoSession
<1>7. ListingsAreReal /\ ChangesAreNoticed /\ ListCatchesUp
  BY <1>1, <1>2 DEF RefreshInit, ListingsAreReal, ChangesAreNoticed, ListCatchesUp, Outdated
<1>8. QED
  BY <1>3, <1>4, <1>5, <1>6, <1>7 DEF RefreshInv

(* The server's record of one session changes.                             *)
ServerBecomes(s, version, notices) ==
  /\ server' \in [Sessions -> ServerRecords]
  /\ server'[s].version = version /\ server'[s].notices = notices
  /\ \A x \in Sessions \ {s} : server'[x] = server[x]

LEMMA ServerUpdated ==
  ASSUME NEW s \in Sessions, NEW version \in Versions, NEW notices \in Versions,
         server \in [Sessions -> ServerRecords],
         server' = [server EXCEPT ![s] = [version |-> version, notices |-> notices]]
  PROVE  ServerBecomes(s, version, notices)
<1>1. [version |-> version, notices |-> notices] \in ServerRecords
  BY DEF ServerRecords
<1>2. QED
  BY <1>1 DEF ServerBecomes

LEMMA ChangesServer ==
  ASSUME NEW s \in Sessions, RefreshInv, Changes(s)
  PROVE  ServerBecomes(s, server[s].version + 1, server[s].notices + 1)
<1>1. PICK k \in ServerRecords : k = server[s]
  BY DEF RefreshInv, RefreshTypes
<1>2. k.version \in Versions /\ k.notices \in Versions /\ k.notices <= k.version
  BY <1>1 DEF RefreshInv, NoticesAreChanges, ServerRecords
<1>3. k.version < MaxVersion
  BY <1>1 DEF Changes
<1>4. k.version + 1 \in Versions /\ k.notices + 1 \in Versions
  BY <1>2, <1>3, RefreshAssumption DEF Versions
<1>5. [k EXCEPT !.version = @ + 1, !.notices = @ + 1]
        = [version |-> k.version + 1, notices |-> k.notices + 1]
  <2>1. PICK m : m = [k EXCEPT !.version = k.version + 1]
    OBVIOUS
  <2>2. m = [version |-> k.version + 1, notices |-> k.notices]
    BY <2>1 DEF ServerRecords
  <2>3. [m EXCEPT !.notices = k.notices + 1]
          = [version |-> k.version + 1, notices |-> k.notices + 1]
    BY <2>2
  <2>4. QED
    BY <2>1, <2>3, Zenon
<1>6. server' = [server EXCEPT ![s] = [version |-> k.version + 1, notices |-> k.notices + 1]]
  <2>1. server' = [server EXCEPT ![s] = [k EXCEPT !.version = @ + 1, !.notices = @ + 1]]
    BY <1>1 DEF Changes, RefreshInv, RefreshTypes
  <2>2. QED
    BY <1>5, <2>1
<1>7. QED
  BY <1>1, <1>4, <1>6, ServerUpdated DEF RefreshInv, RefreshTypes

LEMMA NoticeServer ==
  ASSUME NEW s \in Sessions, RefreshInv, Notified(s)
  PROVE  ServerBecomes(s, server[s].version, server[s].notices - 1)
<1>1. PICK k \in ServerRecords : k = server[s]
  BY DEF RefreshInv, RefreshTypes
<1>2. k.version \in Versions /\ k.notices \in Versions /\ k.notices > 0
  BY <1>1 DEF Notified, ServerRecords
<1>3. k.notices - 1 \in Versions
  BY <1>2, RefreshAssumption DEF Versions
<1>4. [k EXCEPT !.notices = @ - 1] = [version |-> k.version, notices |-> k.notices - 1]
  BY DEF ServerRecords
<1>5. server' = [server EXCEPT ![s] = [version |-> k.version, notices |-> k.notices - 1]]
  <2>1. server' = [server EXCEPT ![s] = [k EXCEPT !.notices = @ - 1]]
    BY <1>1 DEF Notified, RefreshInv, RefreshTypes
  <2>2. QED
    BY <1>4, <2>1
<1>6. QED
  BY <1>1, <1>2, <1>3, <1>5, ServerUpdated DEF RefreshInv, RefreshTypes

LEMMA SilencedServer ==
  ASSUME NEW s \in Sessions, RefreshInv, server' = Silenced(s)
  PROVE  ServerBecomes(s, server[s].version, 0)
<1>1. PICK k \in ServerRecords : k = server[s]
  BY DEF RefreshInv, RefreshTypes
<1>2. k.version \in Versions /\ 0 \in Versions
  BY SessionFacts DEF ServerRecords
<1>3. [k EXCEPT !.notices = 0] = [version |-> k.version, notices |-> 0]
  BY DEF ServerRecords
<1>4. server' = [server EXCEPT ![s] = [version |-> k.version, notices |-> 0]]
  <2>1. server' = [server EXCEPT ![s] = [k EXCEPT !.notices = 0]]
    BY <1>1 DEF Silenced, RefreshInv, RefreshTypes
  <2>2. QED
    BY <1>3, <2>1
<1>5. QED
  BY <1>1, <1>2, <1>4, ServerUpdated DEF RefreshInv, RefreshTypes

(* The list of the server changes.                                         *)
LEMMA ChangesKeeps == ASSUME NEW s \in Sessions, RefreshInv, Changes(s) PROVE RefreshInv'
<1>1. /\ server'[s].version = server[s].version + 1 /\ server'[s].notices = server[s].notices + 1
      /\ server' \in [Sessions -> ServerRecords]
      /\ \A x \in Sessions \ {s} : server'[x] = server[x]
  BY ChangesServer DEF ServerBecomes
<1>2. UNCHANGED <<opened, served, tools, opening, dirty, claimed, registered, task,
                  manager, cached, missed, unlisted>>
  BY DEF Changes
<1>3. \A x \in Sessions : server[x].version \in Nat /\ server[x].notices \in Nat
  BY SessionFacts DEF RefreshInv, RefreshTypes, ServerRecords
<1>4. /\ server'[s].notices > 0
      /\ \A x \in Sessions : server[x].version <= server'[x].version
  BY <1>1, <1>3
<1>5. \A v \in Versions : v \in Nat
  BY SessionFacts
<1>6. RefreshTypes'
  BY <1>1, <1>2 DEF RefreshInv, RefreshTypes
<1>7. NoticesAreChanges'
  BY <1>1, <1>3 DEF RefreshInv, NoticesAreChanges
<1>8. OneIsRegistered' /\ SessionsAdvance' /\ QuestionsAreOld'
  BY <1>2 DEF RefreshInv, OneIsRegistered, SessionsAdvance, QuestionsAreOld, Alive, Asks
<1>9. ListingsAreReal'
  <2>1. tools.session # NoSession => tools.session \in Sessions /\ tools.version \in Nat
    BY <1>5 DEF RefreshInv, RefreshTypes, Listings
  <2>2. opening.got # NoListing => opening.session \in Sessions /\ opening.got \in Nat
    BY <1>5 DEF RefreshInv, RefreshTypes, Openings, SessionsAdvance
  <2>3. \A r \in Tasks : task[r].at = "answered" /\ task[r].got # NoListing =>
          task[r].session \in Sessions /\ task[r].got \in Nat
    BY <1>5 DEF RefreshInv, RefreshTypes, TaskRecords, QuestionsAreOld, Asks
  <2>4. \A x \in Sessions : server'[x].version \in Nat
    BY <1>1, <1>3
  <2>5. QED
    BY <1>2, <1>3, <1>4, <2>1, <2>2, <2>3, <2>4 DEF RefreshInv, ListingsAreReal
<1>10. ChangesAreNoticed'
  <2>1. opening.got # NoListing => opening.session \in Sessions
    BY DEF RefreshInv, RefreshTypes, Openings, SessionsAdvance
  <2>2. served # NoSession => served \in Sessions
    BY DEF RefreshInv, RefreshTypes
  <2>3. QED
    BY <1>1, <1>2, <1>4, <2>1, <2>2 DEF RefreshInv, ChangesAreNoticed
<1>11. ListCatchesUp'
  <2>1. served # NoSession => served \in Sessions
    BY DEF RefreshInv, RefreshTypes
  <2>2. QED
    BY <1>1, <1>2, <1>4, <2>1 DEF RefreshInv, ListCatchesUp, Outdated, OnItsWay
<1>12. QED
  BY <1>6, <1>7, <1>8, <1>9, <1>10, <1>11 DEF RefreshInv

(* The record of one task changes.                                         *)
TaskBecomes(r, row) ==
  /\ task' \in [Tasks -> TaskRecords] /\ task'[r] = row
  /\ \A x \in Tasks \ {r} : task'[x] = task[x]

LEMMA TaskUpdated ==
  ASSUME NEW r \in Tasks, NEW row \in TaskRecords, task \in [Tasks -> TaskRecords],
         task' = [task EXCEPT ![r] = row]
  PROVE  TaskBecomes(r, row)
BY DEF TaskBecomes

\* A task that starts to ask.
AskingTask(s) == [NewTask EXCEPT !.at = "asking", !.session = s]
ReadyTask == [NewTask EXCEPT !.at = "ready"]

LEMMA TaskForms ==
  /\ NewTask \in TaskRecords /\ NewTask.at = "none"
  /\ ReadyTask \in TaskRecords /\ ReadyTask.at = "ready"
  /\ \A s \in Sessions \cup {NoSession} :
       /\ AskingTask(s) \in TaskRecords /\ AskingTask(s).at = "asking"
       /\ AskingTask(s).session = s
<1>1. NewTask \in TaskRecords /\ NewTask.at = "none" /\ NewTask.got \in Versions \cup {NoListing}
      /\ NewTask.cut = FALSE /\ NewTask.session = NoSession /\ NewTask.got = NoListing
  BY DEF NewTask, TaskRecords, TaskStates
<1>2. ReadyTask \in TaskRecords /\ ReadyTask.at = "ready"
  BY DEF ReadyTask, NewTask, TaskRecords, TaskStates
<1>3. ASSUME NEW s \in Sessions \cup {NoSession}
      PROVE  /\ AskingTask(s) \in TaskRecords /\ AskingTask(s).at = "asking"
             /\ AskingTask(s).session = s
  BY <1>3 DEF AskingTask, NewTask, TaskRecords, TaskStates
<1>4. QED
  BY <1>1, <1>2, <1>3

(* A notice marks the list, and gets it a task but while the manager stops.*)
Scheduled ==
  \/ /\ UNCHANGED <<claimed, registered, task>> /\ (claimed \/ manager = "stopping")
  \/ \E r \in Tasks :
       /\ ~claimed /\ manager # "stopping" /\ task[r].at = "none"
       /\ claimed' = TRUE /\ registered' = r /\ TaskBecomes(r, ReadyTask)

LEMMA NoticeSchedules ==
  ASSUME NEW s \in Sessions, RefreshInv, Notified(s) PROVE dirty' = TRUE /\ Scheduled
<1>1. ScheduleRefresh /\ task \in [Tasks -> TaskRecords]
  BY DEF Notified, RefreshInv, RefreshTypes
<1>2. dirty' = TRUE
  BY <1>1 DEF ScheduleRefresh, MarkedDirty
<1>3. CASE claimed \/ manager = "stopping"
  <2>1. UNCHANGED <<claimed, registered, task>>
    BY <1>1, <1>3, Zenon DEF ScheduleRefresh
  <2>2. QED
    BY <1>2, <1>3, <2>1 DEF Scheduled
<1>4. CASE ~(claimed \/ manager = "stopping")
  <2>1. PICK r \in Tasks : /\ task[r].at = "none" /\ claimed' = TRUE /\ registered' = r
                           /\ task' = [task EXCEPT ![r] = ReadyTask]
    BY <1>1, <1>4 DEF ScheduleRefresh, ReadyTask
  <2>2. TaskBecomes(r, ReadyTask)
    BY <1>1, <2>1, TaskForms, TaskUpdated
  <2>3. QED
    <3>1. ~claimed /\ manager # "stopping"
      BY <1>4
    <3>2. \E x \in Tasks :
            /\ ~claimed /\ manager # "stopping" /\ task[x].at = "none"
            /\ claimed' = TRUE /\ registered' = x /\ TaskBecomes(x, ReadyTask)
      BY <3>1, <2>1, <2>2, Zenon
    <3>3. QED
      BY <1>2, <3>2, Zenon DEF Scheduled
<1>5. QED
  BY <1>2, <1>3, <1>4

LEMMA NotifiedKeeps == ASSUME NEW s \in Sessions, RefreshInv, Notified(s) PROVE RefreshInv'
<1>1. /\ server'[s].version = server[s].version /\ server'[s].notices = server[s].notices - 1
      /\ server' \in [Sessions -> ServerRecords]
      /\ \A x \in Sessions \ {s} : server'[x] = server[x]
  BY NoticeServer DEF ServerBecomes
<1>2. /\ UNCHANGED <<opened, served, tools, opening, manager, cached, unlisted>>
      /\ missed' = IF s = served THEN missed ELSE missed \cup {s}
  BY DEF Notified
<1>3. dirty' = TRUE /\ Scheduled
  BY NoticeSchedules
<1>4. \A x \in Sessions : /\ server[x].version \in Nat /\ server[x].notices \in Nat
                          /\ server'[x].version = server[x].version
  BY <1>1, SessionFacts DEF RefreshInv, RefreshTypes, ServerRecords
<1>5. /\ claimed' \in BOOLEAN /\ registered' \in Tasks \cup {NoTask}
      /\ task' \in [Tasks -> TaskRecords] /\ (claimed => claimed')
      /\ \A r \in Tasks : Asks(r) \/ Asks(r)' => task'[r] = task[r]
  BY <1>3, TaskForms DEF RefreshInv, RefreshTypes, Scheduled, TaskBecomes, Asks
<1>6. RefreshTypes'
  BY <1>1, <1>2, <1>3, <1>5 DEF RefreshInv, RefreshTypes
<1>7. NoticesAreChanges'
  BY <1>1, <1>4 DEF RefreshInv, NoticesAreChanges
<1>8. OneIsRegistered'
  <2>1. CASE UNCHANGED <<claimed, registered, task>>
    BY <1>2, <2>1 DEF RefreshInv, OneIsRegistered, Alive
  <2>2. ASSUME NEW r \in Tasks, ~claimed, task[r].at = "none", claimed' = TRUE,
               registered' = r, TaskBecomes(r, ReadyTask)
        PROVE  OneIsRegistered'
    <3>1. task'[r].at = "ready" /\ r # NoTask
      BY <2>2, TaskForms, RefreshAssumption DEF TaskBecomes
    <3>2. \A x \in Tasks \ {r} : ~Alive(x) /\ task'[x] = task[x]
      BY <2>2, RefreshAssumption DEF RefreshInv, OneIsRegistered, TaskBecomes
    <3>3. QED
      BY <2>2, <3>1, <3>2 DEF OneIsRegistered, Alive
  <2>3. QED
    BY <1>3, <2>1, <2>2 DEF Scheduled
<1>9. SessionsAdvance'
  BY <1>2 DEF RefreshInv, SessionsAdvance
<1>10. QuestionsAreOld'
  BY <1>2, <1>5 DEF RefreshInv, QuestionsAreOld, Asks
<1>11. ListingsAreReal'
  <2>1. tools.session # NoSession => tools.session \in Sessions
    BY DEF RefreshInv, RefreshTypes, Listings
  <2>2. opening.got # NoListing => opening.session \in Sessions
    BY DEF RefreshInv, RefreshTypes, Openings, SessionsAdvance
  <2>3. \A r \in Tasks : task'[r].at = "answered" => task'[r] = task[r]
    BY <1>5 DEF Asks
  <2>4. \A r \in Tasks : task[r].at = "answered" => task[r].session \in Sessions
    BY DEF RefreshInv, RefreshTypes, TaskRecords, QuestionsAreOld, Asks
  <2>5. QED
    BY <1>2, <1>4, <2>1, <2>2, <2>3, <2>4 DEF RefreshInv, ListingsAreReal
<1>12. ChangesAreNoticed'
  <2>1. opening.got # NoListing => opening.session \in Sessions /\ opening.session # served
    <3>1. opening.got # NoListing => opening.session \in Sessions
      BY DEF RefreshInv, RefreshTypes, Openings, SessionsAdvance
    <3>2. served \in Nat /\ tools.session \in Nat /\ opened \in Nat
      BY SessionFacts DEF RefreshInv, RefreshTypes, Listings, NoSession
    <3>3. opening.session \in Sessions => opening.session = opened /\ tools.session < opened
            /\ opening.session # NoSession
      BY SessionFacts DEF RefreshInv, SessionsAdvance
    <3>4. QED
      BY <3>1, <3>2, <3>3 DEF RefreshInv, SessionsAdvance
  <2>2. \A r \in Tasks : task'[r].at = "answered" => task'[r] = task[r]
    BY <1>5 DEF Asks
  <2>3. served # NoSession => served \in Sessions
    BY DEF RefreshInv, RefreshTypes
  <2>4. opening.got # NoListing /\ opening.session = s => opening.session \in missed'
    BY <1>2, <2>1
  <2>5. missed \subseteq missed'
    BY <1>2
  <2>6. opening.got # NoListing /\ opening.got # server'[opening.session].version =>
          server'[opening.session].notices > 0 \/ opening.session \in missed'
    BY <1>1, <1>4, <2>1, <2>4, <2>5 DEF RefreshInv, ChangesAreNoticed
  <2>7. QED
    BY <1>2, <1>3, <2>6 DEF ChangesAreNoticed
<1>13. ListCatchesUp'
  <2> SUFFICES ASSUME Outdated' PROVE OnItsWay'
    BY Zenon DEF ListCatchesUp
  <2>1. manager = "up" /\ served \in Sessions
    BY <1>2 DEF Outdated, RefreshInv, RefreshTypes
  <2>2. claimed'
    BY <1>2, <1>3, <2>1 DEF Scheduled
  <2>3. QED
    BY <1>3, <2>2 DEF OnItsWay
<1>14. QED
  BY <1>6, <1>7, <1>8, <1>9, <1>10, <1>11, <1>12, <1>13 DEF RefreshInv

LEMMA RefreshNumbers ==
  ASSUME RefreshInv
  PROVE  /\ served \in Nat /\ tools.session \in Nat /\ tools.version \in Nat /\ opened \in Nat
         /\ opening.session \in Nat /\ NoSession = 0
         /\ served # NoSession => served \in Sessions
         /\ tools.session # NoSession => tools.session \in Sessions
         /\ opening.got # NoListing => opening.session # NoSession /\ opening.got \in Nat
         /\ opening.session # NoSession =>
              /\ opening.session \in Sessions /\ opening.session = opened
              /\ tools.session < opening.session /\ served < opening.session
         /\ \A x \in Sessions : server[x].version \in Nat /\ server[x].notices \in Nat
         /\ \A r \in Tasks : Asks(r) =>
              /\ task[r].session \in Sessions /\ task[r].session \in Nat
              /\ task[r].got # NoListing => task[r].got \in Nat
<1>1. /\ served \in Nat /\ tools.session \in Nat /\ tools.version \in Nat /\ opened \in Nat
      /\ opening.session \in Nat /\ NoSession = 0
  BY SessionFacts DEF RefreshInv, RefreshTypes, Listings, Openings, NoSession
<1>2. /\ served # NoSession => served \in Sessions
      /\ tools.session # NoSession => tools.session \in Sessions
      /\ opening.session # NoSession => opening.session \in Sessions
      /\ opening.got # NoListing => opening.got \in Nat
  BY SessionFacts DEF RefreshInv, RefreshTypes, Listings, Openings
<1>3. /\ opening.got # NoListing => opening.session # NoSession
      /\ opening.session # NoSession => opening.session = opened /\ tools.session < opening.session
      /\ served # NoSession => served = tools.session
  BY DEF RefreshInv, SessionsAdvance
<1>4. opening.session # NoSession => served < opening.session
  BY <1>1, <1>3
<1>5. \A x \in Sessions : server[x].version \in Nat /\ server[x].notices \in Nat
  BY SessionFacts DEF RefreshInv, RefreshTypes, ServerRecords
<1>6. ASSUME NEW r \in Tasks, Asks(r)
      PROVE  /\ task[r].session \in Sessions /\ task[r].session \in Nat
             /\ task[r].got # NoListing => task[r].got \in Nat
  BY <1>6, SessionFacts DEF RefreshInv, RefreshTypes, TaskRecords, QuestionsAreOld
<1>7. QED
  BY <1>1, <1>2, <1>3, <1>4, <1>5, <1>6

(* Connects and reconnects.                                                *)
LEMMA OpenSessionKeeps == ASSUME RefreshInv, OpenSession PROVE RefreshInv'
<1>1. /\ UNCHANGED <<server, served, tools, dirty, claimed, registered, task, manager,
                     cached, missed, unlisted>>
      /\ manager = "up" /\ opening = NotOpening /\ opened' = opened + 1 /\ opened' \in Sessions
      /\ opening' = [session |-> opened', got |-> NoListing]
  BY DEF OpenSession
<1>2. opening' \in Openings /\ opening'.session = opened' /\ opening'.got = NoListing
  BY <1>1 DEF Openings
<1>3. opened' \in Nat /\ opened' # NoSession /\ tools.session < opened'
  BY <1>1, RefreshNumbers, SessionFacts DEF RefreshInv, SessionsAdvance
<1>4. RefreshTypes'
  BY <1>1, <1>2 DEF RefreshInv, RefreshTypes
<1>5. NoticesAreChanges' /\ OneIsRegistered' /\ QuestionsAreOld'
  BY <1>1 DEF RefreshInv, NoticesAreChanges, OneIsRegistered, QuestionsAreOld, Alive, Asks
<1>6. SessionsAdvance'
  BY <1>1, <1>2, <1>3, RefreshNumbers DEF RefreshInv, SessionsAdvance
<1>7. ListingsAreReal' /\ ChangesAreNoticed' /\ ListCatchesUp'
  BY <1>1, <1>2 DEF RefreshInv, ListingsAreReal, ChangesAreNoticed, ListCatchesUp, Outdated, OnItsWay
<1>8. QED
  BY <1>4, <1>5, <1>6, <1>7 DEF RefreshInv

LEMMA ListOpeningKeeps == ASSUME RefreshInv, ListOpening PROVE RefreshInv'
<1>1. PICK k \in Openings : k = opening
  BY DEF RefreshInv, RefreshTypes
<1>2. /\ UNCHANGED <<server, opened, served, tools, dirty, claimed, registered, task,
                     manager, cached, missed, unlisted>>
      /\ k # NotOpening /\ k.got = NoListing
      /\ opening' = [k EXCEPT !.got = server[k.session].version]
  BY <1>1 DEF ListOpening
<1>3. k.session \in Sessions
  BY <1>2 DEF Openings, NotOpening
<1>4. server[k.session].version \in Versions /\ server[k.session].version \in Nat
  BY <1>3, SessionFacts DEF RefreshInv, RefreshTypes, ServerRecords
<1>5. opening' \in Openings /\ opening'.session = k.session
      /\ opening'.got = server[k.session].version
  BY <1>2, <1>4 DEF Openings
<1>6. RefreshTypes'
  BY <1>2, <1>5 DEF RefreshInv, RefreshTypes
<1>7. NoticesAreChanges' /\ OneIsRegistered' /\ QuestionsAreOld'
  BY <1>2 DEF RefreshInv, NoticesAreChanges, OneIsRegistered, QuestionsAreOld, Alive, Asks
<1>8. SessionsAdvance'
  BY <1>1, <1>2, <1>3, <1>5, SessionFacts DEF RefreshInv, SessionsAdvance
<1>9. ListingsAreReal' /\ ChangesAreNoticed' /\ ListCatchesUp'
  BY <1>2, <1>4, <1>5 DEF RefreshInv, ListingsAreReal, ChangesAreNoticed, ListCatchesUp, Outdated,
                          OnItsWay
<1>10. QED
  BY <1>6, <1>7, <1>8, <1>9 DEF RefreshInv

LEMMA InstallKeeps == ASSUME RefreshInv, Install PROVE RefreshInv'
<1>1. /\ UNCHANGED <<opened, dirty, claimed, registered, task, manager, cached, missed>>
      /\ opening.got # NoListing /\ served' = opening.session
      /\ tools' = [session |-> opening.session, version |-> opening.got]
      /\ opening' = NotOpening /\ unlisted' = FALSE
      /\ server' = IF served = NoSession THEN server ELSE Silenced(served)
  BY DEF Install
<1>2. /\ opening.session \in Sessions /\ opening.session \in Nat /\ opening.session = opened
      /\ served < opening.session /\ tools.session < opening.session /\ opening.got \in Nat
      /\ served \in Nat /\ tools.session \in Nat /\ opening.session # NoSession
  BY <1>1, RefreshNumbers
<1>3. /\ server' \in [Sessions -> ServerRecords]
      /\ \A x \in Sessions : server'[x].version = server[x].version /\ server'[x].notices \in Nat
                             /\ server'[x].notices <= server[x].notices
      /\ server'[opening.session] = server[opening.session]
  <2>1. CASE served = NoSession
    BY <1>1, <1>2, <2>1, RefreshNumbers DEF RefreshInv, RefreshTypes
  <2>2. CASE served # NoSession
    <3>1. ServerBecomes(served, server[served].version, 0)
      BY <1>1, <2>2, RefreshNumbers, SilencedServer
    <3>2. QED
      BY <1>2, <3>1, RefreshNumbers DEF ServerBecomes
  <2>3. QED
    BY <2>1, <2>2
<1>4. tools' \in Listings /\ tools'.session = opening.session /\ tools'.version = opening.got
  <2>1. opening.got \in Versions
    BY <1>1 DEF RefreshInv, RefreshTypes, Openings
  <2>2. QED
    BY <1>1, <1>2, <2>1 DEF Listings
<1>5. NotOpening \in Openings /\ NotOpening.session = NoSession /\ NotOpening.got = NoListing
  BY DEF NotOpening, Openings
<1>6. \A r \in Tasks : Asks(r) => task[r].session \in Nat /\ task[r].session < opening.session
                                  /\ task[r].session \in Sessions /\ task[r].session # NoSession
  BY <1>2, RefreshNumbers DEF RefreshInv, QuestionsAreOld
<1>7. RefreshTypes'
  BY <1>1, <1>2, <1>3, <1>4, <1>5 DEF RefreshInv, RefreshTypes
<1>8. NoticesAreChanges'
  BY <1>3, RefreshNumbers DEF RefreshInv, NoticesAreChanges
<1>9. OneIsRegistered'
  BY <1>1 DEF RefreshInv, OneIsRegistered, Alive
<1>10. SessionsAdvance'
  BY <1>1, <1>2, <1>4, <1>5 DEF RefreshInv, SessionsAdvance
<1>11. QuestionsAreOld'
  BY <1>1, <1>2, <1>4, <1>6 DEF QuestionsAreOld, Asks
<1>12. ListingsAreReal'
  <2>1. tools'.version <= server'[tools'.session].version
    BY <1>1, <1>2, <1>3, <1>4 DEF RefreshInv, ListingsAreReal
  <2>2. \A r \in Tasks : task[r].at = "answered" =>
          /\ task[r].got # NoListing /\ task[r].got <= server'[task[r].session].version
          /\ task[r].session # tools'.session
    BY <1>2, <1>3, <1>4, <1>6 DEF RefreshInv, ListingsAreReal, Asks
  <2>3. QED
    BY <1>1, <1>5, <2>1, <2>2 DEF ListingsAreReal
<1>13. ChangesAreNoticed'
  BY <1>1, <1>2, <1>5, <1>6 DEF ChangesAreNoticed, Asks
<1>14. ListCatchesUp'
  BY <1>1, <1>3, <1>4 DEF RefreshInv, ChangesAreNoticed, ListCatchesUp, Outdated, OnItsWay
<1>15. QED
  BY <1>7, <1>8, <1>9, <1>10, <1>11, <1>12, <1>13, <1>14 DEF RefreshInv

LEMMA OpenFailsKeeps == ASSUME RefreshInv, OpenFails PROVE RefreshInv'
<1>1. /\ UNCHANGED <<opened, served, tools, dirty, claimed, registered, task, manager,
                     cached, missed, unlisted>>
      /\ opening # NotOpening /\ opening' = NotOpening /\ server' = Silenced(opening.session)
  BY DEF OpenFails
<1>2. opening.session # NoSession
  BY <1>1 DEF RefreshInv, RefreshTypes, Openings, SessionsAdvance, NotOpening
<1>3. /\ opening.session \in Sessions /\ tools.session # opening.session
      /\ served # opening.session
  BY <1>2, RefreshNumbers
<1>4. ServerBecomes(opening.session, server[opening.session].version, 0)
  BY <1>1, <1>3, SilencedServer
<1>5. NotOpening \in Openings /\ NotOpening.session = NoSession /\ NotOpening.got = NoListing
  BY DEF NotOpening, Openings
<1>6. \A x \in Sessions : server'[x].version = server[x].version
  BY <1>4 DEF ServerBecomes
<1>7. RefreshTypes'
  BY <1>1, <1>4, <1>5 DEF RefreshInv, RefreshTypes, ServerBecomes
<1>8. NoticesAreChanges'
  BY <1>3, <1>4, RefreshNumbers DEF RefreshInv, NoticesAreChanges, ServerBecomes
<1>9. OneIsRegistered' /\ QuestionsAreOld'
  BY <1>1 DEF RefreshInv, OneIsRegistered, QuestionsAreOld, Alive, Asks
<1>10. SessionsAdvance'
  BY <1>1, <1>5 DEF RefreshInv, SessionsAdvance
<1>11. ListingsAreReal'
  BY <1>1, <1>5, <1>6, RefreshNumbers DEF RefreshInv, ListingsAreReal, Asks
<1>12. ChangesAreNoticed' /\ ListCatchesUp'
  <2>1. served # NoSession => server'[served] = server[served]
    BY <1>3, <1>4, RefreshNumbers DEF ServerBecomes
  <2>2. QED
    BY <1>1, <1>5, <2>1 DEF RefreshInv, ChangesAreNoticed, ListCatchesUp, Outdated, OnItsWay
<1>13. QED
  BY <1>7, <1>8, <1>9, <1>10, <1>11, <1>12 DEF RefreshInv

(* The rounds of a refresh task: it asks, or it ends and gives its claim   *)
(* back.                                                                   *)
RoundBegins(r) ==
  /\ dirty = TRUE /\ served # NoSession /\ TaskBecomes(r, AskingTask(served))
  /\ UNCHANGED <<registered, claimed>>

RoundsEnd(r) ==
  TaskBecomes(r, NewTask) /\ registered' = NoTask /\ claimed' = FALSE

LEMMA GivesBackIts ==
  ASSUME NEW r \in Tasks, RefreshInv, Alive(r), GivesBack(r)
  PROVE  registered' = NoTask /\ claimed' = FALSE
<1>1. registered = r
  BY DEF RefreshInv, OneIsRegistered
<1>2. registered' = NoTask
  BY <1>1 DEF GivesBack
<1>3. claimed' = FALSE
  BY <1>1, Zenon DEF GivesBack
<1>4. QED
  BY <1>2, <1>3

LEMMA LoopGoes ==
  ASSUME NEW r \in Tasks, RefreshInv, Alive(r), Loop(r)
  PROVE  /\ dirty' = FALSE
         /\ RoundBegins(r) \/ (RoundsEnd(r) /\ ~(dirty = TRUE /\ served # NoSession))
<1>1. dirty' = FALSE
  BY DEF Loop
<1>2. task \in [Tasks -> TaskRecords] /\ dirty \in BOOLEAN /\ served \in Sessions \cup {NoSession}
  BY DEF RefreshInv, RefreshTypes
<1>3. CASE dirty /\ served # NoSession
  <2>1. /\ task' = [task EXCEPT ![r] = AskingTask(served)]
        /\ UNCHANGED <<registered, claimed>>
    BY <1>3 DEF Loop, AskingTask
  <2>2. TaskBecomes(r, AskingTask(served))
    BY <1>2, <2>1, TaskForms, TaskUpdated
  <2>3. dirty = TRUE /\ served # NoSession
    BY <1>2, <1>3
  <2>4. QED
    BY <1>1, <2>1, <2>2, <2>3, Zenon DEF RoundBegins
<1>4. CASE ~(dirty /\ served # NoSession)
  <2>1. task' = [task EXCEPT ![r] = NewTask] /\ GivesBack(r)
    BY <1>4 DEF Loop
  <2>2. TaskBecomes(r, NewTask)
    BY <1>2, <2>1, TaskForms, TaskUpdated
  <2>3. RoundsEnd(r)
    BY <2>1, <2>2, GivesBackIts DEF RoundsEnd
  <2>4. ~(dirty = TRUE /\ served # NoSession)
    BY <1>2, <1>4
  <2>5. QED
    BY <1>1, <2>3, <2>4, Zenon
<1>5. QED
  BY <1>3, <1>4, Zenon

\* Nobody but r was alive, and now r asks or nobody is.
LEMMA RoundKeepsOne ==
  ASSUME NEW r \in Tasks, RefreshInv, Alive(r), manager' = manager,
         RoundBegins(r) \/ RoundsEnd(r)
  PROVE  /\ OneIsRegistered'
         /\ task' \in [Tasks -> TaskRecords] /\ claimed' \in BOOLEAN
         /\ registered' \in Tasks \cup {NoTask}
         /\ \A x \in Tasks \ {r} : ~Alive(x) /\ ~Asks(x) /\ task'[x] = task[x]
<1>1. registered = r /\ r # NoTask
  BY RefreshAssumption DEF RefreshInv, OneIsRegistered
<1>2. \A x \in Tasks \ {r} : ~Alive(x) /\ ~Asks(x) /\ task'[x] = task[x]
  BY <1>1 DEF RefreshInv, OneIsRegistered, Alive, Asks, RoundBegins, RoundsEnd, TaskBecomes
<1>3. CASE RoundBegins(r)
  <2>1. task'[r].at = "asking"
    BY <1>3, TaskForms DEF RoundBegins, TaskBecomes, RefreshInv, RefreshTypes
  <2>2. QED
    BY <1>1, <1>2, <1>3, <2>1 DEF RefreshInv, RefreshTypes, OneIsRegistered, Alive, RoundBegins, TaskBecomes
<1>4. CASE RoundsEnd(r)
  <2>1. task'[r].at = "none"
    BY <1>4, TaskForms DEF RoundsEnd, TaskBecomes
  <2>2. \A x \in Tasks : ~Alive(x)'
    BY <1>2, <2>1 DEF Alive
  <2>3. OneIsRegistered'
    BY <1>4, <2>2 DEF OneIsRegistered, RoundsEnd
  <2>4. QED
    BY <1>2, <1>4, <2>3 DEF RoundsEnd, TaskBecomes
<1>5. QED
  BY <1>3, <1>4

LEMMA BeginKeeps == ASSUME NEW r \in Tasks, RefreshInv, Begin(r) PROVE RefreshInv'
<1>1. /\ UNCHANGED <<server, opened, served, tools, opening, manager, cached, missed, unlisted>>
      /\ task[r].at = "ready" /\ Loop(r) /\ Alive(r) /\ ~Asks(r)
  BY DEF Begin, Alive, Asks
<1>2. /\ dirty' = FALSE
      /\ RoundBegins(r) \/ (RoundsEnd(r) /\ ~(dirty = TRUE /\ served # NoSession))
  BY <1>1, LoopGoes
<1>3. /\ OneIsRegistered'
      /\ task' \in [Tasks -> TaskRecords] /\ claimed' \in BOOLEAN
      /\ registered' \in Tasks \cup {NoTask}
      /\ \A x \in Tasks \ {r} : ~Asks(x) /\ task'[x] = task[x]
  BY <1>1, <1>2, RoundKeepsOne
<1>4. \A x \in Tasks : Asks(x)' => x = r /\ task'[r].at = "asking" /\ task'[r].session = served
                                   /\ served # NoSession
  BY <1>2, <1>3, TaskForms DEF RoundBegins, RoundsEnd, TaskBecomes, Asks, RefreshInv, RefreshTypes
<1>5. RefreshTypes'
  BY <1>1, <1>2, <1>3 DEF RefreshInv, RefreshTypes
<1>6. NoticesAreChanges' /\ SessionsAdvance'
  BY <1>1 DEF RefreshInv, NoticesAreChanges, SessionsAdvance
<1>7. QuestionsAreOld'
  BY <1>1, <1>4, RefreshNumbers DEF RefreshInv, QuestionsAreOld, SessionsAdvance
<1>8. ListingsAreReal'
  BY <1>1, <1>4 DEF RefreshInv, ListingsAreReal, Asks
<1>9. ChangesAreNoticed'
  BY <1>1, <1>4 DEF RefreshInv, ChangesAreNoticed, Asks
<1>10. ListCatchesUp'
  <2>1. CASE RoundBegins(r)
    BY <1>1, <2>1, TaskForms DEF RoundBegins, TaskBecomes, ListCatchesUp, OnItsWay, RefreshInv, RefreshTypes
  <2>2. CASE RoundsEnd(r) /\ ~(dirty = TRUE /\ served # NoSession)
    <3> SUFFICES ASSUME Outdated', ~unlisted', served' \notin missed' PROVE OnItsWay'
      BY Zenon DEF ListCatchesUp
    <3>1. Outdated /\ ~unlisted /\ served \notin missed
      BY <1>1 DEF Outdated
    <3>2. OnItsWay /\ served # NoSession
      BY <3>1 DEF RefreshInv, ListCatchesUp, Outdated
    <3>3. ~dirty
      BY <2>2, <3>2 DEF RefreshInv, RefreshTypes
    <3>4. server[served].notices > 0
      BY <1>1, <1>3, <3>2, <3>3 DEF OnItsWay, Asks
    <3>5. QED
      BY <1>1, <3>4 DEF OnItsWay
  <2>3. QED
    BY <1>2, <2>1, <2>2
<1>11. QED
  BY <1>3, <1>5, <1>6, <1>7, <1>8, <1>9, <1>10 DEF RefreshInv

LEMMA ApplyKeeps ==
  ASSUME NEW r \in Tasks, RefreshInv, Apply(r)
  PROVE  /\ RefreshInv'
         /\ tools' # tools => tools'.session = tools.session /\ tools'.version >= tools.version
<1>1. /\ UNCHANGED <<server, opened, served, opening, manager>>
      /\ task[r].at = "answered" /\ Loop(r) /\ Alive(r) /\ Asks(r)
  BY DEF Apply, Alive, Asks
<1>2. /\ dirty' = FALSE
      /\ RoundBegins(r) \/ (RoundsEnd(r) /\ ~(dirty = TRUE /\ served # NoSession))
  BY <1>1, LoopGoes
<1>3. /\ OneIsRegistered'
      /\ task' \in [Tasks -> TaskRecords] /\ claimed' \in BOOLEAN
      /\ registered' \in Tasks \cup {NoTask}
      /\ \A x \in Tasks \ {r} : ~Asks(x) /\ task'[x] = task[x]
  BY <1>1, <1>2, RoundKeepsOne
<1>4. \A x \in Tasks : Asks(x)' => x = r /\ task'[r].at = "asking" /\ task'[r].session = served
                                   /\ served # NoSession
  BY <1>2, <1>3, TaskForms DEF RoundBegins, RoundsEnd, TaskBecomes, Asks, RefreshInv, RefreshTypes
<1>5. /\ task[r].session \in Sessions /\ task[r].got # NoListing /\ task[r].got \in Nat
      /\ task[r].got <= server[task[r].session].version
      /\ task[r].session = tools.session => tools.version <= task[r].got
      /\ tools.version \in Nat
  BY <1>1, RefreshNumbers DEF RefreshInv, ListingsAreReal
<1>6. task[r].got \in Versions
  BY <1>5 DEF RefreshInv, RefreshTypes, TaskRecords
<1>7. \/ /\ Current(r) /\ tools' = [session |-> task[r].session, version |-> task[r].got]
         /\ missed' = missed \ {served} /\ unlisted' = FALSE
         /\ cached' \subseteq cached
      \/ ~Current(r) /\ UNCHANGED <<tools, cached, missed, unlisted>>
  BY DEF Apply
<1>8. Current(r) => /\ tools'.session = tools.session /\ tools'.version = task[r].got
                    /\ tools' \in Listings /\ tools.session = task[r].session
                    /\ served = task[r].session /\ served # NoSession
  <2>1. Current(r) => /\ served = task[r].session /\ served # NoSession
                      /\ tools.session = task[r].session
    BY DEF Current, RefreshInv, SessionsAdvance
  <2>2. [session |-> task[r].session, version |-> task[r].got] \in Listings
    BY <1>5, <1>6 DEF Listings
  <2>3. QED
    BY <1>7, <2>1, <2>2
<1>9. tools' # tools => tools'.session = tools.session /\ tools'.version >= tools.version
  BY <1>5, <1>7, <1>8
<1>10. tools'.session = tools.session /\ tools' \in Listings
  BY <1>7, <1>8 DEF RefreshInv, RefreshTypes
<1>11. RefreshTypes'
  BY <1>1, <1>2, <1>3, <1>7, <1>10 DEF RefreshInv, RefreshTypes
<1>12. NoticesAreChanges' /\ SessionsAdvance'
  BY <1>1, <1>10 DEF RefreshInv, NoticesAreChanges, SessionsAdvance
<1>13. QuestionsAreOld'
  BY <1>1, <1>4, <1>10, RefreshNumbers DEF RefreshInv, QuestionsAreOld, SessionsAdvance
<1>14. ListingsAreReal'
  <2>1. tools'.session # NoSession => tools'.version <= server[tools'.session].version
    BY <1>5, <1>7, <1>8 DEF RefreshInv, ListingsAreReal
  <2>2. QED
    BY <1>1, <1>4, <2>1 DEF RefreshInv, ListingsAreReal, Asks
<1>15. ChangesAreNoticed'
  <2>1. opening.got # NoListing => opening.session # served
    BY RefreshNumbers
  <2>2. \A x : x \in missed /\ x # served => x \in missed'
    BY <1>7
  <2>3. QED
    BY <1>1, <1>4, <2>1, <2>2 DEF RefreshInv, ChangesAreNoticed, Asks
<1>16. ListCatchesUp'
  <2>1. CASE RoundBegins(r)
    BY <1>1, <2>1, TaskForms DEF RoundBegins, TaskBecomes, ListCatchesUp, OnItsWay, RefreshInv, RefreshTypes
  <2>2. CASE RoundsEnd(r) /\ ~(dirty = TRUE /\ served # NoSession)
    <3> SUFFICES ASSUME Outdated', ~unlisted', served' \notin missed' PROVE server[served].notices > 0
      BY <1>1, Zenon DEF ListCatchesUp, OnItsWay
    <3>1. served # NoSession /\ manager = "up" /\ tools'.version # server[served].version
      BY <1>1 DEF Outdated
    <3>2. ~dirty
      BY <2>2, <3>1 DEF RefreshInv, RefreshTypes
    <3>3. CASE Current(r)
      BY <1>1, <1>8, <3>1, <3>2, <3>3 DEF RefreshInv, ChangesAreNoticed
    <3>4. CASE ~Current(r)
      <4>1. Outdated /\ ~unlisted /\ served \notin missed
        BY <1>1, <1>7, <3>1, <3>4 DEF Outdated
      <4>2. task[r].session # served
        BY <3>1, <3>4 DEF Current
      <4>3. QED
        BY <1>3, <3>2, <4>1, <4>2 DEF RefreshInv, ListCatchesUp, OnItsWay, Asks
    <3>5. QED
      BY <3>3, <3>4
  <2>3. QED
    BY <1>2, <2>1, <2>2
<1>17. QED
  BY <1>3, <1>9, <1>11, <1>12, <1>13, <1>14, <1>15, <1>16 DEF RefreshInv

LEMMA AnswerKeeps == ASSUME NEW r \in Tasks, RefreshInv, Answer(r) PROVE RefreshInv'
<1>1. PICK k \in TaskRecords : k = task[r]
  BY DEF RefreshInv, RefreshTypes
<1>2. /\ UNCHANGED <<server, opened, served, tools, opening, dirty, claimed, registered,
                     manager, cached, missed, unlisted>>
      /\ task[r].at = "asking" /\ Asks(r) /\ Alive(r)
      /\ task[r].session \in {served, opening.session}
  BY DEF Answer, Asks, Alive
<1>3. task[r].session \in Sessions /\ task[r].session = served /\ served # NoSession
      /\ tools.session = served
  <2>1. task[r].session \in Sessions /\ task[r].session <= tools.session
        /\ task[r].session # NoSession /\ task[r].session \in Nat
    BY <1>2, RefreshNumbers DEF RefreshInv, QuestionsAreOld
  <2>2. task[r].session # opening.session
    BY <2>1, RefreshNumbers
  <2>3. QED
    BY <1>2, <2>1, <2>2 DEF RefreshInv, SessionsAdvance
<1>4. PICK v \in Versions : v = server[served].version
  BY <1>3 DEF RefreshInv, RefreshTypes, ServerRecords
<1>5. v \in Nat /\ v # NoListing
  BY SessionFacts
<1>6. PICK m : m = [k EXCEPT !.at = "answered"]
  OBVIOUS
<1>7. m \in TaskRecords /\ m.at = "answered" /\ m.session = k.session
  BY <1>6 DEF TaskRecords, TaskStates
<1>8. PICK n : n = [m EXCEPT !.got = v]
  OBVIOUS
<1>9. n \in TaskRecords /\ n.at = "answered" /\ n.session = k.session /\ n.got = v
  BY <1>7, <1>8 DEF TaskRecords
<1>10. TaskBecomes(r, n)
  <2>1. server[task[r].session].version = v
    BY <1>3, <1>4
  <2>2. task \in [Tasks -> TaskRecords]
    BY DEF RefreshInv, RefreshTypes
  <2>3. task' = [task EXCEPT ![r] = [task[r] EXCEPT !.at = "answered", !.got = v]]
    BY <2>1, Zenon DEF Answer
  <2>4. task' = [task EXCEPT ![r] = n]
    BY <1>1, <1>6, <1>8, <2>3, Zenon
  <2>5. QED
    BY <1>9, <2>2, <2>4, TaskUpdated
<1>11. \A x \in Tasks \ {r} : ~Alive(x) /\ ~Asks(x) /\ task'[x] = task[x]
  BY <1>2, <1>10 DEF TaskBecomes, RefreshInv, OneIsRegistered, Alive, Asks
<1>12. task'[r].at = "answered" /\ task'[r].session = served /\ task'[r].got = v
  BY <1>1, <1>3, <1>9, <1>10 DEF TaskBecomes
<1>13. RefreshTypes'
  BY <1>2, <1>10 DEF RefreshInv, RefreshTypes, TaskBecomes
<1>14. NoticesAreChanges' /\ SessionsAdvance'
  BY <1>2 DEF RefreshInv, NoticesAreChanges, SessionsAdvance
<1>15. OneIsRegistered'
  BY <1>2, <1>11, <1>12 DEF RefreshInv, OneIsRegistered, Alive
<1>16. QuestionsAreOld'
  BY <1>2, <1>3, <1>11, <1>12, RefreshNumbers DEF QuestionsAreOld, Asks
<1>17. ListingsAreReal'
  BY <1>2, <1>3, <1>4, <1>5, <1>11, <1>12 DEF RefreshInv, ListingsAreReal, Asks
<1>18. ChangesAreNoticed'
  BY <1>2, <1>4, <1>11, <1>12 DEF RefreshInv, ChangesAreNoticed, Asks
<1>19. ListCatchesUp'
  BY <1>2, <1>4, <1>12 DEF ListCatchesUp, OnItsWay
<1>20. QED
  BY <1>13, <1>14, <1>15, <1>16, <1>17, <1>18, <1>19 DEF RefreshInv

LEMMA AnswerFailsKeeps == ASSUME NEW r \in Tasks, RefreshInv, AnswerFails(r) PROVE RefreshInv'
<1>1. /\ UNCHANGED <<server, opened, served, tools, opening, dirty, manager, cached, missed>>
      /\ Alive(r) /\ GivesBack(r) /\ unlisted' = TRUE
      /\ task' = [task EXCEPT ![r] = NewTask]
  BY DEF AnswerFails, Alive
<1>2. RoundsEnd(r)
  BY <1>1, GivesBackIts, TaskForms, TaskUpdated DEF RoundsEnd, RefreshInv, RefreshTypes
<1>3. /\ OneIsRegistered'
      /\ task' \in [Tasks -> TaskRecords] /\ claimed' \in BOOLEAN
      /\ registered' \in Tasks \cup {NoTask}
      /\ \A x \in Tasks \ {r} : ~Asks(x) /\ task'[x] = task[x]
  BY <1>1, <1>2, RoundKeepsOne
<1>4. \A x \in Tasks : task'[x].at \notin {"asking", "answered"}
  BY <1>2, <1>3, TaskForms DEF RoundsEnd, TaskBecomes, Asks
<1>5. RefreshTypes'
  BY <1>1, <1>3 DEF RefreshInv, RefreshTypes
<1>6. NoticesAreChanges' /\ SessionsAdvance'
  BY <1>1 DEF RefreshInv, NoticesAreChanges, SessionsAdvance
<1>7. QuestionsAreOld' /\ ListingsAreReal' /\ ChangesAreNoticed'
  BY <1>1, <1>4 DEF RefreshInv, QuestionsAreOld, ListingsAreReal, ChangesAreNoticed, Asks
<1>8. ListCatchesUp'
  BY <1>1 DEF ListCatchesUp
<1>9. QED
  BY <1>3, <1>5, <1>6, <1>7, <1>8 DEF RefreshInv

LEMMA EndedKeeps == ASSUME NEW r \in Tasks, RefreshInv, Ended(r) PROVE RefreshInv'
<1>1. /\ UNCHANGED <<server, opened, served, tools, opening, dirty, manager, cached, missed,
                     unlisted>>
      /\ task[r].at = "ended" /\ ~Alive(r) /\ ~Asks(r) /\ GivesBack(r)
      /\ task' = [task EXCEPT ![r] = NewTask]
  BY DEF Ended, Alive, Asks
<1>2. TaskBecomes(r, NewTask) /\ task'[r].at = "none"
  BY <1>1, TaskForms, TaskUpdated DEF RefreshInv, RefreshTypes, TaskBecomes
<1>3. \A x \in Tasks : Alive(x)' => x # r /\ task'[x] = task[x] /\ Alive(x)
  BY <1>2 DEF TaskBecomes, Alive
<1>4. \A x \in Tasks : Asks(x) \/ Asks(x)' => task'[x] = task[x]
  BY <1>1, <1>2 DEF TaskBecomes, Asks
<1>5. \/ /\ registered = r /\ registered' = NoTask /\ claimed' = FALSE
      \/ registered # r /\ registered' = registered /\ claimed' = claimed
  <2>1. CASE registered = r
    <3>1. claimed' = FALSE
      BY <1>1, <2>1, Zenon DEF GivesBack
    <3>2. QED
      BY <1>1, <2>1, <3>1 DEF GivesBack
  <2>2. CASE registered # r
    <3>1. claimed \in BOOLEAN
      BY DEF RefreshInv, RefreshTypes
    <3>2. claimed' = claimed
      BY <1>1, <2>2, <3>1 DEF GivesBack
    <3>3. QED
      BY <1>1, <2>2, <3>2 DEF GivesBack
  <2>3. QED
    BY <2>1, <2>2
<1>6. manager = "up" => registered # r
  BY <1>1, RefreshAssumption DEF RefreshInv, OneIsRegistered
<1>7. RefreshTypes'
  BY <1>1, <1>2, <1>5 DEF RefreshInv, RefreshTypes, TaskBecomes
<1>8. NoticesAreChanges' /\ SessionsAdvance'
  BY <1>1 DEF RefreshInv, NoticesAreChanges, SessionsAdvance
<1>9. OneIsRegistered'
  <2>1. CASE registered = r
    <3>1. \A x \in Tasks : ~Alive(x)'
      BY <1>3, <2>1 DEF RefreshInv, OneIsRegistered
    <3>2. QED
      BY <1>5, <2>1, <3>1 DEF OneIsRegistered
  <2>2. CASE registered # r
    <3>1. registered # NoTask => task'[registered] = task[registered]
      BY <1>2, <2>2 DEF TaskBecomes, RefreshInv, RefreshTypes
    <3>2. QED
      BY <1>1, <1>3, <1>5, <2>2, <3>1 DEF RefreshInv, OneIsRegistered, Alive
  <2>3. QED
    BY <2>1, <2>2
<1>10. QuestionsAreOld' /\ ListingsAreReal' /\ ChangesAreNoticed'
  BY <1>1, <1>4 DEF RefreshInv, QuestionsAreOld, ListingsAreReal, ChangesAreNoticed, Asks
<1>11. ListCatchesUp'
  <2> SUFFICES ASSUME Outdated', ~unlisted', served' \notin missed' PROVE OnItsWay'
    BY Zenon DEF ListCatchesUp
  <2>1. Outdated /\ ~unlisted /\ served \notin missed /\ manager = "up"
    BY <1>1 DEF Outdated
  <2>2. claimed' = claimed /\ OnItsWay
    BY <1>5, <1>6, <2>1 DEF RefreshInv, ListCatchesUp
  <2>3. QED
    BY <1>1, <1>4, <2>2 DEF OnItsWay, Asks
<1>12. QED
  BY <1>7, <1>8, <1>9, <1>10, <1>11 DEF RefreshInv

LEMMA CachedKeeps ==
  ASSUME NEW v \in Versions, NEW t \in Eligible(v), RefreshInv, Cached(t) PROVE RefreshInv'
<1>1. /\ UNCHANGED <<server, opened, served, tools, opening, dirty, claimed, registered,
                     task, manager, missed, unlisted>>
      /\ cached' = cached \cup {t}
  BY DEF Cached
<1>2. RefreshTypes'
  BY <1>1 DEF RefreshInv, RefreshTypes
<1>3. QED
  BY <1>1, <1>2 DEF RefreshInv, NoticesAreChanges, OneIsRegistered, SessionsAdvance,
       QuestionsAreOld, ListingsAreReal, ChangesAreNoticed, ListCatchesUp, Outdated, OnItsWay,
       Alive, Asks

(* Stops and starts of the manager.                                        *)
LEMMA CutKeeps ==
  ASSUME RefreshInv, CutTasks
  PROVE  /\ task' \in [Tasks -> TaskRecords]
         /\ \A r \in Tasks : /\ task'[r].session = task[r].session /\ task'[r].got = task[r].got
                             /\ Alive(r)' => Alive(r)
                             /\ Asks(r)' <=> Asks(r)
                             /\ task'[r].at = "asking" <=> task[r].at = "asking"
                             /\ task'[r].at = "answered" <=> task[r].at = "answered"
                             /\ task[r].at # "none" => task'[r].at # "none"
<1>1. ASSUME NEW r \in Tasks
      PROVE  /\ task'[r] \in TaskRecords
             /\ task'[r].session = task[r].session /\ task'[r].got = task[r].got
             /\ \/ task[r].at = "ready" /\ task'[r].at = "ended"
                \/ task[r].at # "ready" /\ task'[r].at = task[r].at
  <2>1. PICK k \in TaskRecords : k = task[r]
    BY DEF RefreshInv, RefreshTypes
  <2>2. task'[r] = CASE k.at = "ready" -> [k EXCEPT !.at = "ended"]
                     [] k.at \in {"asking", "answered"} -> [k EXCEPT !.cut = TRUE]
                     [] OTHER -> k
    BY <2>1 DEF CutTasks
  <2>3. /\ [k EXCEPT !.at = "ended"] \in TaskRecords
        /\ [k EXCEPT !.at = "ended"].at = "ended"
        /\ [k EXCEPT !.at = "ended"].session = k.session
        /\ [k EXCEPT !.at = "ended"].got = k.got
    BY DEF TaskRecords, TaskStates
  <2>4. /\ [k EXCEPT !.cut = TRUE] \in TaskRecords
        /\ [k EXCEPT !.cut = TRUE].at = k.at
        /\ [k EXCEPT !.cut = TRUE].session = k.session
        /\ [k EXCEPT !.cut = TRUE].got = k.got
    BY DEF TaskRecords
  <2>5. CASE k.at = "ready"
    BY <2>1, <2>2, <2>3, <2>5
  <2>6. CASE k.at \in {"asking", "answered"}
    BY <2>1, <2>2, <2>4, <2>6
  <2>7. CASE k.at \notin {"ready", "asking", "answered"}
    BY <2>1, <2>2, <2>7
  <2>8. QED
    BY <2>5, <2>6, <2>7
<1>2. task' \in [Tasks -> TaskRecords]
  BY <1>1 DEF CutTasks
<1>3. QED
  BY <1>1, <1>2 DEF Alive, Asks

LEMMA StopKeeps == ASSUME RefreshInv, Stop PROVE RefreshInv'
<1>1. /\ UNCHANGED <<server, opened, served, tools, opening, dirty, claimed, registered,
                     cached, missed, unlisted>>
      /\ manager = "up" /\ manager' = "stopping" /\ CutTasks
  BY DEF Stop
<1>2. RefreshTypes'
  BY <1>1, CutKeeps DEF RefreshInv, RefreshTypes
<1>3. OneIsRegistered'
  BY <1>1, CutKeeps DEF RefreshInv, RefreshTypes, OneIsRegistered
<1>4. NoticesAreChanges' /\ SessionsAdvance'
  BY <1>1 DEF RefreshInv, NoticesAreChanges, SessionsAdvance
<1>5. QuestionsAreOld' /\ ListingsAreReal' /\ ChangesAreNoticed'
  BY <1>1, CutKeeps DEF RefreshInv, QuestionsAreOld, ListingsAreReal, ChangesAreNoticed
<1>6. ListCatchesUp'
  BY <1>1 DEF ListCatchesUp, Outdated
<1>7. QED
  BY <1>2, <1>3, <1>4, <1>5, <1>6 DEF RefreshInv

LEMMA StartAgainKeeps == ASSUME RefreshInv, StartAgain PROVE RefreshInv'
<1>1. /\ UNCHANGED <<opened, tools, opening, claimed, registered, cached, missed, unlisted>>
      /\ manager' = "restarting" /\ CutTasks /\ opening = NotOpening
      /\ served' = NoSession /\ dirty' = FALSE
      /\ server' = IF served = NoSession THEN server ELSE Silenced(served)
  BY DEF StartAgain
<1>2. NotOpening.session = NoSession /\ NotOpening.got = NoListing
  BY DEF NotOpening
<1>3. /\ server' \in [Sessions -> ServerRecords]
      /\ \A x \in Sessions : /\ server'[x].version = server[x].version
                             /\ server'[x].notices <= server'[x].version
  <2>1. CASE served = NoSession
    BY <1>1, <2>1 DEF RefreshInv, RefreshTypes, NoticesAreChanges
  <2>2. CASE served # NoSession
    <3>1. ServerBecomes(served, server[served].version, 0)
      BY <1>1, <2>2, RefreshNumbers, SilencedServer
    <3>2. QED
      BY <3>1, RefreshNumbers DEF ServerBecomes, RefreshInv, NoticesAreChanges
  <2>3. QED
    BY <2>1, <2>2
<1>4. RefreshTypes'
  BY <1>1, <1>3, CutKeeps DEF RefreshInv, RefreshTypes
<1>5. OneIsRegistered'
  BY <1>1, CutKeeps DEF RefreshInv, RefreshTypes, OneIsRegistered
<1>6. NoticesAreChanges'
  BY <1>3 DEF NoticesAreChanges
<1>7. SessionsAdvance'
  BY <1>1, <1>2 DEF RefreshInv, SessionsAdvance
<1>8. QuestionsAreOld'
  BY <1>1, CutKeeps DEF RefreshInv, QuestionsAreOld
<1>9. ListingsAreReal'
  BY <1>1, <1>2, <1>3, CutKeeps, RefreshNumbers DEF RefreshInv, ListingsAreReal, Asks
<1>10. ChangesAreNoticed' /\ ListCatchesUp'
  BY <1>1, <1>2 DEF ChangesAreNoticed, ListCatchesUp, Outdated
<1>11. QED
  BY <1>4, <1>5, <1>6, <1>7, <1>8, <1>9, <1>10 DEF RefreshInv

LEMMA StoppedKeeps == ASSUME RefreshInv, Stopped PROVE RefreshInv'
<1>1. /\ UNCHANGED <<opened, tools, task, cached, missed, unlisted>>
      /\ manager' \in {"down", "up"} /\ served' = NoSession /\ opening' = NotOpening
      /\ KeptClaims
      /\ server' = [s \in Sessions |-> [server[s] EXCEPT !.notices = 0]]
  BY DEF Stopped
<1>2. dirty' \in BOOLEAN
  BY DEF Stopped
<1>3. NotOpening \in Openings /\ NotOpening.session = NoSession /\ NotOpening.got = NoListing
  BY DEF NotOpening, Openings
<1>4. /\ server' \in [Sessions -> ServerRecords]
      /\ \A x \in Sessions : /\ server'[x].version = server[x].version
                             /\ server'[x].notices = 0
  <2>1. ASSUME NEW x \in Sessions
        PROVE  /\ server'[x] \in ServerRecords
               /\ server'[x].version = server[x].version /\ server'[x].notices = 0
    <3>1. PICK k \in ServerRecords : k = server[x]
      BY DEF RefreshInv, RefreshTypes
    <3>2. server'[x] = [k EXCEPT !.notices = 0]
      BY <1>1, <3>1
    <3>3. QED
      BY <3>1, <3>2, SessionFacts DEF ServerRecords
  <2>2. QED
    BY <1>1, <2>1
<1>5. \/ /\ registered # NoTask /\ Alive(registered) /\ registered' = registered
         /\ claimed' = claimed
      \/ /\ ~(registered # NoTask /\ Alive(registered)) /\ registered' = NoTask
         /\ claimed' = FALSE
  <2>1. CASE registered # NoTask /\ Alive(registered)
    <3>1. claimed \in BOOLEAN
      BY DEF RefreshInv, RefreshTypes
    <3>2. claimed' = claimed
      BY <1>1, <2>1, <3>1 DEF KeptClaims
    <3>3. QED
      BY <1>1, <2>1, <3>2 DEF KeptClaims
  <2>2. CASE ~(registered # NoTask /\ Alive(registered))
    <3>1. claimed' = FALSE
      BY <1>1, <2>2, Zenon DEF KeptClaims
    <3>2. QED
      BY <1>1, <2>2, <3>1 DEF KeptClaims
  <2>3. QED
    BY <2>1, <2>2
<1>6. RefreshTypes'
  BY <1>1, <1>2, <1>3, <1>4, <1>5 DEF RefreshInv, RefreshTypes
<1>7. OneIsRegistered'
  BY <1>1, <1>5, RefreshAssumption DEF RefreshInv, OneIsRegistered, Alive
<1>8. NoticesAreChanges'
  BY <1>4, RefreshNumbers DEF NoticesAreChanges
<1>9. SessionsAdvance'
  BY <1>1, <1>3 DEF RefreshInv, SessionsAdvance
<1>10. QuestionsAreOld'
  BY <1>1 DEF RefreshInv, QuestionsAreOld, Asks
<1>11. ListingsAreReal'
  BY <1>1, <1>3, <1>4, RefreshNumbers DEF RefreshInv, ListingsAreReal, Asks
<1>12. ChangesAreNoticed' /\ ListCatchesUp'
  BY <1>1, <1>3 DEF ChangesAreNoticed, ListCatchesUp, Outdated
<1>13. QED
  BY <1>6, <1>7, <1>8, <1>9, <1>10, <1>11, <1>12 DEF RefreshInv

LEMMA StartManagerKeeps == ASSUME RefreshInv, StartManager PROVE RefreshInv'
<1>1. /\ UNCHANGED <<server, opened, served, tools, opening, dirty, claimed, registered,
                     task, cached, missed, unlisted>>
      /\ manager = "down" /\ manager' = "up" /\ served = NoSession
  BY DEF StartManager, RefreshInv, SessionsAdvance
<1>2. RefreshTypes'
  BY <1>1 DEF RefreshInv, RefreshTypes
<1>3. ListCatchesUp'
  BY <1>1 DEF ListCatchesUp, Outdated
<1>4. QED
  BY <1>1, <1>2, <1>3 DEF RefreshInv, NoticesAreChanges, OneIsRegistered, SessionsAdvance,
       QuestionsAreOld, ListingsAreReal, ChangesAreNoticed, Alive, Asks

\* The list in use is replaced by a later one.
ListAdvances ==
  tools' # tools =>
    \/ tools'.session > tools.session
    \/ tools'.session = tools.session /\ tools'.version >= tools.version

LEMMA RefreshStep ==
  ASSUME RefreshInv, [RefreshNext]_refreshVars PROVE RefreshInv' /\ ListAdvances
<1>1. CASE UNCHANGED refreshVars
  BY <1>1 DEF refreshVars, RefreshInv, RefreshTypes, NoticesAreChanges, OneIsRegistered,
       SessionsAdvance, QuestionsAreOld, ListingsAreReal, ChangesAreNoticed, ListCatchesUp,
       Outdated, OnItsWay, Alive, Asks, ListAdvances
<1>2. ASSUME NEW s \in Sessions, Changes(s) \/ Notified(s) PROVE RefreshInv' /\ ListAdvances
  BY <1>2, ChangesKeeps, NotifiedKeeps DEF Changes, Notified, ListAdvances
<1>3. CASE OpenSession \/ ListOpening \/ OpenFails
  BY <1>3, OpenSessionKeeps, ListOpeningKeeps, OpenFailsKeeps
     DEF OpenSession, ListOpening, OpenFails, ListAdvances
<1>4. CASE Install
  <2>1. /\ opening.got # NoListing
        /\ tools' = [session |-> opening.session, version |-> opening.got]
    BY <1>4 DEF Install
  <2>2. tools'.session > tools.session
    BY <2>1, RefreshNumbers
  <2>3. QED
    BY <1>4, <2>2, InstallKeeps DEF ListAdvances
<1>5. ASSUME NEW r \in Tasks, Begin(r) \/ Answer(r) \/ AnswerFails(r) \/ Ended(r)
      PROVE  RefreshInv' /\ ListAdvances
  BY <1>5, BeginKeeps, AnswerKeeps, AnswerFailsKeeps, EndedKeeps
     DEF Begin, Answer, AnswerFails, Ended, ListAdvances
<1>6. ASSUME NEW r \in Tasks, Apply(r) PROVE RefreshInv' /\ ListAdvances
  BY <1>6, ApplyKeeps DEF ListAdvances
<1>7. ASSUME NEW v \in Versions, NEW t \in Eligible(v), Cached(t)
      PROVE  RefreshInv' /\ ListAdvances
  BY <1>7, CachedKeeps DEF Cached, ListAdvances
<1>8. CASE Stop \/ StartAgain \/ Stopped \/ StartManager
  BY <1>8, StopKeeps, StartAgainKeeps, StoppedKeeps, StartManagerKeeps
     DEF Stop, StartAgain, Stopped, StartManager, ListAdvances
<1>9. QED
  BY <1>1, <1>2, <1>3, <1>4, <1>5, <1>6, <1>7, <1>8 DEF RefreshNext

(* Across stops, restarts, reconnects and refreshes that fail or outlive   *)
(* their cancellation: one refresh of an upstream is alive, its claim has  *)
(* a task, and a list that fell behind is on its way to be refreshed.      *)
THEOREM RefreshStaysSound == ManagerSpec => []RefreshIsSound
<1>1. ManagerInit => RefreshInv
  BY ManagerInitParts, RefreshInitInv
<1>2. RefreshInv /\ [ManagerNext]_managerVars => RefreshInv'
  BY ManagerStepParts, RefreshStep
<1>3. QED
  BY <1>1, <1>2, RefreshInvShows, PTL DEF ManagerSpec

(* An answer that comes late never puts an older list over a newer one.    *)
THEOREM ListingsOnlyAdvance == ManagerSpec => ListingsAdvance
<1>1. ManagerInit => RefreshInv
  BY ManagerInitParts, RefreshInitInv
<1>2. RefreshInv /\ [ManagerNext]_managerVars => RefreshInv'
  BY ManagerStepParts, RefreshStep
<1>3. RefreshInv /\ [ManagerNext]_managerVars =>
        [tools' # tools =>
           \/ tools'.session > tools.session
           \/ tools'.session = tools.session /\ tools'.version >= tools.version]_refreshVars
  BY ManagerStepParts, RefreshStep DEF ListAdvances
<1>4. QED
  BY <1>1, <1>2, <1>3, PTL DEF ManagerSpec, ListingsAdvance
-----------------------------------------------------------------------------
(* The consult of the tool graph.                                          *)
VerdictRecords ==
  [scope : Scopes, generation : 1..MaxGeneration, facts : 0..MaxGeneration, at : Nat]

ConsultRecords ==
  [pc : {"idle", "probed", "missed", "judged", "answered", "writing", "written", "trimming",
         "done", "unknown", "failed"},
   scope : Scopes \cup {Nowhere}, wants : BOOLEAN, probed : 0..MaxGeneration,
   verdict : 0..MaxGeneration, facts : 0..MaxGeneration, cached : BOOLEAN]

PutRecords == [stamp : Nat, counted : Nat, excess : Nat]

ConsultTypes ==
  /\ generation \in 1..MaxGeneration /\ known \in BOOLEAN /\ faults \in 0..MaxFaults
  /\ clock \in Nat /\ verdictRows \subseteq VerdictRecords
  /\ consults \in [Consults -> ConsultRecords] /\ puts \in [Consults -> PutRecords]
  /\ commits \in Nat

(* The rows are told apart by their scopes, and none has facts older than  *)
(* itself.                                                                 *)
RowsAreApart ==
  /\ IsFiniteSet(verdictRows)
  /\ \A q, r \in verdictRows : q.scope = r.scope => q = r
  /\ \A r \in verdictRows : r.at <= clock /\ (r.facts = 0 \/ r.facts >= r.generation)

(* Who has counted the rows accounts for those over the limit: they are    *)
(* those it is about to delete or were committed since.                    *)
Accounts(p, inFile, all) ==
  p.counted # 0 => Cardinality(inFile) <= MaxScopes + p.excess + (all - p.counted)

PutsAccount ==
  \A s \in Consults :
    /\ Accounts(puts[s], verdictRows, commits)
    /\ puts[s].stamp <= clock /\ puts[s].counted <= commits
    /\ consults[s].pc \in {"written", "trimming"} => commits > 0
    /\ consults[s].pc = "trimming" => puts[s].counted # 0

(* Nobody holds an answer of a generation yet to come, or writes facts     *)
(* older than their verdict.                                               *)
AnswerIsPast(c, now) ==
  /\ c.probed <= now
  /\ c.pc \in {"probed", "missed", "judged", "answered", "writing", "written", "trimming"} =>
       c.scope \in Scopes /\ c.cached = FALSE
  /\ c.pc \in {"judged", "answered", "writing"} => c.verdict \in 1..now
  /\ c.pc \in {"probed", "missed", "judged"} => c.facts = 0
  /\ c.pc \in {"answered", "writing"} => c.facts = 0 \/ c.facts >= c.verdict

AnswersArePast == \A s \in Consults : AnswerIsPast(consults[s], generation)

ConsultInv ==
  ConsultTypes /\ RowsAreApart /\ PutsAccount /\ AnswersArePast /\ ReusedIsCurrent

LEMMA ConsultInvShows == ConsultInv => ConsultIsSound
<1> SUFFICES ASSUME ConsultInv PROVE ConsultIsSound
  OBVIOUS
<1>1. \A r \in verdictRows : /\ r.scope \in Scopes /\ r.generation \in 1..MaxGeneration
                             /\ r.facts \in 0..MaxGeneration /\ r.at \in Nat
  BY DEF ConsultInv, ConsultTypes, VerdictRecords
<1>2. \A r \in verdictRows : r.at \in 0..clock
  BY <1>1 DEF ConsultInv, ConsultTypes, RowsAreApart
<1>3. ASSUME NEW s \in Consults
      PROVE  puts[s].stamp \in 0..clock /\ puts[s].counted \in 0..commits /\ puts[s].excess \in Nat
  BY DEF ConsultInv, ConsultTypes, PutRecords, PutsAccount
<1>4. ConsultTypeOK
  BY <1>1, <1>2, <1>3 DEF ConsultInv, ConsultTypes, ConsultTypeOK, ConsultRecords
<1>5. RowsAreBounded
  BY DEF ConsultInv, RowsAreBounded, RowsAreApart, PutsAccount, Accounts
<1>6. QED
  BY <1>4, <1>5 DEF ConsultInv, ConsultIsSound

LEMMA ConsultInitInv == ConsultInit => ConsultInv
<1> SUFFICES ASSUME ConsultInit PROVE ConsultInv
  OBVIOUS
<1>1. /\ Idle \in ConsultRecords /\ Idle.pc = "idle" /\ Idle.probed = 0 /\ Idle.cached = FALSE
  BY ConsultAssumption DEF Idle, ConsultRecords
<1>2. ASSUME NEW x \in Scopes, NEW f \in {0, 1}
      PROVE  [scope |-> x, generation |-> 1, facts |-> f, at |-> 0] \in VerdictRecords
  BY ConsultAssumption DEF VerdictRecords
<1>3. \/ verdictRows = {}
      \/ \E x \in Scopes, f \in {0, 1} :
           verdictRows = {[scope |-> x, generation |-> 1, facts |-> f, at |-> 0]}
  BY DEF ConsultInit
<1>4. ConsultTypes
  <2>1. verdictRows \subseteq VerdictRecords
    <3>1. CASE verdictRows = {}
      BY <3>1
    <3>2. CASE verdictRows # {}
      <4>1. PICK x \in Scopes, f \in {0, 1} :
              verdictRows = {[scope |-> x, generation |-> 1, facts |-> f, at |-> 0]}
        BY <1>3, <3>2
      <4>2. QED
        BY <1>2, <4>1
    <3>3. QED
      BY <3>1, <3>2
  <2>2. generation \in 1..MaxGeneration /\ faults \in 0..MaxFaults /\ clock \in Nat
    BY ConsultAssumption DEF ConsultInit
  <2>3. NotPut \in PutRecords
    BY DEF NotPut, PutRecords
  <2>4. QED
    BY <1>1, <2>1, <2>2, <2>3 DEF ConsultInit, ConsultTypes
<1>5. RowsAreApart
  <2>1. CASE verdictRows = {}
    BY <2>1, FS_EmptySet DEF RowsAreApart
  <2>2. ASSUME NEW x \in Scopes, NEW f \in {0, 1},
               verdictRows = {[scope |-> x, generation |-> 1, facts |-> f, at |-> 0]}
        PROVE  RowsAreApart
    <3>1. IsFiniteSet(verdictRows)
      BY <2>2, FS_Singleton
    <3>2. QED
      BY <2>2, <3>1 DEF RowsAreApart, ConsultInit
  <2>3. QED
    BY <1>3, <2>1, <2>2
<1>6. PutsAccount
  BY <1>1 DEF ConsultInit, PutsAccount, Accounts, NotPut
<1>7. AnswersArePast
  BY <1>1 DEF ConsultInit, AnswersArePast, AnswerIsPast
<1>8. ReusedIsCurrent
  BY <1>1 DEF ConsultInit, ReusedIsCurrent
<1>9. QED
  BY <1>4, <1>5, <1>6, <1>7, <1>8 DEF ConsultInv

(* A start goes on with c: it keeps the invariant when c does.             *)
ReuseIsCurrent(c) ==
  c.cached => c.verdict = c.probed /\ (c.wants => c.facts >= c.probed)

LEMMA ContinuesKeeps ==
  ASSUME NEW s \in Consults, NEW c \in ConsultRecords, ConsultInv, Continues(s, c),
         AnswerIsPast(c, generation), ReuseIsCurrent(c), c.pc \notin {"written", "trimming"},
         UNCHANGED <<generation, known, fileVars>>, faults' \in 0..MaxFaults
  PROVE  ConsultInv'
<1>1. /\ consults' \in [Consults -> ConsultRecords] /\ consults'[s] = c
      /\ \A x \in Consults \ {s} : consults'[x] = consults[x]
  BY DEF Continues, ConsultInv, ConsultTypes
<1>2. ConsultTypes' /\ RowsAreApart'
  BY <1>1 DEF ConsultInv, ConsultTypes, RowsAreApart, fileVars
<1>3. PutsAccount'
  BY <1>1 DEF ConsultInv, PutsAccount, Accounts, fileVars
<1>4. AnswersArePast'
  BY <1>1 DEF ConsultInv, AnswersArePast
<1>5. ReusedIsCurrent'
  BY <1>1 DEF ConsultInv, ReusedIsCurrent, ReuseIsCurrent
<1>6. QED
  BY <1>2, <1>3, <1>4, <1>5 DEF ConsultInv

(* A put goes on with c and p: the rows over the limit grow by no more     *)
(* than what is committed.                                                 *)
LEMMA PutMoves ==
  ASSUME NEW s \in Consults, NEW c \in ConsultRecords, NEW p \in PutRecords, ConsultInv,
         Continues(s, c), puts' = [puts EXCEPT ![s] = p],
         AnswerIsPast(c, generation), ReuseIsCurrent(c), UNCHANGED <<generation, known>>,
         faults' \in 0..MaxFaults, clock' \in Nat, clock' >= clock,
         verdictRows' \subseteq VerdictRecords, RowsAreApart',
         commits' \in Nat, commits' >= commits,
         Cardinality(verdictRows') <= Cardinality(verdictRows) + (commits' - commits),
         Accounts(p, verdictRows', commits'), p.stamp <= clock', p.counted <= commits',
         c.pc \in {"written", "trimming"} => commits' > 0, c.pc = "trimming" => p.counted # 0
  PROVE  ConsultInv'
<1>1. /\ consults' \in [Consults -> ConsultRecords] /\ consults'[s] = c
      /\ \A x \in Consults \ {s} : consults'[x] = consults[x]
      /\ puts' \in [Consults -> PutRecords] /\ puts'[s] = p
      /\ \A x \in Consults \ {s} : puts'[x] = puts[x]
  BY DEF Continues, ConsultInv, ConsultTypes
<1>2. ConsultTypes'
  BY <1>1 DEF ConsultInv, ConsultTypes
<1>3. PutsAccount'
  <2> SUFFICES ASSUME NEW x \in Consults
               PROVE  /\ Accounts(puts'[x], verdictRows', commits')
                      /\ puts'[x].stamp <= clock' /\ puts'[x].counted <= commits'
                      /\ consults'[x].pc \in {"written", "trimming"} => commits' > 0
                      /\ consults'[x].pc = "trimming" => puts'[x].counted # 0
    BY DEF PutsAccount, Accounts
  <2>1. CASE x = s
    BY <1>1, <2>1
  <2>2. CASE x # s
    <3>1. /\ Accounts(puts[x], verdictRows, commits)
          /\ puts[x].stamp <= clock /\ puts[x].counted <= commits
          /\ consults[x].pc \in {"written", "trimming"} => commits > 0
          /\ consults[x].pc = "trimming" => puts[x].counted # 0
      BY DEF ConsultInv, PutsAccount
    <3>2. puts'[x] = puts[x] /\ consults'[x] = consults[x]
      BY <1>1, <2>2
    <3>3. /\ puts[x].stamp \in Nat /\ puts[x].counted \in Nat /\ puts[x].excess \in Nat
          /\ clock \in Nat /\ commits \in Nat /\ MaxScopes \in Nat
      BY ConsultAssumption DEF ConsultInv, ConsultTypes, PutRecords
    <3>4. Cardinality(verdictRows) \in Nat /\ Cardinality(verdictRows') \in Nat
      BY FS_CardinalityType DEF ConsultInv, RowsAreApart
    <3>5. Accounts(puts[x], verdictRows', commits')
      BY <3>1, <3>3, <3>4 DEF Accounts
    <3>6. QED
      BY <3>1, <3>2, <3>3, <3>5
  <2>3. QED
    BY <2>1, <2>2
<1>4. AnswersArePast'
  BY <1>1 DEF ConsultInv, AnswersArePast
<1>5. ReusedIsCurrent'
  BY <1>1 DEF ConsultInv, ReusedIsCurrent, ReuseIsCurrent
<1>6. QED
  BY <1>2, <1>3, <1>4, <1>5 DEF ConsultInv

LEMMA ConsultFacts ==
  ASSUME NEW s \in Consults, ConsultInv
  PROVE  /\ consults[s] \in ConsultRecords /\ AnswerIsPast(consults[s], generation)
         /\ ReuseIsCurrent(consults[s])
BY DEF ConsultInv, ConsultTypes, AnswersArePast, ReusedIsCurrent, ReuseIsCurrent

LEMMA FileFacts ==
  ASSUME ConsultInv
  PROVE  /\ clock \in Nat /\ commits \in Nat /\ faults \in 0..MaxFaults
         /\ verdictRows \subseteq VerdictRecords /\ IsFiniteSet(verdictRows)
         /\ Cardinality(verdictRows) \in Nat
BY FS_CardinalityType DEF ConsultInv, ConsultTypes, RowsAreApart

LEMMA PutFacts ==
  ASSUME NEW s \in Consults, ConsultInv
  PROVE  /\ puts[s] \in PutRecords /\ Accounts(puts[s], verdictRows, commits)
         /\ puts[s].stamp \in Nat /\ puts[s].counted \in Nat /\ puts[s].excess \in Nat
         /\ puts[s].stamp <= clock /\ puts[s].counted <= commits
         /\ consults[s].pc \in {"written", "trimming"} => commits > 0
         /\ consults[s].pc = "trimming" => puts[s].counted # 0
BY DEF ConsultInv, ConsultTypes, PutsAccount, PutRecords

LEMMA GraphNumbers ==
  ConsultInv => /\ generation \in Nat /\ generation >= 1 /\ generation <= MaxGeneration
                /\ generation \in 0..MaxGeneration /\ 0 \in 0..MaxGeneration
BY ConsultAssumption DEF ConsultInv, ConsultTypes

LEMMA IdleForms ==
  /\ Idle \in ConsultRecords /\ Idle.pc = "idle" /\ Idle.probed = 0 /\ Idle.cached = FALSE
  /\ \A p \in {"unknown", "failed"} :
       [Idle EXCEPT !.pc = p] \in ConsultRecords /\ [Idle EXCEPT !.pc = p].pc = p
       /\ [Idle EXCEPT !.pc = p].probed = 0 /\ [Idle EXCEPT !.pc = p].cached = FALSE
<1>1. /\ Idle \in ConsultRecords /\ Idle.pc = "idle" /\ Idle.probed = 0 /\ Idle.cached = FALSE
  BY ConsultAssumption DEF Idle, ConsultRecords
<1>2. QED
  BY <1>1 DEF ConsultRecords

LEMMA GraphMovesKeeps == ASSUME ConsultInv, GraphMoves PROVE ConsultInv'
<1>1. /\ generation' = generation + 1 /\ generation < MaxGeneration /\ known' \in BOOLEAN
      /\ UNCHANGED <<fileVars, faults, consults>>
  BY DEF GraphMoves
<1>2. generation \in Nat /\ generation' \in 1..MaxGeneration
  BY <1>1, ConsultAssumption DEF ConsultInv, ConsultTypes
<1>3. ConsultTypes' /\ RowsAreApart' /\ ReusedIsCurrent' /\ PutsAccount'
  BY <1>1, <1>2 DEF ConsultInv, ConsultTypes, RowsAreApart, ReusedIsCurrent, PutsAccount, Accounts,
                    fileVars
<1>4. ASSUME NEW s \in Consults PROVE AnswerIsPast(consults[s], generation)'
  <2>1. AnswerIsPast(consults[s], generation) /\ consults'[s] = consults[s]
    BY <1>1 DEF ConsultInv, AnswersArePast
  <2>2. consults[s].probed \in Nat /\ consults[s].verdict \in Nat
    BY DEF ConsultInv, ConsultTypes, ConsultRecords
  <2>3. QED
    BY <1>1, <1>2, <2>1, <2>2 DEF AnswerIsPast
<1>5. QED
  BY <1>3, <1>4 DEF ConsultInv, AnswersArePast

LEMMA ProbeKeeps ==
  ASSUME NEW s \in Consults, NEW scope \in Scopes, NEW wants \in BOOLEAN,
         ConsultInv, Probe(s, scope, wants)
  PROVE  ConsultInv'
<1>1. UNCHANGED <<generation, known, fileVars, faults>> /\ faults' \in 0..MaxFaults
  BY DEF Probe, ConsultInv, ConsultTypes
<1>2. CASE known
  <2>1. PICK d : d = [Idle EXCEPT !.pc = "probed", !.scope = scope, !.wants = wants]
    OBVIOUS
  <2>2. /\ d \in ConsultRecords /\ d.pc = "probed" /\ d.scope = scope /\ d.cached = FALSE
        /\ d.facts = 0
    <3>1. Idle.facts = 0
      BY DEF Idle
    <3>2. QED
      BY <2>1, <3>1, IdleForms DEF ConsultRecords
  <2>3. PICK c : c = [d EXCEPT !.probed = generation]
    OBVIOUS
  <2>4. Continues(s, c)
    BY <1>2, <2>1, <2>3, Zenon DEF Probe
  <2>5. /\ c \in ConsultRecords /\ c.pc = "probed" /\ c.scope = scope /\ c.cached = FALSE
        /\ c.facts = 0 /\ c.probed = generation
    BY <2>2, <2>3, GraphNumbers DEF ConsultRecords
  <2>6. AnswerIsPast(c, generation) /\ ReuseIsCurrent(c)
    BY <2>5, GraphNumbers DEF AnswerIsPast, ReuseIsCurrent
  <2>7. QED
    BY <1>1, <2>4, <2>5, <2>6, ContinuesKeeps
<1>3. CASE ~known
  <2>1. PICK c : c = [Idle EXCEPT !.pc = "unknown"]
    OBVIOUS
  <2>2. Continues(s, c)
    BY <1>3, <2>1 DEF Probe
  <2>3. c \in ConsultRecords /\ c.pc = "unknown" /\ c.probed = 0 /\ c.cached = FALSE
    BY <2>1, IdleForms
  <2>4. AnswerIsPast(c, generation) /\ ReuseIsCurrent(c)
    BY <2>3, GraphNumbers DEF AnswerIsPast, ReuseIsCurrent
  <2>5. QED
    BY <1>1, <2>2, <2>3, <2>4, ContinuesKeeps
<1>4. QED
  BY <1>2, <1>3

LEMMA AskFailsKeeps == ASSUME NEW s \in Consults, ConsultInv, AskFails(s) PROVE ConsultInv'
<1>1. PICK c : c = [Idle EXCEPT !.pc = "failed"]
  OBVIOUS
<1>2. /\ UNCHANGED <<generation, known, fileVars, faults>> /\ faults' \in 0..MaxFaults
      /\ Continues(s, c)
  BY <1>1 DEF AskFails, ConsultInv, ConsultTypes
<1>3. c \in ConsultRecords /\ c.pc = "failed" /\ c.probed = 0 /\ c.cached = FALSE
  BY <1>1, IdleForms
<1>4. AnswerIsPast(c, generation) /\ ReuseIsCurrent(c)
  BY <1>3, GraphNumbers DEF AnswerIsPast, ReuseIsCurrent
<1>5. QED
  BY <1>2, <1>3, <1>4, ContinuesKeeps

LEMMA HitKeeps == ASSUME NEW s \in Consults, ConsultInv, Hit(s) PROVE ConsultInv'
<1>1. UNCHANGED <<generation, known, fileVars, faults>> /\ faults' \in 0..MaxFaults
  BY DEF Hit, ConsultInv, ConsultTypes
<1>2. PICK k \in ConsultRecords : k = consults[s]
  BY ConsultFacts
<1>3. PICK r \in verdictRows :
        /\ r.scope = k.scope /\ r.generation = k.probed /\ Serves(r, k.wants)
        /\ Continues(s, [k EXCEPT !.pc = "done", !.verdict = r.generation, !.cached = TRUE,
                                  !.facts = IF k.wants THEN r.facts ELSE 0])
  <2>1. \E r \in RowsOf(k.scope, k.probed) :
          /\ Serves(r, k.wants)
          /\ Continues(s, [k EXCEPT !.pc = "done", !.verdict = r.generation, !.cached = TRUE,
                                    !.facts = IF k.wants THEN r.facts ELSE 0])
    BY <1>2, Zenon DEF Hit
  <2>2. QED
    BY <2>1, Zenon DEF RowsOf
<1>4. /\ r.generation \in 1..MaxGeneration /\ r.facts \in 0..MaxGeneration
      /\ r.facts = 0 \/ r.facts >= r.generation
  BY DEF ConsultInv, ConsultTypes, RowsAreApart, VerdictRecords
<1>5. r.generation \in 0..MaxGeneration /\ 0 \in 0..MaxGeneration
  BY <1>4, ConsultAssumption
<1>6. PICK x \in 0..MaxGeneration : x = IF k.wants THEN r.facts ELSE 0
  BY <1>4, <1>5
<1>7. PICK c : c = [k EXCEPT !.pc = "done", !.verdict = r.generation, !.cached = TRUE, !.facts = x]
  OBVIOUS
<1>8. Continues(s, c)
  BY <1>3, <1>6, <1>7, Zenon
<1>9. /\ c \in ConsultRecords /\ c.pc = "done" /\ c.probed = k.probed /\ c.wants = k.wants
      /\ c.verdict = r.generation /\ c.facts = x
  <2>1. PICK d : d = [k EXCEPT !.pc = "done", !.verdict = r.generation]
    OBVIOUS
  <2>2. /\ d \in ConsultRecords /\ d.pc = "done" /\ d.probed = k.probed /\ d.wants = k.wants
        /\ d.verdict = r.generation
    BY <1>5, <2>1 DEF ConsultRecords
  <2>3. c = [d EXCEPT !.cached = TRUE, !.facts = x]
    BY <1>7, <2>1, Zenon
  <2>4. QED
    BY <2>2, <2>3 DEF ConsultRecords
<1>10. AnswerIsPast(c, generation)
  BY <1>2, <1>9, ConsultFacts DEF AnswerIsPast
<1>11. ReuseIsCurrent(c)
  BY <1>3, <1>4, <1>6, <1>9, ConsultAssumption DEF ReuseIsCurrent, Serves
<1>12. QED
  BY <1>1, <1>8, <1>9, <1>10, <1>11, ContinuesKeeps

LEMMA MissKeeps ==
  ASSUME NEW s \in Consults, NEW unreadable \in BOOLEAN, ConsultInv, Miss(s, unreadable)
  PROVE  ConsultInv'
<1>1. /\ UNCHANGED <<generation, known, fileVars>>
      /\ unreadable => faults < MaxFaults
      /\ faults' = IF unreadable THEN faults + 1 ELSE faults
  BY DEF Miss
<1>2. faults' \in 0..MaxFaults
  BY <1>1, ConsultAssumption DEF ConsultInv, ConsultTypes
<1>3. PICK k \in ConsultRecords : k = consults[s]
  BY ConsultFacts
<1>4. PICK c : c = [k EXCEPT !.pc = "missed"]
  OBVIOUS
<1>5. Continues(s, c) /\ k.pc = "probed"
  BY <1>3, <1>4 DEF Miss, At
<1>6. /\ c \in ConsultRecords /\ c.pc = "missed" /\ c.probed = k.probed /\ c.scope = k.scope
      /\ c.cached = k.cached /\ c.facts = k.facts
  BY <1>4 DEF ConsultRecords
<1>7. AnswerIsPast(c, generation) /\ ReuseIsCurrent(c)
  <2>1. AnswerIsPast(k, generation)
    BY <1>3, ConsultFacts
  <2>2. QED
    BY <1>5, <1>6, <2>1 DEF AnswerIsPast, ReuseIsCurrent
<1>8. QED
  BY <1>1, <1>2, <1>5, <1>6, <1>7, ContinuesKeeps

LEMMA AskKeeps == ASSUME NEW s \in Consults, ConsultInv, Ask(s) PROVE ConsultInv'
<1>1. UNCHANGED <<generation, known, fileVars, faults>> /\ faults' \in 0..MaxFaults
  BY DEF Ask, ConsultInv, ConsultTypes
<1>2. PICK k \in ConsultRecords : k = consults[s]
  BY ConsultFacts
<1>3. k.pc = "missed" /\ AnswerIsPast(k, generation)
  BY <1>2, ConsultFacts DEF Ask, At
<1>4. CASE known
  <2>1. PICK p \in {"judged", "answered"} : p = IF k.wants THEN "judged" ELSE "answered"
    OBVIOUS
  <2>2. PICK d : d = [k EXCEPT !.pc = p]
    OBVIOUS
  <2>3. /\ d \in ConsultRecords /\ d.pc = p /\ d.probed = k.probed /\ d.scope = k.scope
        /\ d.cached = k.cached /\ d.facts = k.facts
    BY <2>2 DEF ConsultRecords
  <2>4. PICK c : c = [d EXCEPT !.verdict = generation]
    OBVIOUS
  <2>5. Continues(s, c)
    <3>1. Continues(s, [k EXCEPT !.pc = IF k.wants THEN "judged" ELSE "answered",
                                 !.verdict = generation])
      BY <1>2, <1>4 DEF Ask
    <3>2. QED
      BY <2>1, <2>2, <2>4, <3>1, Zenon
  <2>6. /\ c \in ConsultRecords /\ c.pc = p /\ c.probed = k.probed /\ c.scope = k.scope
        /\ c.cached = k.cached /\ c.facts = k.facts /\ c.verdict = generation
    BY <2>3, <2>4, GraphNumbers DEF ConsultRecords
  <2>7. AnswerIsPast(c, generation) /\ ReuseIsCurrent(c)
    <3>1. generation \in 1..generation
      BY GraphNumbers
    <3>2. QED
      BY <1>3, <2>1, <2>6, <3>1 DEF AnswerIsPast, ReuseIsCurrent
  <2>8. QED
    BY <1>1, <2>5, <2>6, <2>7, ContinuesKeeps
<1>5. CASE ~known
  <2>1. PICK c : c = [Idle EXCEPT !.pc = "unknown"]
    OBVIOUS
  <2>2. Continues(s, c)
    BY <1>5, <2>1 DEF Ask
  <2>3. c \in ConsultRecords /\ c.pc = "unknown" /\ c.probed = 0 /\ c.cached = FALSE
    BY <2>1, IdleForms
  <2>4. AnswerIsPast(c, generation) /\ ReuseIsCurrent(c)
    BY <2>3, GraphNumbers DEF AnswerIsPast, ReuseIsCurrent
  <2>5. QED
    BY <1>1, <2>2, <2>3, <2>4, ContinuesKeeps
<1>6. QED
  BY <1>4, <1>5

LEMMA AskFactsKeeps ==
  ASSUME NEW s \in Consults, NEW answered \in BOOLEAN, ConsultInv, AskFacts(s, answered)
  PROVE  ConsultInv'
<1>1. UNCHANGED <<generation, known, fileVars, faults>> /\ faults' \in 0..MaxFaults
  BY DEF AskFacts, ConsultInv, ConsultTypes
<1>2. PICK k \in ConsultRecords : k = consults[s]
  BY ConsultFacts
<1>3. k.pc = "judged" /\ AnswerIsPast(k, generation)
  BY <1>2, ConsultFacts DEF AskFacts, At
<1>4. PICK x \in 0..MaxGeneration : x = IF answered THEN generation ELSE 0
  BY GraphNumbers
<1>5. PICK d : d = [k EXCEPT !.pc = "answered"]
  OBVIOUS
<1>6. PICK c : c = [d EXCEPT !.facts = x]
  OBVIOUS
<1>7. Continues(s, c)
  <2>1. Continues(s, [k EXCEPT !.pc = "answered", !.facts = IF answered THEN generation ELSE 0])
    BY <1>2 DEF AskFacts
  <2>2. QED
    BY <1>4, <1>5, <1>6, <2>1, Zenon
<1>8. /\ c \in ConsultRecords /\ c.pc = "answered" /\ c.probed = k.probed /\ c.scope = k.scope
      /\ c.cached = k.cached /\ c.facts = x /\ c.verdict = k.verdict
  <2>1. /\ d \in ConsultRecords /\ d.pc = "answered" /\ d.probed = k.probed
        /\ d.scope = k.scope /\ d.cached = k.cached /\ d.verdict = k.verdict
    BY <1>5 DEF ConsultRecords
  <2>2. QED
    BY <1>6, <2>1 DEF ConsultRecords
<1>9. AnswerIsPast(c, generation) /\ ReuseIsCurrent(c)
  <2>1. k.verdict \in 1..generation /\ (x = 0 \/ x >= k.verdict)
    BY <1>3, <1>4, GraphNumbers DEF AnswerIsPast
  <2>2. QED
    BY <1>3, <1>8, <2>1 DEF AnswerIsPast, ReuseIsCurrent
<1>10. QED
  BY <1>1, <1>7, <1>8, <1>9, ContinuesKeeps

\* A start that goes on with its put.
LEMMA PutForms ==
  ASSUME NEW s \in Consults, ConsultInv, NEW p \in {"writing", "written", "trimming", "done"},
         consults[s].pc \in {"answered", "writing", "written", "trimming"},
         p = "writing" => consults[s].pc = "answered", NEW c, c = [consults[s] EXCEPT !.pc = p]
  PROVE  c \in ConsultRecords /\ c.pc = p /\ AnswerIsPast(c, generation) /\ ReuseIsCurrent(c)
<1>1. PICK k \in ConsultRecords : k = consults[s]
  BY ConsultFacts
<1>2. /\ c \in ConsultRecords /\ c.pc = p /\ c.probed = k.probed /\ c.cached = k.cached
      /\ c.scope = k.scope /\ c.verdict = k.verdict /\ c.facts = k.facts
  BY <1>1 DEF ConsultRecords
<1>3. AnswerIsPast(k, generation)
  BY <1>1, ConsultFacts
<1>4. QED
  BY <1>1, <1>2, <1>3 DEF AnswerIsPast, ReuseIsCurrent

LEMMA PutBeginsKeeps == ASSUME NEW s \in Consults, ConsultInv, PutBegins(s) PROVE ConsultInv'
<1>1. PICK c : c = [consults[s] EXCEPT !.pc = "writing"]
  OBVIOUS
<1>2. PICK p : p = [puts[s] EXCEPT !.stamp = clock + 1]
  OBVIOUS
<1>3. /\ UNCHANGED <<generation, known, verdictRows, faults, commits>> /\ clock' = clock + 1
      /\ Continues(s, c) /\ consults[s].pc = "answered"
  BY <1>1 DEF PutBegins, At
<1>4. puts' = [puts EXCEPT ![s] = p]
  BY <1>2 DEF PutBegins
<1>5. c \in ConsultRecords /\ c.pc = "writing" /\ AnswerIsPast(c, generation) /\ ReuseIsCurrent(c)
  BY <1>1, <1>3, PutForms
<1>6. /\ p \in PutRecords /\ p.stamp = clock + 1 /\ p.counted = puts[s].counted
      /\ p.excess = puts[s].excess
  BY <1>2, PutFacts, FileFacts DEF PutRecords
<1>7. RowsAreApart'
  BY <1>3, FileFacts DEF ConsultInv, RowsAreApart, VerdictRecords
<1>8. Accounts(p, verdictRows', commits') /\ p.counted <= commits'
  BY <1>3, <1>6, PutFacts DEF Accounts
<1>9. /\ Cardinality(verdictRows') <= Cardinality(verdictRows) + (commits' - commits)
      /\ verdictRows' \subseteq VerdictRecords /\ commits' \in Nat /\ commits' >= commits
      /\ clock' \in Nat /\ clock' >= clock /\ p.stamp <= clock' /\ faults' \in 0..MaxFaults
  BY <1>3, <1>6, FileFacts
<1>10. QED
  BY <1>3, <1>4, <1>5, <1>6, <1>7, <1>8, <1>9, PutMoves

LEMMA PutFailsKeeps == ASSUME NEW s \in Consults, ConsultInv, PutFails(s) PROVE ConsultInv'
<1>1. PICK c : c = [consults[s] EXCEPT !.pc = "done"]
  OBVIOUS
<1>2. /\ UNCHANGED <<generation, known, fileVars>> /\ faults < MaxFaults
      /\ faults' = faults + 1 /\ Continues(s, c) /\ consults[s].pc = "writing"
  BY <1>1 DEF PutFails, At
<1>3. faults' \in 0..MaxFaults
  BY <1>2, ConsultAssumption, FileFacts
<1>4. c \in ConsultRecords /\ c.pc = "done" /\ AnswerIsPast(c, generation) /\ ReuseIsCurrent(c)
  BY <1>1, <1>2, PutForms
<1>5. QED
  BY <1>2, <1>3, <1>4, ContinuesKeeps

(* A row that replaces those of its scope.                                 *)
LEMMA ReplacedRows ==
  ASSUME ConsultInv, NEW k \in ConsultRecords, k.pc = "writing", AnswerIsPast(k, generation),
         NEW stamp \in Nat, stamp <= clock, verdictRows' = Replaced(k, stamp), clock' = clock
  PROVE  /\ verdictRows' \subseteq VerdictRecords /\ RowsAreApart'
         /\ Cardinality(verdictRows') <= Cardinality(verdictRows) + 1
<1>1. PICK new : new = [scope |-> k.scope, generation |-> k.verdict, facts |-> k.facts, at |-> stamp]
  OBVIOUS
<1>2. /\ k.verdict \in 1..MaxGeneration /\ k.scope \in Scopes /\ k.facts \in 0..MaxGeneration
      /\ k.facts = 0 \/ k.facts >= k.verdict
  <2>1. k.verdict \in 1..generation /\ k.scope \in Scopes
        /\ (k.facts = 0 \/ k.facts >= k.verdict)
    BY DEF AnswerIsPast
  <2>2. k.verdict \in 1..MaxGeneration
    BY <2>1, GraphNumbers, ConsultAssumption
  <2>3. QED
    BY <2>1, <2>2 DEF ConsultRecords
<1>3. /\ new \in VerdictRecords /\ new.scope = k.scope /\ new.at = stamp
      /\ new.facts = k.facts /\ new.generation = k.verdict
  BY <1>1, <1>2 DEF VerdictRecords
<1> DEFINE others == {r \in verdictRows : r.scope # k.scope}
<1>4. verdictRows' = others \cup {new}
  BY <1>1 DEF Replaced
<1>5. others \subseteq verdictRows /\ \A r \in others : r.scope # k.scope
  OBVIOUS
<1> HIDE DEF others
<1>6. /\ IsFiniteSet(others) /\ Cardinality(others) <= Cardinality(verdictRows)
      /\ Cardinality(others) \in Nat
  BY <1>5, FileFacts, FS_Subset, FS_CardinalityType
<1>7. /\ IsFiniteSet(others \cup {new}) /\ Cardinality(others \cup {new}) \in Nat
      /\ Cardinality(others \cup {new}) <= Cardinality(others) + 1
  <2>1. /\ IsFiniteSet(others \cup {new})
        /\ \/ Cardinality(others \cup {new}) = Cardinality(others)
           \/ Cardinality(others \cup {new}) = Cardinality(others) + 1
    BY <1>6, FS_AddElement, Zenon
  <2>2. QED
    BY <1>6, <2>1
<1>8. verdictRows' \subseteq VerdictRecords
  BY <1>3, <1>4, <1>5, FileFacts
<1>9. RowsAreApart'
  <2>1. \A q, r \in verdictRows' : q.scope = r.scope => q = r
    BY <1>3, <1>4, <1>5 DEF ConsultInv, RowsAreApart
  <2>2. \A r \in verdictRows' : r.at <= clock' /\ (r.facts = 0 \/ r.facts >= r.generation)
    BY <1>2, <1>3, <1>4, <1>5 DEF ConsultInv, RowsAreApart
  <2>3. QED
    BY <1>4, <1>7, <2>1, <2>2 DEF RowsAreApart
<1>10. Cardinality(verdictRows') <= Cardinality(verdictRows) + 1
  <2>1. Cardinality(verdictRows') = Cardinality(others \cup {new})
    BY <1>4, Zenon
  <2>2. QED
    BY <1>6, <1>7, <2>1, FileFacts
<1>11. QED
  BY <1>8, <1>9, <1>10

LEMMA PutCommitsKeeps == ASSUME NEW s \in Consults, ConsultInv, PutCommits(s) PROVE ConsultInv'
<1>1. PICK c : c = [consults[s] EXCEPT !.pc = "written"]
  OBVIOUS
<1>2. PICK k \in ConsultRecords : k = consults[s]
  BY ConsultFacts
<1>3. /\ UNCHANGED <<generation, known, clock, faults, puts>> /\ commits' = commits + 1
      /\ Continues(s, c) /\ k.pc = "writing" /\ verdictRows' = Replaced(k, puts[s].stamp)
  BY <1>1, <1>2 DEF PutCommits, At
<1>4. c \in ConsultRecords /\ c.pc = "written" /\ AnswerIsPast(c, generation) /\ ReuseIsCurrent(c)
  BY <1>1, <1>2, <1>3, PutForms
<1>5. AnswerIsPast(k, generation)
  BY <1>2, ConsultFacts
<1>6. /\ verdictRows' \subseteq VerdictRecords /\ RowsAreApart'
      /\ Cardinality(verdictRows') <= Cardinality(verdictRows) + 1
  BY <1>3, <1>5, PutFacts, ReplacedRows
<1>7. Cardinality(verdictRows') \in Nat
  BY <1>6, FS_CardinalityType DEF RowsAreApart
<1>8. PICK p \in PutRecords : p = puts[s]
  BY PutFacts
<1>9. puts' = [puts EXCEPT ![s] = p]
  BY <1>3, <1>8 DEF ConsultInv, ConsultTypes
<1>10. Accounts(p, verdictRows', commits')
  BY <1>3, <1>6, <1>7, <1>8, PutFacts, FileFacts, ConsultAssumption DEF Accounts
<1>11. /\ commits' \in Nat /\ commits' >= commits /\ commits' > 0 /\ commits' - commits = 1
       /\ p.stamp <= clock' /\ p.counted <= commits'
  BY <1>3, <1>8, PutFacts, FileFacts
<1>12. clock' \in Nat /\ clock' >= clock /\ faults' \in 0..MaxFaults
  BY <1>3, FileFacts
<1> HIDE <1>3
<1>13. UNCHANGED <<generation, known>> /\ Continues(s, c)
  BY <1>3
<1>14. QED
  BY <1>4, <1>6, <1>9, <1>10, <1>11, <1>12, <1>13, PutMoves

LEMMA CountRowsKeeps == ASSUME NEW s \in Consults, ConsultInv, CountRows(s) PROVE ConsultInv'
<1>1. PICK at \in {"trimming", "done"} :
        at = IF Cardinality(verdictRows) > MaxScopes THEN "trimming" ELSE "done"
  OBVIOUS
<1>2. PICK c : c = [consults[s] EXCEPT !.pc = at]
  OBVIOUS
<1>3. PICK x : x = IF Cardinality(verdictRows) > MaxScopes
                     THEN Excess(Cardinality(verdictRows)) ELSE 0
  OBVIOUS
<1>4. PICK p : p = [puts[s] EXCEPT !.counted = commits, !.excess = x]
  OBVIOUS
<1>5. /\ UNCHANGED <<generation, known, verdictRows, clock, faults, commits>>
      /\ consults[s].pc = "written"
  BY DEF CountRows, At
<1>6. Continues(s, c)
  BY <1>1, <1>2, Zenon DEF CountRows
<1>7. puts' = [puts EXCEPT ![s] = p]
  <2>1. puts' = [puts EXCEPT ![s].counted = commits, ![s].excess = x]
    BY <1>3, Zenon DEF CountRows
  <2>2. QED
    BY <1>4, <2>1 DEF ConsultInv, ConsultTypes, PutRecords
<1>8. x \in Nat /\ Cardinality(verdictRows) <= MaxScopes + x
  BY <1>3, FileFacts, ConsultAssumption DEF Excess
<1>9. /\ p \in PutRecords /\ p.stamp = puts[s].stamp /\ p.counted = commits /\ p.excess = x
  BY <1>4, <1>8, PutFacts, FileFacts DEF PutRecords
<1>10. c \in ConsultRecords /\ c.pc = at /\ AnswerIsPast(c, generation) /\ ReuseIsCurrent(c)
  BY <1>1, <1>2, <1>5, PutForms
<1>11. Accounts(p, verdictRows', commits')
  BY <1>5, <1>8, <1>9, FileFacts, ConsultAssumption DEF Accounts
<1>12. RowsAreApart'
  BY <1>5 DEF ConsultInv, RowsAreApart
<1>13. /\ p.stamp <= clock' /\ p.counted <= commits' /\ commits' > 0 /\ p.counted # 0
  BY <1>5, <1>9, PutFacts, FileFacts
<1>14. /\ Cardinality(verdictRows') <= Cardinality(verdictRows) + (commits' - commits)
       /\ verdictRows' \subseteq VerdictRecords /\ commits' \in Nat /\ commits' >= commits
       /\ clock' \in Nat /\ clock' >= clock /\ faults' \in 0..MaxFaults
  BY <1>5, FileFacts
<1>15. QED
  BY <1>5, <1>6, <1>7, <1>9, <1>10, <1>11, <1>12, <1>13, <1>14, PutMoves

LEMMA TrimKeeps == ASSUME NEW s \in Consults, ConsultInv, Trim(s) PROVE ConsultInv'
<1>1. PICK c : c = [consults[s] EXCEPT !.pc = "done"]
  OBVIOUS
<1>2. PICK p : p = [puts[s] EXCEPT !.excess = 0]
  OBVIOUS
<1>3. /\ UNCHANGED <<generation, known, clock, faults, commits>>
      /\ Continues(s, c) /\ consults[s].pc = "trimming"
  BY <1>1 DEF Trim, At
<1>4. puts' = [puts EXCEPT ![s] = p]
  BY <1>2 DEF Trim
<1>5. PICK gone \in SUBSET verdictRows :
        /\ verdictRows' = verdictRows \ gone
        /\ Cardinality(gone) = IF puts[s].excess < Cardinality(verdictRows)
                                 THEN puts[s].excess ELSE Cardinality(verdictRows)
  BY DEF Trim, Oldest
<1>6. /\ IsFiniteSet(verdictRows') /\ Cardinality(verdictRows') \in Nat
      /\ Cardinality(verdictRows') = Cardinality(verdictRows) - Cardinality(gone)
      /\ Cardinality(gone) \in Nat
  <2>1. IsFiniteSet(gone) /\ verdictRows \cap gone = gone
    BY <1>5, FileFacts, FS_Subset
  <2>2. /\ IsFiniteSet(verdictRows \ gone)
        /\ Cardinality(verdictRows \ gone) = Cardinality(verdictRows) - Cardinality(verdictRows \cap gone)
    BY FileFacts, FS_Difference
  <2>3. QED
    BY <1>5, <2>1, <2>2, FS_CardinalityType
<1>7. verdictRows' \subseteq verdictRows
  BY <1>5
<1>8. verdictRows' \subseteq VerdictRecords /\ RowsAreApart'
  BY <1>3, <1>6, <1>7, FileFacts DEF ConsultInv, RowsAreApart
<1>9. p \in PutRecords /\ p.stamp = puts[s].stamp /\ p.counted = puts[s].counted /\ p.excess = 0
  BY <1>2, PutFacts DEF PutRecords
<1>10. c \in ConsultRecords /\ c.pc = "done" /\ AnswerIsPast(c, generation) /\ ReuseIsCurrent(c)
  BY <1>1, <1>3, PutForms
<1>11. Accounts(p, verdictRows', commits')
  <2>1. Cardinality(verdictRows) <= MaxScopes + puts[s].excess + (commits - puts[s].counted)
    BY <1>3, PutFacts DEF Accounts
  <2>2. QED
    BY <1>3, <1>5, <1>6, <1>9, <2>1, PutFacts, FileFacts, ConsultAssumption DEF Accounts
<1>12. Cardinality(verdictRows') <= Cardinality(verdictRows) + (commits' - commits)
  BY <1>3, <1>6, FileFacts
<1>13. p.stamp <= clock' /\ p.counted <= commits'
  BY <1>3, <1>9, PutFacts
<1>14. /\ commits' \in Nat /\ commits' >= commits /\ clock' \in Nat /\ clock' >= clock
       /\ faults' \in 0..MaxFaults
  BY <1>3, FileFacts
<1>15. UNCHANGED <<generation, known>> /\ Continues(s, c)
  BY <1>3
<1> HIDE <1>3, <1>5
<1>16. QED
  BY <1>4, <1>8, <1>9, <1>10, <1>11, <1>12, <1>13, <1>14, <1>15, PutMoves

LEMMA TrimFailsKeeps == ASSUME NEW s \in Consults, ConsultInv, TrimFails(s) PROVE ConsultInv'
<1>1. PICK c : c = [consults[s] EXCEPT !.pc = "done"]
  OBVIOUS
<1>2. /\ UNCHANGED <<generation, known, verdictRows, clock, commits>> /\ faults < MaxFaults
      /\ faults' = faults + 1 /\ Continues(s, c) /\ consults[s].pc \in {"written", "trimming"}
      /\ puts' = [puts EXCEPT ![s] = NotPut]
  BY <1>1 DEF TrimFails
<1>3. faults' \in 0..MaxFaults
  BY <1>2, ConsultAssumption, FileFacts
<1>4. c \in ConsultRecords /\ c.pc = "done" /\ AnswerIsPast(c, generation) /\ ReuseIsCurrent(c)
  BY <1>1, <1>2, PutForms
<1>5. /\ NotPut \in PutRecords /\ NotPut.stamp = 0 /\ NotPut.counted = 0
      /\ Accounts(NotPut, verdictRows', commits')
  BY DEF NotPut, PutRecords, Accounts
<1>6. RowsAreApart'
  BY <1>2 DEF ConsultInv, RowsAreApart
<1>7. /\ Cardinality(verdictRows') <= Cardinality(verdictRows) + (commits' - commits)
      /\ verdictRows' \subseteq VerdictRecords /\ commits' \in Nat /\ commits' >= commits
      /\ clock' \in Nat /\ clock' >= clock /\ NotPut.stamp <= clock' /\ NotPut.counted <= commits'
  BY <1>2, <1>5, FileFacts
<1>8. QED
  BY <1>2, <1>3, <1>4, <1>5, <1>6, <1>7, PutMoves

LEMMA ConsultStepKeeps == ConsultInv /\ [ConsultNext]_consultVars => ConsultInv'
<1> SUFFICES ASSUME ConsultInv, [ConsultNext]_consultVars PROVE ConsultInv'
  OBVIOUS
<1>1. CASE UNCHANGED consultVars
  BY <1>1 DEF consultVars, fileVars, ConsultInv, ConsultTypes, RowsAreApart, PutsAccount, Accounts,
              AnswersArePast, ReusedIsCurrent
<1>2. CASE GraphMoves
  BY <1>2, GraphMovesKeeps
<1>3. ASSUME NEW s \in Consults, ConsultStep(s) PROVE ConsultInv'
  <2>1. ASSUME NEW scope \in Scopes, NEW wants \in BOOLEAN, Probe(s, scope, wants)
        PROVE  ConsultInv'
    BY <2>1, ProbeKeeps
  <2>2. CASE AskFails(s) \/ Hit(s) \/ Ask(s)
    BY <2>2, AskFailsKeeps, HitKeeps, AskKeeps
  <2>3. CASE Miss(s, FALSE) \/ Miss(s, TRUE)
    BY <2>3, MissKeeps
  <2>4. CASE AskFacts(s, FALSE) \/ AskFacts(s, TRUE)
    BY <2>4, AskFactsKeeps
  <2>5. CASE PutBegins(s) \/ PutCommits(s) \/ PutFails(s)
    BY <2>5, PutBeginsKeeps, PutCommitsKeeps, PutFailsKeeps
  <2>6. CASE CountRows(s) \/ Trim(s) \/ TrimFails(s)
    BY <2>6, CountRowsKeeps, TrimKeeps, TrimFailsKeeps
  <2>7. QED
    BY <1>3, <2>1, <2>2, <2>3, <2>4, <2>5, <2>6 DEF ConsultStep
<1>4. QED
  BY <1>1, <1>2, <1>3 DEF ConsultNext
-----------------------------------------------------------------------------
(* What the proxy offers.                                                  *)
Stamps == Nat
Bounds == Int
Refusals == SUBSET Names
Questions == (SUBSET Names) \cup {NotAsked}

PolicyRecords ==
  [owner : {"none", "bundle", "stdio"}, kept : Contents \cup {NoBundle}, stamp : Stamps,
   bound : Bounds, rejects : Refusals, consulted : Questions,
   withhold : BOOLEAN, degraded : BOOLEAN]

BundleRecords ==
  [there : BOOLEAN, stamp : Stamps, readable : BOOLEAN, scope : {b.scope : b \in Bundles},
   approves : {b.approves : b \in Bundles}]

ExposureTypes ==
  /\ session \in {"new", "consulting", "decided", "up", "failed", "down"}
  /\ catalog \in [Names -> 0..MaxContract] /\ revision \in 0..MaxRevision
  /\ bundle \in BundleRecords /\ settings \in SettingsSet /\ reloads \in 0..MaxSettings
  /\ policy \in PolicyRecords /\ answer \in [asked : SUBSET Names, refused : SUBSET Names]
  /\ advertised \subseteq Names /\ due \in BOOLEAN
  /\ table \in [Names -> {Free, Host} \cup 1..MaxContract]
  /\ owned \in [Names -> 0..MaxContract]

Unapproved(content) == {n \in Present : content.approves[n] # catalog[n]}

(* A policy of the bundle is that of the file whose stamp it has, and its  *)
(* verdicts, when bound to the catalogue in force, are on that catalogue.  *)
PolicyFits(p) ==
  /\ p.owner = "none" => p = NoPolicy
  /\ p.owner = "stdio" => p.kept = NoBundle /\ p.stamp = 0 /\ p.bound = -1
  /\ p.stamp <= bundle.stamp
  /\ p.stamp = bundle.stamp =>
       p.kept = Content(bundle) /\ bundle.readable = TRUE /\ p.withhold = FALSE
  /\ p.bound <= revision
  /\ p.kept # NoBundle /\ p.bound = revision => p.rejects = Unapproved(p.kept)

(* What the startup consult left is its answer, or what its failure does.  *)
ConsultIsKept ==
  /\ session = "new" => policy = NoPolicy
  /\ session = "consulting" => policy.owner = "stdio"
  /\ Deciding /\ policy.owner = "stdio" =>
       \/ policy.degraded = TRUE \/ policy.withhold = TRUE
       \/ policy.consulted = answer.asked /\ policy.rejects = answer.refused

ExposureInv ==
  /\ ExposureTypes /\ bundle.stamp >= 1 /\ PolicyFits(policy) /\ ConsultIsKept
  /\ RegistryIsOwned

LEMMA PolicyForms ==
  /\ NoPolicy \in PolicyRecords /\ NoPolicy.owner = "none" /\ NoPolicy.kept = NoBundle
  /\ NoPolicy.stamp = 0 /\ NoPolicy.bound = -1 /\ NoPolicy.rejects = {}
  /\ NoPolicy.consulted = NotAsked /\ NoPolicy.withhold = FALSE /\ NoPolicy.degraded = FALSE
<1>1. 0 \in Stamps /\ -1 \in Bounds /\ {} \in Refusals /\ NotAsked \in Questions
  BY DEF Stamps, Bounds, Refusals, Questions
<1>2. PICK m \in Bounds : m = -1
  BY <1>1
<1>3. NoPolicy = [owner |-> "none", kept |-> NoBundle, stamp |-> 0, bound |-> m, rejects |-> {},
                  consulted |-> NotAsked, withhold |-> FALSE, degraded |-> FALSE]
  BY <1>2 DEF NoPolicy
<1>4. NoPolicy \in PolicyRecords
  BY <1>1, <1>3 DEF PolicyRecords
<1>5. QED
  BY <1>2, <1>3, <1>4

LEMMA ContentKept ==
  ASSUME bundle \in BundleRecords PROVE Content(bundle) \in Contents /\ Content(bundle) # NoBundle
BY ExposureAssumption DEF Content, Contents, BundleRecords

LEMMA ExposureFacts ==
  ASSUME ExposureInv
  PROVE  /\ revision \in Nat /\ bundle.stamp \in Nat /\ bundle.stamp >= 1
         /\ settings.source \in {"off", "bundle", "stdio"}
         /\ Present \subseteq Names
<1>1. revision \in Nat
  BY ExposureAssumption DEF ExposureInv, ExposureTypes
<1>2. bundle.stamp \in Nat /\ bundle.stamp >= 1
  BY DEF ExposureInv, ExposureTypes, BundleRecords, Stamps
<1>3. settings.source \in {"off", "bundle", "stdio"}
  BY ExposureAssumption DEF ExposureInv, ExposureTypes
<1>4. QED
  BY <1>1, <1>2, <1>3 DEF Present

(* The operators of the policy, by what they leave.                        *)
LEMMA BindForms ==
  ASSUME NEW p \in PolicyRecords, NEW content, revision \in Nat, NEW q, q = Bind(p, content)
  PROVE  /\ q \in PolicyRecords /\ q.owner = p.owner /\ q.kept = p.kept /\ q.stamp = p.stamp
         /\ q.withhold = p.withhold /\ q.degraded = p.degraded
         /\ q.bound = revision /\ q.rejects = Unapproved(content) /\ q.consulted = NotAsked
<1>1. PICK x : x = Unapproved(content)
  OBVIOUS
<1>2. x \in Refusals /\ NotAsked \in Questions
  BY <1>1 DEF Unapproved, Present, Refusals, Questions
<1>3. q = [p EXCEPT !.rejects = x, !.consulted = NotAsked, !.bound = revision]
  BY <1>1 DEF Bind, Unapproved
<1>4. revision \in Bounds
  BY DEF Bounds
<1>5. q \in PolicyRecords
  BY <1>2, <1>3, <1>4 DEF PolicyRecords
<1>6. /\ q.owner = p.owner /\ q.kept = p.kept /\ q.stamp = p.stamp
      /\ q.withhold = p.withhold /\ q.degraded = p.degraded
  BY <1>3 DEF PolicyRecords
<1>7. q.bound = revision /\ q.rejects = x /\ q.consulted = NotAsked
  BY <1>3 DEF PolicyRecords
<1>8. QED
  BY <1>1, <1>5, <1>6, <1>7

LEMMA ReboundForms ==
  ASSUME NEW p \in PolicyRecords, revision \in Nat, NEW q, q = Rebound(p),
         p.kept # NoBundle /\ p.bound = revision => p.rejects = Unapproved(p.kept)
  PROVE  /\ q \in PolicyRecords /\ q.owner = p.owner /\ q.kept = p.kept /\ q.stamp = p.stamp
         /\ q.withhold = p.withhold /\ q.degraded = p.degraded
         /\ p.kept = NoBundle => q = p
         /\ p.kept # NoBundle => q.bound = revision /\ q.rejects = Unapproved(q.kept)
<1>1. CASE p.kept # NoBundle /\ p.bound # revision
  <2>1. q = Bind(p, p.kept)
    BY <1>1 DEF Rebound
  <2>2. QED
    BY <1>1, <2>1, BindForms
<1>2. CASE ~(p.kept # NoBundle /\ p.bound # revision)
  BY <1>2 DEF Rebound
<1>3. QED
  BY <1>1, <1>2

LEMMA AdoptedForms ==
  ASSUME NEW p \in PolicyRecords, ExposureInv, NEW q, q = Adopted(p)
  PROVE  /\ q \in PolicyRecords /\ q.owner = "bundle" /\ q.kept = Content(bundle)
         /\ q.stamp = bundle.stamp /\ q.withhold = FALSE /\ q.degraded = FALSE
         /\ q.bound = revision /\ q.rejects = Unapproved(q.kept)
<1>1. PICK b : b = Bind(p, bundle)
  OBVIOUS
<1>2. b \in PolicyRecords /\ b.bound = revision /\ b.rejects = Unapproved(bundle)
  BY <1>1, BindForms, ExposureFacts
<1>3. PICK c : c = Content(bundle)
  OBVIOUS
<1>4. c \in Contents /\ c.approves = bundle.approves
  BY <1>3, ContentKept DEF ExposureInv, ExposureTypes, Content
<1>5. q = [b EXCEPT !.kept = c, !.stamp = bundle.stamp, !.owner = "bundle", !.degraded = FALSE,
                    !.withhold = FALSE]
  BY <1>1, <1>3 DEF Adopted
<1>6. /\ q \in PolicyRecords /\ q.owner = "bundle" /\ q.kept = c /\ q.stamp = bundle.stamp
      /\ q.withhold = FALSE /\ q.degraded = FALSE /\ q.bound = revision /\ q.rejects = b.rejects
  <2>1. PICK d : d = [b EXCEPT !.kept = c, !.stamp = bundle.stamp, !.owner = "bundle"]
    OBVIOUS
  <2>2. bundle.stamp \in Stamps
    BY ExposureFacts DEF Stamps
  <2>3. /\ d \in PolicyRecords /\ d.owner = "bundle" /\ d.kept = c /\ d.stamp = bundle.stamp
        /\ d.bound = revision /\ d.rejects = b.rejects
    BY <1>2, <1>4, <2>1, <2>2 DEF PolicyRecords
  <2>4. q = [d EXCEPT !.degraded = FALSE, !.withhold = FALSE]
    BY <1>5, <2>1, Zenon
  <2>5. QED
    BY <2>3, <2>4 DEF PolicyRecords
<1>7. QED
  BY <1>2, <1>3, <1>4, <1>6 DEF Unapproved

LEMMA RejectedForms ==
  ASSUME NEW p \in PolicyRecords, ExposureInv, PolicyFits(p), NEW q, q = Rejected(p)
  PROVE  /\ q \in PolicyRecords /\ q.owner = "bundle" /\ q.stamp = 0 /\ q.degraded = TRUE
         /\ Profile = "strict" => q.withhold = TRUE
         /\ q.bound <= revision
         /\ q.kept # NoBundle /\ q.bound = revision => q.rejects = Unapproved(q.kept)
<1>1. PICK r : r = Retired(p, {"stdio"})
  OBVIOUS
<1>2. /\ r \in PolicyRecords /\ r.bound <= revision
      /\ r.kept # NoBundle /\ r.bound = revision => r.rejects = Unapproved(r.kept)
  <2>1. CASE p.owner = "stdio"
    <3>1. r = NoPolicy
      BY <1>1, <2>1 DEF Retired
    <3>2. QED
      BY <3>1, PolicyForms, ExposureFacts
  <2>2. CASE p.owner # "stdio"
    <3>1. r = p
      BY <1>1, <2>2 DEF Retired
    <3>2. QED
      BY <3>1 DEF PolicyFits
  <2>3. QED
    BY <2>1, <2>2
<1>3. PICK u : u = [r EXCEPT !.stamp = 0, !.owner = "bundle", !.degraded = TRUE]
  OBVIOUS
<1>4. /\ u \in PolicyRecords /\ u.owner = "bundle" /\ u.stamp = 0 /\ u.degraded = TRUE
      /\ u.kept = r.kept /\ u.bound = r.bound /\ u.rejects = r.rejects
  <2>1. 0 \in Stamps
    BY DEF Stamps
  <2>2. QED
    BY <1>2, <1>3, <2>1 DEF PolicyRecords
<1>5. CASE Profile = "strict"
  <2>1. q = [u EXCEPT !.withhold = TRUE]
    BY <1>1, <1>3, <1>5 DEF Rejected
  <2>2. /\ q \in PolicyRecords /\ q.owner = "bundle" /\ q.stamp = 0 /\ q.degraded = TRUE
        /\ q.kept = r.kept /\ q.bound = r.bound /\ q.rejects = r.rejects /\ q.withhold = TRUE
    BY <1>4, <2>1 DEF PolicyRecords
  <2>3. QED
    BY <1>2, <2>2
<1>6. CASE Profile # "strict"
  <2>1. PICK w : w = [u EXCEPT !.withhold = FALSE]
    OBVIOUS
  <2>2. q = Rebound(w)
    BY <1>1, <1>3, <1>6, <2>1 DEF Rejected
  <2>3. /\ w \in PolicyRecords /\ w.owner = "bundle" /\ w.stamp = 0 /\ w.degraded = TRUE
        /\ w.kept = r.kept /\ w.bound = r.bound /\ w.rejects = r.rejects
    BY <1>4, <2>1 DEF PolicyRecords
  <2>4. /\ q \in PolicyRecords /\ q.owner = w.owner /\ q.kept = w.kept /\ q.stamp = w.stamp
        /\ q.degraded = w.degraded /\ (w.kept = NoBundle => q = w)
        /\ w.kept # NoBundle => q.bound = revision /\ q.rejects = Unapproved(q.kept)
    BY <1>2, <2>2, <2>3, ReboundForms, ExposureFacts
  <2>5. q.bound <= revision
    <3>1. revision <= revision
      BY ExposureFacts
    <3>2. QED
      BY <1>2, <2>3, <2>4, <3>1
  <2>6. QED
    BY <1>6, <2>3, <2>4, <2>5
<1>7. QED
  BY <1>5, <1>6

\* Who has kept a bundle is its owner.
LEMMA KeeperOwns ==
  ASSUME NEW p \in PolicyRecords, PolicyFits(p), p.kept # NoBundle
  PROVE  p.owner = "bundle"
<1>1. p.owner \in {"none", "bundle", "stdio"}
  BY DEF PolicyRecords
<1>2. p.owner # "none" /\ p.owner # "stdio"
  BY PolicyForms DEF PolicyFits
<1>3. QED
  BY <1>1, <1>2

\* The ways a look at the bundle ends.
LEMMA BundleLook ==
  ASSUME NEW p \in PolicyRecords, ExposureInv, PolicyFits(p), settings.source = "bundle",
         NEW force \in BOOLEAN, NEW torn \in BOOLEAN, NEW q, q = Refreshed(p, force, torn)
  PROVE  \/ /\ q = Rejected(p) /\ (~torn => ~(bundle.there /\ Loads))
         \/ /\ q = Rebound(p) /\ bundle.there /\ bundle.stamp = p.stamp /\ force = FALSE
         \/ /\ q = Adopted(p) /\ bundle.there /\ Loads /\ ~torn
            /\ (force = TRUE \/ bundle.stamp # p.stamp)
<1>1. q = IF ~bundle.there THEN Rejected(p)
          ELSE IF Unchanged(p, force) THEN Rebound(p)
          ELSE IF Loads /\ ~torn THEN Adopted(p) ELSE Rejected(p)
  BY DEF Refreshed
<1>2. CASE ~bundle.there
  BY <1>1, <1>2
<1>3. CASE bundle.there /\ Unchanged(p, force)
  BY <1>1, <1>3 DEF Unchanged
<1>4. CASE bundle.there /\ ~Unchanged(p, force) /\ Loads /\ ~torn
  <2>1. q = Adopted(p)
    BY <1>1, <1>4
  <2>2. QED
    BY <1>4, <2>1 DEF Unchanged
<1>5. CASE bundle.there /\ ~Unchanged(p, force) /\ ~(Loads /\ ~torn)
  BY <1>1, <1>5
<1>6. QED
  BY <1>2, <1>3, <1>4, <1>5

LEMMA RefreshedForms ==
  ASSUME NEW p \in PolicyRecords, ExposureInv, PolicyFits(p),
         NEW force \in BOOLEAN, NEW torn \in BOOLEAN, NEW q, q = Refreshed(p, force, torn)
  PROVE  /\ q \in PolicyRecords /\ PolicyFits(q)
         /\ settings.source = "bundle" => q.owner = "bundle"
         /\ settings.source = "off" => q = NoPolicy
         /\ settings.source = "stdio" => q = NoPolicy \/ q = p
         /\ settings.source = "stdio" /\ p.owner = "stdio" => q = p
         /\ q.owner = "stdio" => q = p
         /\ torn /\ Reads(p, force) => q.stamp = 0
<1>1. NoPolicy \in PolicyRecords /\ PolicyFits(NoPolicy) /\ NoPolicy.owner = "none"
  BY PolicyForms, ExposureFacts DEF PolicyFits
<1>2. CASE settings.source = "off"
  <2>1. q = Retired(p, {"bundle", "stdio"})
    BY <1>2 DEF Refreshed
  <2>2. q = NoPolicy
    BY <2>1 DEF Retired, PolicyFits, PolicyRecords
  <2>3. QED
    BY <1>1, <1>2, <2>2 DEF Reads
<1>3. CASE settings.source = "stdio"
  <2>1. q = Retired(p, {"bundle"})
    BY <1>3 DEF Refreshed
  <2>2. \/ p.owner = "bundle" /\ q = NoPolicy
        \/ p.owner # "bundle" /\ q = p
    BY <2>1 DEF Retired
  <2>3. QED
    BY <1>1, <1>3, <2>2 DEF Reads
<1>4. CASE settings.source = "bundle"
  <2>1. CASE q = Rejected(p)
    <3>1. /\ q \in PolicyRecords /\ q.owner = "bundle" /\ q.stamp = 0 /\ q.bound <= revision
          /\ q.kept # NoBundle /\ q.bound = revision => q.rejects = Unapproved(q.kept)
      BY <2>1, RejectedForms
    <3>2. PolicyFits(q)
      BY <3>1, ExposureFacts DEF PolicyFits
    <3>3. QED
      BY <1>4, <3>1, <3>2
  <2>2. CASE q = Rebound(p) /\ bundle.stamp = p.stamp /\ force = FALSE
    <3>1. p.kept = Content(bundle) /\ bundle.readable = TRUE /\ p.withhold = FALSE
      BY <2>2 DEF PolicyFits
    <3>2. p.kept # NoBundle
      BY <3>1, ContentKept DEF ExposureInv, ExposureTypes
    <3>3. p.owner = "bundle"
      BY <3>2, KeeperOwns
    <3>4. /\ q \in PolicyRecords /\ q.owner = p.owner /\ q.kept = p.kept /\ q.stamp = p.stamp
          /\ q.withhold = p.withhold /\ q.bound = revision /\ q.rejects = Unapproved(q.kept)
      BY <2>2, <3>2, ReboundForms, ExposureFacts DEF PolicyFits
    <3>5. PolicyFits(q)
      BY <2>2, <3>1, <3>3, <3>4, ExposureFacts DEF PolicyFits
    <3>6. ~Reads(p, force)
      BY <2>2 DEF Reads, Unchanged
    <3>7. QED
      BY <1>4, <3>3, <3>4, <3>5, <3>6
  <2>3. CASE q = Adopted(p) /\ Loads /\ ~torn
    <3>1. /\ q \in PolicyRecords /\ q.owner = "bundle" /\ q.kept = Content(bundle)
          /\ q.stamp = bundle.stamp /\ q.withhold = FALSE
          /\ q.bound = revision /\ q.rejects = Unapproved(q.kept)
      BY <2>3, AdoptedForms
    <3>2. bundle.readable = TRUE
      BY <2>3 DEF Loads, ExposureInv, ExposureTypes, BundleRecords
    <3>3. PolicyFits(q)
      BY <3>1, <3>2, ExposureFacts DEF PolicyFits
    <3>4. QED
      BY <1>4, <2>3, <3>1, <3>3
  <2>4. QED
    BY <1>4, <2>1, <2>2, <2>3, BundleLook
<1>5. QED
  BY <1>2, <1>3, <1>4, ExposureFacts

(* Under the strict profile a look withholds everything, for a bundle that *)
(* does not load, or rejects what the bundle does not approve.             *)
LEMMA StrictLook ==
  ASSUME NEW p \in PolicyRecords, ExposureInv, PolicyFits(p), settings.source = "bundle",
         Profile = "strict", NEW q, q = Refreshed(p, FALSE, FALSE)
  PROVE  \/ q.withhold = TRUE /\ ~(bundle.there /\ Loads)
         \/ /\ q.withhold = FALSE /\ bundle.there /\ bundle.readable = TRUE
            /\ q.rejects = {n \in Present : bundle.approves[n] # catalog[n]}
<1>1. Unapproved(Content(bundle)) = {n \in Present : bundle.approves[n] # catalog[n]}
  BY DEF Unapproved, Content
<1>2. CASE q = Rejected(p) /\ ~(bundle.there /\ Loads)
  BY <1>2, RejectedForms
<1>3. CASE q = Rebound(p) /\ bundle.there /\ bundle.stamp = p.stamp
  <2>1. p.kept = Content(bundle) /\ bundle.readable = TRUE /\ p.withhold = FALSE
    BY <1>3 DEF PolicyFits
  <2>2. p.kept # NoBundle
    BY <2>1, ContentKept DEF ExposureInv, ExposureTypes
  <2>3. q.withhold = p.withhold /\ q.rejects = Unapproved(q.kept) /\ q.kept = p.kept
    BY <1>3, <2>2, ReboundForms, ExposureFacts DEF PolicyFits
  <2>4. QED
    BY <1>1, <1>3, <2>1, <2>3
<1>4. CASE q = Adopted(p) /\ bundle.there /\ Loads
  <2>1. q.kept = Content(bundle) /\ q.withhold = FALSE /\ q.rejects = Unapproved(q.kept)
    BY <1>4, AdoptedForms
  <2>2. bundle.readable = TRUE
    BY <1>4 DEF Loads, ExposureInv, ExposureTypes, BundleRecords
  <2>3. QED
    BY <1>1, <1>4, <2>1, <2>2
<1>5. QED
  BY <1>2, <1>3, <1>4, BundleLook

LEMMA ExposureInvShows == ExposureInv => ExposureIsSound
<1> SUFFICES ASSUME ExposureInv PROVE ExposureIsSound
  OBVIOUS
<1>1. policy \in PolicyRecords /\ PolicyFits(policy)
  BY DEF ExposureInv, ExposureTypes
<1>2. ExposureTypeOK
  <2>1. policy.owner \in {"none", "bundle", "stdio"} /\ policy.rejects \subseteq Names
    BY <1>1 DEF PolicyRecords, Refusals
  <2>2. QED
    BY <2>1 DEF ExposureInv, ExposureTypes, ExposureTypeOK
<1>3. PICK q : q = Now
  OBVIOUS
<1>4. q = Refreshed(policy, FALSE, FALSE)
  BY <1>3 DEF Now
<1>10. /\ settings.source = "off" => q = NoPolicy
       /\ settings.source = "stdio" /\ policy.owner = "stdio" => q = policy
  <2>1. ASSUME settings.source = "off" PROVE q = NoPolicy
    <3>1. q = Retired(policy, {"bundle", "stdio"})
      BY <1>4, <2>1 DEF Refreshed
    <3>2. QED
      BY <1>1, <3>1 DEF Retired, PolicyFits, PolicyRecords
  <2>2. ASSUME settings.source = "stdio", policy.owner = "stdio" PROVE q = policy
    <3>1. q = Retired(policy, {"bundle"})
      BY <1>4, <2>2 DEF Refreshed
    <3>2. QED
      BY <2>2, <3>1 DEF Retired
  <2>3. QED
    BY <2>1, <2>2
<1>5. GateFollowsTheBundle
  <2> SUFFICES ASSUME settings.source = "bundle", Profile = "strict", NEW n \in Present
               PROVE  /\ ~Denied(q, n) => bundle.there /\ bundle.readable /\ Approved(n)
                      /\ (bundle.there /\ Loads /\ Approved(n)) => ~Denied(q, n)
    BY <1>3 DEF GateFollowsTheBundle
  <2>1. Denied(q, n) <=> q.withhold \/ n \in q.rejects
    BY DEF Denied
  <2>2. QED
    BY <1>1, <1>4, <2>1, StrictLook DEF Approved
<1>6. OffersAreJudged
  <2> SUFFICES ASSUME Deciding, Profile = "strict" PROVE
        /\ settings.source = "bundle" => \A n \in Offered(q) : bundle.there /\ Approved(n)
        /\ (settings.source = "stdio" /\ policy.owner = "stdio" /\ ~policy.degraded) =>
              Offered(q) \subseteq answer.asked \ answer.refused
        /\ settings.source = "off" =>
              {n \in Present : <<n, catalog[n]>> \notin Hidden \cup Flagged} \subseteq Offered(q)
    BY <1>3 DEF OffersAreJudged
  <2>1. \A n \in Offered(q) : ~q.withhold /\ n \in Present /\ n \notin External(q)
    BY DEF Offered, Suspect
  <2>2. q.rejects \subseteq External(q)
    BY DEF External
  <2>3. ASSUME settings.source = "bundle"
        PROVE  \A n \in Offered(q) : bundle.there /\ Approved(n)
    BY <1>1, <1>4, <2>1, <2>2, <2>3, StrictLook DEF Approved
  <2>4. ASSUME settings.source = "stdio", policy.owner = "stdio", ~policy.degraded
        PROVE  Offered(q) \subseteq answer.asked \ answer.refused
    <3>1. q = policy
      BY <1>10, <2>4
    <3>2. CASE q.withhold
      BY <2>1, <3>2
    <3>3. CASE ~q.withhold
      <4>1. q.consulted = answer.asked /\ q.rejects = answer.refused
        BY <2>4, <3>1, <3>3 DEF ExposureInv, ConsultIsKept
      <4>2. answer.asked # NotAsked
        <5>1. answer.asked \in SUBSET Names
          BY DEF ExposureInv, ExposureTypes
        <5>2. QED
          BY <5>1, ExposureAssumption
      <4>3. External(q) = q.rejects \cup (Present \ q.consulted)
        BY <4>1, <4>2 DEF External
      <4>4. QED
        BY <2>1, <4>1, <4>3
    <3>4. QED
      BY <3>2, <3>3
  <2>5. ASSUME settings.source = "off"
        PROVE  {n \in Present : <<n, catalog[n]>> \notin Hidden \cup Flagged} \subseteq Offered(q)
    <3>1. q = NoPolicy
      BY <1>10, <2>5
    <3>2. External(q) = {} /\ ~q.withhold
      BY <3>1, PolicyForms DEF External
    <3>3. QED
      BY <3>2 DEF Offered, Suspect
  <2>6. QED
    BY <2>3, <2>4, <2>5
<1>7. QED
  BY <1>2, <1>5, <1>6 DEF ExposureInv, ExposureIsSound

\* What a step may never do to the host's names and to the verdict of the consult.
TakesNothing ==
  /\ \A n \in Names : table[n] = Host => table'[n] = Host \/ HostRemoves(n)
  /\ (session \in {"decided", "up"} /\ policy.owner = "stdio" /\ settings.source = "stdio")
       => policy' = policy

LEMMA FitsStay ==
  ASSUME NEW q, PolicyFits(q), policy' = q, UNCHANGED <<catalog, revision, bundle>>
  PROVE  PolicyFits(policy)'
BY DEF PolicyFits, Unapproved, Content, Present

LEMMA PublishedForms ==
  ASSUME NEW content \in Bundles, NEW m \in Stamps
  PROVE  Published(m, content) \in BundleRecords /\ Published(m, content).stamp = m
<1>1. content.readable \in BOOLEAN
  BY ExposureAssumption
<1>2. QED
  BY <1>1 DEF Published, BundleRecords

LEMMA ExposureInitInv == ExposureInit => ExposureInv
<1> SUFFICES ASSUME ExposureInit PROVE ExposureInv
  OBVIOUS
<1>1. PICK content \in Bundles : bundle = Published(1, content)
  BY DEF ExposureInit
<1>2. bundle \in BundleRecords /\ bundle.stamp = 1
  <2>1. 1 \in Stamps
    BY DEF Stamps
  <2>2. QED
    BY <1>1, <2>1, PublishedForms
<1>3. policy \in PolicyRecords /\ PolicyFits(policy)
  BY <1>2, PolicyForms DEF ExposureInit, PolicyFits
<1>4. catalog \in [Names -> 0..MaxContract] /\ owned \in [Names -> 0..MaxContract]
      /\ revision \in 0..MaxRevision /\ reloads \in 0..MaxSettings
  BY ExposureAssumption DEF ExposureInit
<1>5. answer \in [asked : SUBSET Names, refused : SUBSET Names]
  BY DEF ExposureInit, NoAnswer
<1>6. table \in [Names -> {Free, Host}] /\ \A n \in Names : owned[n] = 0
  BY DEF ExposureInit
<1>7. table \in [Names -> {Free, Host} \cup 1..MaxContract]
  BY <1>6
<1>8. ExposureTypes
  BY <1>2, <1>3, <1>4, <1>5, <1>7 DEF ExposureInit, ExposureTypes
<1>9. RegistryIsOwned
  BY <1>6 DEF ExposureInit, RegistryIsOwned
<1>10. ConsultIsKept
  BY DEF ExposureInit, ConsultIsKept, Deciding
<1>11. QED
  BY <1>2, <1>3, <1>8, <1>9, <1>10 DEF ExposureInv

(* The host, the upstreams, the publisher and the operator.                *)
LEMMA HostStepKeeps ==
  ASSUME NEW n \in Names, ExposureInv, HostAdds(n) \/ HostRemoves(n)
  PROVE  ExposureInv' /\ TakesNothing
<1>1. /\ UNCHANGED <<session, catalog, revision, bundle, settings, reloads, policy, answer,
                     advertised, owned, due>>
      /\ \A x \in Names \ {n} : table'[x] = table[x]
      /\ \/ HostAdds(n) /\ table[n] = Free /\ owned[n] = 0 /\ table'[n] = Host
         \/ HostRemoves(n) /\ table'[n] = Free
      /\ table' \in [Names -> {Free, Host} \cup 1..MaxContract]
  BY DEF HostAdds, HostRemoves, ExposureInv, ExposureTypes
<1>2. ExposureTypes' /\ PolicyFits(policy)' /\ ConsultIsKept' /\ bundle'.stamp >= 1
  BY <1>1, FitsStay DEF ExposureInv, ExposureTypes, ConsultIsKept, Deciding
<1>3. RegistryIsOwned'
  BY <1>1 DEF ExposureInv, RegistryIsOwned
<1>4. TakesNothing
  BY <1>1, ExposureAssumption DEF TakesNothing
<1>5. QED
  BY <1>2, <1>3, <1>4 DEF ExposureInv

LEMMA CatalogMovesKeeps ==
  ASSUME NEW n \in Names, NEW v \in 0..MaxContract, ExposureInv, CatalogMoves(n, v)
  PROVE  ExposureInv' /\ TakesNothing
<1>1. /\ UNCHANGED <<session, bundle, settings, reloads, policy, answer, advertised, table, owned>>
      /\ revision < MaxRevision /\ revision' = revision + 1 /\ due' \in BOOLEAN
      /\ catalog' \in [Names -> 0..MaxContract]
  BY DEF CatalogMoves, ExposureInv, ExposureTypes
<1>2. revision' \in 0..MaxRevision
  BY <1>1, ExposureAssumption DEF ExposureInv, ExposureTypes
<1>3. ExposureTypes' /\ ConsultIsKept' /\ RegistryIsOwned' /\ bundle'.stamp >= 1
  BY <1>1, <1>2 DEF ExposureInv, ExposureTypes, ConsultIsKept, Deciding, RegistryIsOwned
<1>4. PolicyFits(policy)'
  <2>1. policy.bound \in Int /\ revision \in Nat /\ policy.bound <= revision
    BY ExposureFacts DEF ExposureInv, ExposureTypes, PolicyRecords, Bounds, PolicyFits
  <2>2. policy.bound <= revision' /\ policy.bound # revision'
    BY <1>1, <2>1
  <2>3. QED
    BY <1>1, <2>2 DEF ExposureInv, PolicyFits, Content
<1>5. TakesNothing
  BY <1>1 DEF TakesNothing
<1>6. QED
  BY <1>3, <1>4, <1>5 DEF ExposureInv

\* Another file, later than every stamp the policy may have.
LEMMA LaterFile ==
  ASSUME NEW content \in Bundles, ExposureInv, NEW q \in PolicyRecords, PolicyFits(q), policy' = q,
         bundle' = Published(bundle.stamp + 1, content), UNCHANGED <<catalog, revision>>
  PROVE  bundle' \in BundleRecords /\ bundle'.stamp >= 1 /\ PolicyFits(policy)'
<1>1. bundle.stamp \in Nat /\ bundle.stamp >= 1 /\ q.stamp \in Nat /\ q.stamp <= bundle.stamp
  BY ExposureFacts DEF PolicyRecords, PolicyFits, Stamps
<1>2. PICK m \in Stamps : m = bundle.stamp + 1
  BY <1>1 DEF Stamps
<1>3. bundle' \in BundleRecords /\ bundle'.stamp = m
  BY <1>2, PublishedForms
<1>4. bundle'.stamp >= 1 /\ q.stamp <= bundle'.stamp /\ q.stamp # bundle'.stamp
  BY <1>1, <1>2, <1>3
<1>5. PolicyFits(policy)'
  BY <1>4 DEF PolicyFits, Unapproved, Present
<1>6. QED
  BY <1>3, <1>4, <1>5

LEMMA PublishBundleKeeps ==
  ASSUME NEW content \in Bundles, ExposureInv, PublishBundle(content)
  PROVE  ExposureInv' /\ TakesNothing
<1>1. /\ UNCHANGED <<session, catalog, revision, settings, reloads, policy, answer, advertised,
                     table, owned, due>>
      /\ bundle' = Published(bundle.stamp + 1, content)
  BY DEF PublishBundle
<1>2. bundle' \in BundleRecords /\ bundle'.stamp >= 1 /\ PolicyFits(policy)'
  BY <1>1, LaterFile DEF ExposureInv, ExposureTypes
<1>3. ExposureTypes' /\ ConsultIsKept' /\ RegistryIsOwned'
  BY <1>1, <1>2 DEF ExposureInv, ExposureTypes, ConsultIsKept, Deciding, RegistryIsOwned
<1>4. QED
  BY <1>1, <1>2, <1>3 DEF ExposureInv, TakesNothing

LEMMA FlickersKeeps == ASSUME ExposureInv, Flickers PROVE ExposureInv' /\ TakesNothing
<1>1. PICK b \in BundleRecords : b = bundle
  BY DEF ExposureInv, ExposureTypes
<1>2. /\ UNCHANGED <<session, catalog, revision, settings, reloads, policy, answer, advertised,
                     table, owned, due>>
      /\ bundle' = [b EXCEPT !.there = ~b.there]
  BY <1>1 DEF Flickers
<1>3. /\ bundle' \in BundleRecords /\ bundle'.stamp = b.stamp /\ bundle'.readable = b.readable
      /\ bundle'.scope = b.scope /\ bundle'.approves = b.approves
  <2>1. PICK w \in BOOLEAN : w = ~b.there
    OBVIOUS
  <2>2. bundle' = [b EXCEPT !.there = w]
    BY <1>2, <2>1, Zenon
  <2>3. QED
    BY <2>2 DEF BundleRecords
<1>4. ExposureTypes' /\ ConsultIsKept' /\ RegistryIsOwned' /\ bundle'.stamp >= 1
  BY <1>1, <1>2, <1>3 DEF ExposureInv, ExposureTypes, ConsultIsKept, Deciding, RegistryIsOwned
<1>5. PolicyFits(policy)'
  BY <1>1, <1>2, <1>3 DEF ExposureInv, PolicyFits, Unapproved, Content, Present
<1>6. QED
  BY <1>2, <1>4, <1>5 DEF ExposureInv, TakesNothing

LEMMA ReloadKeeps ==
  ASSUME NEW s \in SettingsSet, ExposureInv, ReloadSettings(s) PROVE ExposureInv' /\ TakesNothing
<1>1. /\ UNCHANGED <<session, catalog, revision, bundle, policy, answer, advertised, table, owned,
                     due>>
      /\ settings' = s /\ reloads < MaxSettings /\ reloads' = reloads + 1
  BY DEF ReloadSettings
<1>2. reloads' \in 0..MaxSettings
  BY <1>1, ExposureAssumption DEF ExposureInv, ExposureTypes
<1>3. ExposureTypes' /\ ConsultIsKept' /\ RegistryIsOwned' /\ bundle'.stamp >= 1
  BY <1>1, <1>2 DEF ExposureInv, ExposureTypes, ConsultIsKept, Deciding, RegistryIsOwned
<1>4. PolicyFits(policy)'
  BY <1>1, FitsStay DEF ExposureInv
<1>5. QED
  BY <1>1, <1>3, <1>4 DEF ExposureInv, TakesNothing

(* Startup.                                                                *)
LEMMA StartKeeps ==
  ASSUME ExposureInv, StartOff \/ StartOnBundle PROVE ExposureInv' /\ TakesNothing
<1>1. PICK q : q = Refreshed(policy, TRUE, FALSE)
  OBVIOUS
<1>2. /\ q \in PolicyRecords /\ PolicyFits(q)
      /\ settings.source = "bundle" => q.owner = "bundle"
  <2>1. policy \in PolicyRecords /\ PolicyFits(policy)
    BY DEF ExposureInv, ExposureTypes
  <2>2. QED
    BY <1>1, <2>1, RefreshedForms
<1>3. /\ UNCHANGED <<catalog, revision, bundle, settings, reloads, answer, advertised, table, owned,
                     due>>
      /\ session = "new" /\ session' \in {"decided", "failed"}
      /\ policy' = policy \/ (policy' = q /\ settings.source = "bundle")
  BY <1>1 DEF StartOff, StartOnBundle
<1>4. policy = NoPolicy
  BY <1>3 DEF ExposureInv, ConsultIsKept
<1>5. policy' \in PolicyRecords /\ PolicyFits(policy)' /\ policy'.owner # "stdio"
  BY <1>2, <1>3, <1>4, PolicyForms, FitsStay DEF ExposureInv, ExposureTypes
<1>6. ExposureTypes' /\ RegistryIsOwned' /\ bundle'.stamp >= 1
  BY <1>3, <1>5 DEF ExposureInv, ExposureTypes, RegistryIsOwned
<1>7. ConsultIsKept'
  BY <1>3, <1>5 DEF ConsultIsKept
<1>8. TakesNothing
  BY <1>3 DEF TakesNothing
<1>9. QED
  BY <1>5, <1>6, <1>7, <1>8 DEF ExposureInv

\* A policy of the consult fits whatever the bundle is.
LEMMA ConsultFits ==
  ASSUME ExposureInv, NEW q \in PolicyRecords, q.owner = "stdio", q.kept = NoBundle, q.stamp = 0,
         q.bound = -1
  PROVE  PolicyFits(q)
BY ExposureFacts DEF PolicyFits

LEMMA ConsultBeginsKeeps ==
  ASSUME ExposureInv, ConsultBegins PROVE ExposureInv' /\ TakesNothing
<1>1. PICK x : x = IF Present = {} THEN {} ELSE NotAsked
  OBVIOUS
<1>2. x \in Questions
  BY <1>1 DEF Questions
<1>3. PICK q : q = [NoPolicy EXCEPT !.owner = "stdio", !.consulted = x]
  OBVIOUS
<1>4. /\ q \in PolicyRecords /\ q.owner = "stdio" /\ q.kept = NoBundle /\ q.stamp = 0
      /\ q.bound = -1 /\ q.consulted = x /\ q.rejects = {}
  BY <1>2, <1>3, PolicyForms DEF PolicyRecords
<1>5. /\ UNCHANGED <<catalog, revision, bundle, settings, reloads, advertised, table, owned, due>>
      /\ session = "new" /\ policy' = q
      /\ answer' = [NoAnswer EXCEPT !.asked = Present]
      /\ session' = IF Present = {} THEN "decided" ELSE "consulting"
  BY <1>1, <1>3 DEF ConsultBegins
<1>6. /\ answer' \in [asked : SUBSET Names, refused : SUBSET Names]
      /\ answer'.asked = Present /\ answer'.refused = {}
  BY <1>5, ExposureFacts DEF NoAnswer
<1>7. PolicyFits(policy)'
  BY <1>4, <1>5, ConsultFits, FitsStay
<1>8. ExposureTypes' /\ RegistryIsOwned' /\ bundle'.stamp >= 1
  BY <1>4, <1>5, <1>6 DEF ExposureInv, ExposureTypes, RegistryIsOwned
<1>9. ConsultIsKept'
  BY <1>1, <1>4, <1>5, <1>6 DEF ConsultIsKept, Deciding
<1>10. TakesNothing
  BY <1>5 DEF TakesNothing
<1>11. QED
  BY <1>7, <1>8, <1>9, <1>10 DEF ExposureInv

LEMMA ConsultAnswersKeeps ==
  ASSUME NEW refused \in SUBSET Names, ExposureInv, ConsultAnswers(refused)
  PROVE  ExposureInv' /\ TakesNothing
<1>1. PICK p \in PolicyRecords : p = policy
  BY DEF ExposureInv, ExposureTypes
<1>2. PICK a \in [asked : SUBSET Names, refused : SUBSET Names] : a = answer
  BY DEF ExposureInv, ExposureTypes
<1>3. /\ UNCHANGED <<catalog, revision, bundle, settings, reloads, advertised, table, owned, due>>
      /\ session = "consulting" /\ session' = "decided"
      /\ answer' = [a EXCEPT !.refused = refused]
      /\ policy' = [p EXCEPT !.rejects = refused, !.consulted = a.asked]
  BY <1>1, <1>2 DEF ConsultAnswers
<1>4. /\ answer' \in [asked : SUBSET Names, refused : SUBSET Names]
      /\ answer'.asked = a.asked /\ answer'.refused = refused
  BY <1>3
<1>5. p.owner = "stdio" /\ p.kept = NoBundle /\ p.stamp = 0 /\ p.bound = -1
  BY <1>1, <1>3 DEF ExposureInv, ConsultIsKept, PolicyFits
<1>6. /\ policy' \in PolicyRecords /\ policy'.owner = "stdio" /\ policy'.kept = NoBundle
      /\ policy'.stamp = 0 /\ policy'.bound = -1
      /\ policy'.rejects = refused /\ policy'.consulted = a.asked
  <2>1. refused \in Refusals /\ a.asked \in Questions
    BY DEF Refusals, Questions
  <2>2. QED
    BY <1>3, <1>5, <2>1 DEF PolicyRecords
<1>7. PolicyFits(policy)'
  BY <1>3, <1>6, ConsultFits, FitsStay
<1>8. ExposureTypes' /\ RegistryIsOwned' /\ bundle'.stamp >= 1
  BY <1>3, <1>4, <1>6 DEF ExposureInv, ExposureTypes, RegistryIsOwned
<1>9. ConsultIsKept'
  BY <1>3, <1>4, <1>6 DEF ConsultIsKept, Deciding
<1>10. TakesNothing
  BY <1>3 DEF TakesNothing
<1>11. QED
  BY <1>7, <1>8, <1>9, <1>10 DEF ExposureInv

LEMMA ConsultFailsKeeps ==
  ASSUME NEW knob \in {"open", "closed", "fail_start"}, ExposureInv, ConsultFails(knob)
  PROVE  ExposureInv' /\ TakesNothing
<1>1. PICK p \in PolicyRecords : p = policy
  BY DEF ExposureInv, ExposureTypes
<1>2. PICK x \in BOOLEAN : x = (knob = "closed")
  OBVIOUS
<1>3. PICK y \in BOOLEAN : y = (knob = "open")
  OBVIOUS
<1>4. /\ UNCHANGED <<catalog, revision, bundle, settings, reloads, answer, advertised, table, owned,
                     due>>
      /\ session = "consulting"
      /\ session' = IF knob = "fail_start" THEN "failed" ELSE "decided"
  BY DEF ConsultFails
<1>5. policy' = [p EXCEPT !.withhold = x, !.degraded = y]
  BY <1>1, <1>2, <1>3, Zenon DEF ConsultFails
<1>6. p.owner = "stdio" /\ p.kept = NoBundle /\ p.stamp = 0 /\ p.bound = -1
  BY <1>1, <1>4 DEF ExposureInv, ConsultIsKept, PolicyFits
<1>7. /\ policy' \in PolicyRecords /\ policy'.owner = "stdio" /\ policy'.kept = NoBundle
      /\ policy'.stamp = 0 /\ policy'.bound = -1
      /\ policy'.withhold = x /\ policy'.degraded = y
  BY <1>5, <1>6 DEF PolicyRecords
<1>8. PolicyFits(policy)'
  BY <1>4, <1>7, ConsultFits, FitsStay
<1>9. ExposureTypes' /\ RegistryIsOwned' /\ bundle'.stamp >= 1
  BY <1>4, <1>7 DEF ExposureInv, ExposureTypes, RegistryIsOwned
<1>10. ConsultIsKept'
  BY <1>2, <1>3, <1>4, <1>7 DEF ConsultIsKept, Deciding
<1>11. TakesNothing
  BY <1>4 DEF TakesNothing
<1>12. QED
  BY <1>8, <1>9, <1>10, <1>11 DEF ExposureInv

(* A pass: what it claims, keeps and drops.                                *)
LEMMA PassKeeps ==
  ASSUME NEW p \in PolicyRecords, ExposureInv, session \in {"decided", "up"},
         NEW stuck \in SUBSET {n \in Stale(p) : table[n] # Free},
         NEW refused \in SUBSET Claimable(p, stuck), Pass(p, stuck, refused),
         UNCHANGED catalog
  PROVE  /\ policy' = p
         /\ table' \in [Names -> {Free, Host} \cup 1..MaxContract]
         /\ owned' \in [Names -> 0..MaxContract] /\ advertised' \subseteq Names
         /\ RegistryIsOwned'
         /\ \A n \in Names : table[n] = Host => table'[n] = Host
<1> DEFINE held == Held(p, stuck)
<1> DEFINE taken == Claimable(p, stuck) \ refused
<1> DEFINE stale == Stale(p) \ stuck
<1>1. /\ policy' = p
      /\ table' = [n \in Names |-> IF n \in taken THEN catalog[n]
                                   ELSE IF n \in stale THEN Free ELSE table[n]]
      /\ owned' = [n \in Names |-> IF n \in taken THEN catalog[n]
                                   ELSE IF n \in held THEN owned[n] ELSE 0]
      /\ advertised' = Offered(p) \cap (held \cup taken)
  BY DEF Pass
<1>2. Offered(p) \subseteq Present /\ Present \subseteq Names
  BY DEF Offered, Present
<1>3. /\ taken \subseteq Offered(p) /\ taken \cap held = {}
      /\ \A n \in taken : table[n] = Free \/ n \in stale
      /\ held \subseteq Names /\ stale \subseteq Names /\ held \cap stale = {}
      /\ \A n \in held \cup stale : owned[n] # 0
      /\ \A n \in Names : owned[n] # 0 => n \in held \/ n \in stale
  BY DEF Claimable, Held, Stale
<1>4. /\ catalog \in [Names -> 0..MaxContract] /\ owned \in [Names -> 0..MaxContract]
      /\ table \in [Names -> {Free, Host} \cup 1..MaxContract]
  BY DEF ExposureInv, ExposureTypes
<1>5. \A n \in taken : n \in Names /\ catalog[n] \in 1..MaxContract /\ catalog[n] # 0
  BY <1>2, <1>3, <1>4, ExposureAssumption DEF Present
<1>6. /\ \A n \in Names : owned[n] # 0 => table[n] \in {Free, owned[n]}
      /\ \A n \in Names : table[n] \notin {Free, Host} => owned[n] = table[n]
  BY DEF ExposureInv, RegistryIsOwned
<1>7. 0 \in 0..MaxContract /\ \A x \in 1..MaxContract : x \in 0..MaxContract /\ x # 0
  BY ExposureAssumption
<1> HIDE DEF held, taken, stale
<1>8. table' \in [Names -> {Free, Host} \cup 1..MaxContract]
  BY <1>1, <1>4, <1>5
<1>9. owned' \in [Names -> 0..MaxContract]
  BY <1>1, <1>4, <1>5, <1>7
<1>10. advertised' \subseteq Names
  BY <1>1, <1>2
<1>11. \A n \in Names : table[n] = Host => table'[n] = Host
  <2>1. ASSUME NEW n \in Names, table[n] = Host PROVE n \notin taken /\ n \notin stale
    <3>1. Host # Free /\ Host \notin 0..MaxContract
      BY ExposureAssumption
    <3>2. owned[n] = 0
      BY <1>4, <1>6, <2>1, <3>1
    <3>3. QED
      BY <1>3, <2>1, <3>1, <3>2
  <2>2. QED
    BY <1>1, <2>1
<1>12. RegistryIsOwned'
  <2>1. ASSUME NEW n \in advertised' PROVE owned'[n] # 0
    BY <1>1, <1>2, <1>3, <1>5, <2>1
  <2>2. ASSUME NEW n \in Names, owned'[n] # 0 PROVE table'[n] \in {Free, owned'[n]}
    <3>1. CASE n \in taken
      BY <1>1, <3>1
    <3>2. CASE n \notin taken /\ n \in held
      BY <1>1, <1>3, <1>6, <3>2
    <3>3. CASE n \notin taken /\ n \notin held
      BY <1>1, <2>2, <3>3
    <3>4. QED
      BY <3>1, <3>2, <3>3
  <2>3. ASSUME NEW n \in Names, table'[n] \notin {Free, Host} PROVE owned'[n] = table'[n]
    <3>1. CASE n \in taken
      BY <1>1, <3>1
    <3>2. CASE n \notin taken
      <4>1. n \notin stale /\ table'[n] = table[n]
        BY <1>1, <2>3, <3>2
      <4>2. owned[n] = table[n] /\ owned[n] # 0
        BY <1>4, <1>6, <1>7, <2>3, <4>1
      <4>3. QED
        BY <1>1, <1>3, <3>2, <4>1, <4>2
    <3>3. QED
      BY <3>1, <3>2
  <2>4. QED
    BY <2>1, <2>2, <2>3 DEF RegistryIsOwned
<1>13. QED
  BY <1>1, <1>8, <1>9, <1>10, <1>11, <1>12

LEMMA PassesKeeps ==
  ASSUME ExposureInv, Advertise \/ Readvertise PROVE ExposureInv' /\ TakesNothing
<1>1. PICK q : q = Refreshed(policy, FALSE, FALSE)
  OBVIOUS
<1>2. policy \in PolicyRecords /\ PolicyFits(policy)
  BY DEF ExposureInv, ExposureTypes
<1>3. /\ q \in PolicyRecords /\ PolicyFits(q)
      /\ settings.source = "stdio" /\ policy.owner = "stdio" => q = policy
      /\ q.owner = "stdio" => q = policy
  BY <1>1, <1>2, RefreshedForms
<1>4. /\ UNCHANGED <<catalog, revision, bundle, settings, reloads, answer>>
      /\ session \in {"decided", "up"} /\ session' = "up" /\ due' \in BOOLEAN
  BY DEF Advertise, Readvertise, ExposureInv, ExposureTypes
<1>5. PICK stuck \in SUBSET {n \in Stale(q) : table[n] # Free} :
        \E refused \in SUBSET Claimable(q, stuck) : Pass(q, stuck, refused)
  BY <1>1 DEF Advertise, Readvertise, Passes
<1>6. /\ policy' = q
      /\ table' \in [Names -> {Free, Host} \cup 1..MaxContract]
      /\ owned' \in [Names -> 0..MaxContract] /\ advertised' \subseteq Names
      /\ RegistryIsOwned'
      /\ \A n \in Names : table[n] = Host => table'[n] = Host
  BY <1>3, <1>4, <1>5, PassKeeps
<1>7. PolicyFits(policy)'
  BY <1>3, <1>4, <1>6, FitsStay
<1>8. ExposureTypes' /\ bundle'.stamp >= 1
  BY <1>3, <1>4, <1>6 DEF ExposureInv, ExposureTypes
<1>9. ConsultIsKept'
  BY <1>3, <1>4, <1>6 DEF ExposureInv, ConsultIsKept, Deciding
<1>10. TakesNothing
  BY <1>3, <1>6 DEF TakesNothing
<1>11. QED
  BY <1>6, <1>7, <1>8, <1>9, <1>10 DEF ExposureInv

LEMMA ToolCallKeeps == ASSUME ExposureInv, ToolCall PROVE ExposureInv' /\ TakesNothing
<1>1. PICK q : q = Refreshed(policy, FALSE, FALSE)
  OBVIOUS
<1>2. policy \in PolicyRecords /\ PolicyFits(policy)
  BY DEF ExposureInv, ExposureTypes
<1>3. /\ q \in PolicyRecords /\ PolicyFits(q)
      /\ settings.source = "stdio" /\ policy.owner = "stdio" => q = policy
      /\ q.owner = "stdio" => q = policy
  BY <1>1, <1>2, RefreshedForms
<1>4. /\ UNCHANGED <<session, catalog, revision, bundle, settings, reloads, answer, advertised,
                     table, owned, due>>
      /\ session = "up" /\ policy' = q
  BY <1>1 DEF ToolCall
<1>5. PolicyFits(policy)'
  BY <1>3, <1>4, FitsStay
<1>6. ExposureTypes' /\ bundle'.stamp >= 1 /\ RegistryIsOwned'
  BY <1>3, <1>4 DEF ExposureInv, ExposureTypes, RegistryIsOwned
<1>7. ConsultIsKept'
  BY <1>3, <1>4 DEF ExposureInv, ConsultIsKept, Deciding
<1>8. TakesNothing
  BY <1>3, <1>4 DEF TakesNothing
<1>9. QED
  BY <1>5, <1>6, <1>7, <1>8 DEF ExposureInv

LEMMA TornCallKeeps ==
  ASSUME NEW content \in Bundles, ExposureInv, TornCall(content)
  PROVE  ExposureInv' /\ TakesNothing
<1>1. PICK q : q = Refreshed(policy, FALSE, TRUE)
  OBVIOUS
<1>2. policy \in PolicyRecords /\ PolicyFits(policy)
  BY DEF ExposureInv, ExposureTypes
<1>3. /\ UNCHANGED <<session, catalog, revision, settings, reloads, answer, advertised, table,
                     owned, due>>
      /\ session = "up" /\ policy' = q /\ settings.source = "bundle"
      /\ bundle' = Published(bundle.stamp + 1, content)
  BY <1>1 DEF TornCall, Reads
<1>4. /\ q \in PolicyRecords /\ PolicyFits(q)
      /\ settings.source = "bundle" => q.owner = "bundle"
  BY <1>1, <1>2, RefreshedForms
<1>5. bundle' \in BundleRecords /\ bundle'.stamp >= 1 /\ PolicyFits(policy)'
  BY <1>3, <1>4, LaterFile
<1>6. ExposureTypes' /\ RegistryIsOwned'
  BY <1>3, <1>4, <1>5 DEF ExposureInv, ExposureTypes, RegistryIsOwned
<1>7. ConsultIsKept'
  BY <1>3, <1>4 DEF ConsultIsKept
<1>8. TakesNothing
  BY <1>3 DEF TakesNothing
<1>9. QED
  BY <1>5, <1>6, <1>7, <1>8 DEF ExposureInv

LEMMA TeardownKeeps ==
  ASSUME NEW stuck \in SUBSET Names, ExposureInv, Teardown(stuck)
  PROVE  ExposureInv' /\ TakesNothing
<1>1. PICK p \in PolicyRecords : p = policy
  BY DEF ExposureInv, ExposureTypes
<1>2. /\ UNCHANGED <<bundle, settings, reloads, answer, advertised, owned>>
      /\ session = "up" /\ session' = "down" /\ due' = FALSE /\ revision' = 0
      /\ catalog' = [n \in Names |-> 0]
      /\ table' = [n \in Names |-> IF owned[n] # 0 /\ n \notin stuck THEN Free ELSE table[n]]
  BY DEF Teardown
<1>3. PICK m \in Bounds : m = -1
  BY DEF Bounds
<1>4. policy' = [p EXCEPT !.bound = m]
  BY <1>1, <1>3 DEF Teardown
<1>5. /\ policy' \in PolicyRecords /\ policy'.owner = p.owner /\ policy'.kept = p.kept
      /\ policy'.stamp = p.stamp /\ policy'.withhold = p.withhold /\ policy'.bound = m
      /\ p.bound = m => policy' = p
  BY <1>4 DEF PolicyRecords
<1>6. PolicyFits(policy)'
  <2>1. p.owner = "none" => policy' = NoPolicy
    BY <1>1, <1>3, <1>5, PolicyForms DEF ExposureInv, PolicyFits
  <2>2. policy'.bound <= revision' /\ policy'.bound # revision'
    BY <1>2, <1>3, <1>5
  <2>3. QED
    BY <1>1, <1>2, <1>3, <1>5, <2>1, <2>2 DEF ExposureInv, PolicyFits, Content
<1>7. table' \in [Names -> {Free, Host} \cup 1..MaxContract]
  BY <1>2 DEF ExposureInv, ExposureTypes
<1>8. catalog' \in [Names -> 0..MaxContract] /\ revision' \in 0..MaxRevision
  BY <1>2, ExposureAssumption
<1>9. ExposureTypes' /\ bundle'.stamp >= 1
  BY <1>2, <1>5, <1>7, <1>8 DEF ExposureInv, ExposureTypes
<1>10. ConsultIsKept' /\ RegistryIsOwned'
  BY <1>2 DEF ConsultIsKept, Deciding, RegistryIsOwned
<1>11. TakesNothing
  <2>1. ASSUME NEW n \in Names, table[n] = Host PROVE table'[n] = Host
    <3>1. owned[n] = 0
      BY <1>2, <2>1, ExposureAssumption DEF ExposureInv, ExposureTypes, RegistryIsOwned
    <3>2. QED
      BY <1>2, <2>1, <3>1
  <2>2. policy.owner = "stdio" => policy' = policy
    BY <1>1, <1>3, <1>5 DEF ExposureInv, PolicyFits
  <2>3. QED
    BY <2>1, <2>2 DEF TakesNothing
<1>12. QED
  BY <1>6, <1>9, <1>10, <1>11 DEF ExposureInv

LEMMA ExposureStep ==
  ASSUME ExposureInv, [ExposureNext]_exposureVars PROVE ExposureInv' /\ [TakesNothing]_exposureVars
<1>1. CASE UNCHANGED exposureVars
  <2>1. UNCHANGED <<session, catalog, revision, bundle, settings, reloads, policy, answer,
                    advertised, table, owned, due>>
    BY <1>1 DEF exposureVars
  <2>2. PolicyFits(policy)'
    BY <2>1, FitsStay DEF ExposureInv
  <2>3. QED
    BY <1>1, <2>1, <2>2 DEF ExposureInv, ExposureTypes, ConsultIsKept, Deciding, RegistryIsOwned
<1>2. ASSUME NEW n \in Names, HostAdds(n) \/ HostRemoves(n) PROVE ExposureInv' /\ TakesNothing
  BY <1>2, HostStepKeeps
<1>3. ASSUME NEW n \in Names, NEW v \in 0..MaxContract, CatalogMoves(n, v)
      PROVE  ExposureInv' /\ TakesNothing
  BY <1>3, CatalogMovesKeeps
<1>4. ASSUME NEW content \in Bundles, PublishBundle(content) \/ TornCall(content)
      PROVE  ExposureInv' /\ TakesNothing
  BY <1>4, PublishBundleKeeps, TornCallKeeps
<1>5. ASSUME NEW s \in SettingsSet, ReloadSettings(s) PROVE ExposureInv' /\ TakesNothing
  BY <1>5, ReloadKeeps
<1>6. CASE Flickers \/ StartOff \/ StartOnBundle \/ ConsultBegins
  BY <1>6, FlickersKeeps, StartKeeps, ConsultBeginsKeeps
<1>7. ASSUME NEW refused \in SUBSET Names, ConsultAnswers(refused)
      PROVE  ExposureInv' /\ TakesNothing
  BY <1>7, ConsultAnswersKeeps
<1>8. ASSUME NEW knob \in {"open", "closed", "fail_start"}, ConsultFails(knob)
      PROVE  ExposureInv' /\ TakesNothing
  BY <1>8, ConsultFailsKeeps
<1>9. CASE Advertise \/ Readvertise \/ ToolCall
  BY <1>9, PassesKeeps, ToolCallKeeps
<1>10. ASSUME NEW stuck \in SUBSET Names, Teardown(stuck) PROVE ExposureInv' /\ TakesNothing
  BY <1>10, TeardownKeeps
<1>11. QED
  BY <1>1, <1>2, <1>3, <1>4, <1>5, <1>6, <1>7, <1>8, <1>9, <1>10 DEF ExposureNext

(* Whatever is published, reloaded, re-listed and asked, in whatever order: *)
(* a strict call passes as the bundle on disk decides, what is offered was *)
(* judged by what is in force, what is advertised is registered, and a     *)
(* start that reuses a verdict of the graph gets the graph's own.          *)
THEOREM OffersStaySound == ManagerSpec => []OffersAreSound
<1>1. ManagerInit => ExposureInv /\ ConsultInv
  BY ManagerInitParts, ExposureInitInv, ConsultInitInv
<1>2. (ExposureInv /\ ConsultInv) /\ [ManagerNext]_managerVars => (ExposureInv /\ ConsultInv)'
  BY ManagerStepParts, ExposureStep, ConsultStepKeeps
<1>3. ExposureInv /\ ConsultInv => OffersAreSound
  BY ExposureInvShows, ConsultInvShows DEF OffersAreSound
<1>4. QED
  BY <1>1, <1>2, <1>3, PTL DEF ManagerSpec

(* No pass and no teardown takes a name of the embedding host, and no      *)
(* rebuild wipes the verdict of the consult while its source is in force.  *)
THEOREM NamesStayTheHosts == ManagerSpec => NothingIsTaken
<1>1. ManagerInit => ExposureInv
  BY ManagerInitParts, ExposureInitInv
<1>2. ExposureInv /\ [ManagerNext]_managerVars => ExposureInv' /\ [TakesNothing]_exposureVars
  BY ManagerStepParts, ExposureStep
<1>3. [TakesNothing]_exposureVars =>
        [/\ \A n \in Names : table[n] = Host => table'[n] = Host \/ HostRemoves(n)
         /\ (session \in {"decided", "up"} /\ policy.owner = "stdio"
             /\ settings.source = "stdio") => policy' = policy]_exposureVars
  BY DEF TakesNothing
<1>4. QED
  BY <1>1, <1>2, <1>3, PTL DEF ManagerSpec, NothingIsTaken
---------------------------------------------------------------------------
(* Pending stores.  A compressor counts the calls that pin it, and its     *)
(* store is open while the slot or a pin needs it.                         *)

Pcs == {"idle", "fetched", "scoring", "expiring", "trimming", "ended", "over"}
PinCounts == Nat
Marks == Nat
ToolMarks == Tools \cup {CHOOSE t \in Tools : TRUE}
CompressorRecords == [cfg : Selectives, open : BOOLEAN, asked : BOOLEAN, uses : PinCounts]
ProgressRecords ==
  [pc : Pcs, tool : ToolMarks, kind : {"selective", "progressive"}, pin : Marks,
   store : Marks, target : Marks, gone : BOOLEAN]

Pinning(d, i) ==
  d.pc \in {"scoring", "expiring", "trimming", "ended"} /\ d.store = i /\ d.gone = FALSE
Holders(pr, i) == {c \in Calls : Pinning(pr[c], i)}

Needed(s, i, z, holders) ==
  /\ s.uses = Cardinality(holders)
  /\ s.open = TRUE <=> (i = z \/ holders # {})
  /\ s.asked = TRUE => i # z
  /\ s.open = TRUE /\ i # z => s.asked = TRUE

StoresFit(ss, z, pr) ==
  /\ ss \in Seq(CompressorRecords) /\ z \in 0..Len(ss) /\ pr \in [Calls -> ProgressRecords]
  /\ \A c \in Calls : \A i : Pinning(pr[c], i) => i \in 1..Len(ss)
  /\ \A i \in 1..Len(ss) : Needed(ss[i], i, z, Holders(pr, i))

LEMMA HoldersFinite ==
  ASSUME NEW pr, NEW i
  PROVE  /\ IsFiniteSet(Holders(pr, i)) /\ Cardinality(Holders(pr, i)) \in Nat
         /\ Cardinality(Holders(pr, i)) = 0 <=> Holders(pr, i) = {}
<1>1. IsFiniteSet(Holders(pr, i))
  BY PendingAssumption, FS_Subset DEF Holders
<1>2. QED
  BY <1>1, FS_CardinalityType, FS_EmptySet

LEMMA ProgressMove ==
  ASSUME NEW pr \in [Calls -> ProgressRecords], NEW c \in Calls, NEW d \in ProgressRecords,
         NEW q, q = [pr EXCEPT ![c] = d]
  PROVE  q \in [Calls -> ProgressRecords] /\ q[c] = d /\ \A x \in Calls \ {c} : q[x] = pr[x]
OBVIOUS

LEMMA SequenceUpdate ==
  ASSUME NEW S, NEW ss \in Seq(S), NEW i \in 1..Len(ss), NEW x \in S,
         NEW t, t = [ss EXCEPT ![i] = x]
  PROVE  /\ t \in Seq(S) /\ Len(t) = Len(ss) /\ t[i] = x
         /\ \A j \in 1..Len(ss) : j # i => t[j] = ss[j]
OBVIOUS

LEMMA CompressorFields ==
  ASSUME NEW s \in CompressorRecords
  PROVE  s.uses \in Nat /\ s.open \in BOOLEAN /\ s.asked \in BOOLEAN /\ s.cfg \in Selectives
BY DEF CompressorRecords, PinCounts

LEMMA CompressorUses ==
  ASSUME NEW s \in CompressorRecords, NEW n \in PinCounts, NEW x, x = [s EXCEPT !.uses = n]
  PROVE  /\ x \in CompressorRecords /\ x.uses = n /\ x.open = s.open /\ x.asked = s.asked
         /\ x.cfg = s.cfg
BY DEF CompressorRecords

LEMMA CompressorAsked ==
  ASSUME NEW s \in CompressorRecords, NEW x, x = [s EXCEPT !.asked = TRUE]
  PROVE  /\ x \in CompressorRecords /\ x.uses = s.uses /\ x.open = s.open /\ x.asked = TRUE
         /\ x.cfg = s.cfg
BY DEF CompressorRecords

LEMMA CompressorOpen ==
  ASSUME NEW s \in CompressorRecords, NEW b \in BOOLEAN, NEW x, x = [s EXCEPT !.open = b]
  PROVE  /\ x \in CompressorRecords /\ x.uses = s.uses /\ x.open = b /\ x.asked = s.asked
         /\ x.cfg = s.cfg
BY DEF CompressorRecords

LEMMA PinnedForm ==
  ASSUME NEW ss \in Seq(CompressorRecords), NEW i \in 1..Len(ss), NEW t, t = Pinned(ss, i)
  PROVE  /\ t \in Seq(CompressorRecords) /\ Len(t) = Len(ss)
         /\ \A j \in 1..Len(ss) : j # i => t[j] = ss[j]
         /\ t[i].uses = ss[i].uses + 1 /\ t[i].open = ss[i].open /\ t[i].asked = ss[i].asked
         /\ t[i].cfg = ss[i].cfg
<1>1. ss[i] \in CompressorRecords
  OBVIOUS
<1>2. PICK n : n = ss[i].uses + 1
  OBVIOUS
<1>3. n \in PinCounts
  BY <1>1, <1>2, CompressorFields DEF PinCounts
<1>4. PICK x : x = [ss[i] EXCEPT !.uses = n]
  OBVIOUS
<1>5. /\ x \in CompressorRecords /\ x.uses = n /\ x.open = ss[i].open
      /\ x.asked = ss[i].asked /\ x.cfg = ss[i].cfg
  BY <1>1, <1>3, <1>4, CompressorUses
<1>6. t = [ss EXCEPT ![i] = x]
  BY <1>1, <1>2, <1>4 DEF Pinned
<1>7. QED
  BY <1>2, <1>5, <1>6, SequenceUpdate

Releases(ss, i, t) ==
  /\ t \in Seq(CompressorRecords) /\ Len(t) = Len(ss)
  /\ \A j \in 1..Len(ss) : j # i => t[j] = ss[j]
  /\ t[i].uses = ss[i].uses - 1 /\ t[i].asked = ss[i].asked /\ t[i].cfg = ss[i].cfg
  /\ ss[i].open = TRUE /\ ~(ss[i].asked = TRUE /\ ss[i].uses = 1) => t[i].open = TRUE
  /\ ~(ss[i].open = TRUE /\ ~(ss[i].asked = TRUE /\ ss[i].uses = 1)) => t[i].open = FALSE

LEMMA ReleasedForm ==
  ASSUME NEW ss \in Seq(CompressorRecords), NEW i \in 1..Len(ss), ss[i].uses >= 1,
         NEW t, t = Released(ss, i)
  PROVE  Releases(ss, i, t)
<1>1. ss[i] \in CompressorRecords
  OBVIOUS
<1>2. PICK n : n = ss[i].uses - 1
  OBVIOUS
<1>3. n \in PinCounts
  <2>1. ss[i].uses \in Nat
    BY <1>1, CompressorFields
  <2>2. QED
    BY <1>2, <2>1 DEF PinCounts
<1>4. PICK b \in BOOLEAN : b = (ss[i].open /\ ~(ss[i].asked /\ ss[i].uses = 1))
  OBVIOUS
<1>5. PICK x : x = [ss[i] EXCEPT !.uses = n]
  OBVIOUS
<1>6. /\ x \in CompressorRecords /\ x.uses = n /\ x.open = ss[i].open
      /\ x.asked = ss[i].asked /\ x.cfg = ss[i].cfg
  BY <1>1, <1>3, <1>5, CompressorUses
<1>7. PICK y : y = [x EXCEPT !.open = b]
  OBVIOUS
<1>8. /\ y \in CompressorRecords /\ y.uses = n /\ y.open = b
      /\ y.asked = ss[i].asked /\ y.cfg = ss[i].cfg
  BY <1>6, <1>7, CompressorOpen
<1>11. t = [ss EXCEPT ![i] = y]
  BY <1>1, <1>2, <1>4, <1>5, <1>7 DEF Released, CompressorRecords
<1>9. b = TRUE <=> ss[i].open = TRUE /\ ~(ss[i].asked = TRUE /\ ss[i].uses = 1)
  <2>1. ss[i].open \in BOOLEAN /\ ss[i].asked \in BOOLEAN
    BY <1>1, CompressorFields
  <2>2. QED
    BY <1>4, <2>1
<1>10. QED
  BY <1>2, <1>8, <1>9, <1>11, SequenceUpdate DEF Releases

ClosesAt(ss, i, t) ==
  /\ t \in Seq(CompressorRecords) /\ Len(t) = Len(ss)
  /\ \A j \in 1..Len(ss) : j # i => t[j] = ss[j]
  /\ i # 0 => t[i].uses = ss[i].uses /\ t[i].cfg = ss[i].cfg
  /\ i # 0 /\ ss[i].uses > 0 => t[i].open = ss[i].open /\ t[i].asked = TRUE
  /\ i # 0 /\ ~(ss[i].uses > 0) => t[i].open = FALSE /\ t[i].asked = ss[i].asked

LEMMA ClosedForm ==
  ASSUME NEW ss \in Seq(CompressorRecords), NEW i \in 0..Len(ss), NEW t, t = Closed(ss, i)
  PROVE  ClosesAt(ss, i, t)
<1>1. CASE i = 0
  BY <1>1 DEF Closed, ClosesAt
<1>2. CASE i # 0
  <2>1. i \in 1..Len(ss) /\ ss[i] \in CompressorRecords
    BY <1>2
  <2>2. CASE ss[i].uses > 0
    <3>1. PICK x : x = [ss[i] EXCEPT !.asked = TRUE]
      OBVIOUS
    <3>2. /\ x \in CompressorRecords /\ x.uses = ss[i].uses /\ x.open = ss[i].open
          /\ x.asked = TRUE /\ x.cfg = ss[i].cfg
      BY <2>1, <3>1, CompressorAsked
    <3>3. t = [ss EXCEPT ![i] = x]
      BY <1>2, <2>1, <2>2, <3>1 DEF Closed
    <3>4. QED
      BY <1>2, <2>1, <2>2, <3>2, <3>3, SequenceUpdate DEF ClosesAt
  <2>3. CASE ~(ss[i].uses > 0)
    <3>1. PICK x : x = [ss[i] EXCEPT !.open = FALSE]
      OBVIOUS
    <3>2. /\ x \in CompressorRecords /\ x.uses = ss[i].uses /\ x.open = FALSE
          /\ x.asked = ss[i].asked /\ x.cfg = ss[i].cfg
      BY <2>1, <3>1, CompressorFields DEF CompressorRecords
    <3>3. t = [ss EXCEPT ![i] = x]
      BY <1>2, <2>1, <2>3, <3>1 DEF Closed
    <3>4. QED
      BY <1>2, <2>1, <2>3, <3>2, <3>3, SequenceUpdate DEF ClosesAt
  <2>4. QED
    BY <2>2, <2>3
<1>3. QED
  BY <1>1, <1>2

LEMMA CloseFits ==
  ASSUME NEW ss, NEW z, NEW pr, StoresFit(ss, z, pr), NEW t, t = Closed(ss, z)
  PROVE  StoresFit(t, 0, pr) /\ Len(t) = Len(ss)
<1>1. /\ t \in Seq(CompressorRecords) /\ Len(t) = Len(ss)
      /\ \A j \in 1..Len(ss) : j # z => t[j] = ss[j]
      /\ z # 0 => t[z].uses = ss[z].uses
      /\ z # 0 /\ ss[z].uses > 0 => t[z].open = ss[z].open /\ t[z].asked = TRUE
      /\ z # 0 /\ ~(ss[z].uses > 0) => t[z].open = FALSE
  <2>1. ss \in Seq(CompressorRecords) /\ z \in 0..Len(ss)
    BY DEF StoresFit
  <2>2. ClosesAt(ss, z, t)
    BY <2>1, ClosedForm
  <2>3. QED
    BY <2>2 DEF ClosesAt
<1>2. ASSUME NEW i \in 1..Len(ss) PROVE Needed(t[i], i, 0, Holders(pr, i))
  <2>1. Needed(ss[i], i, z, Holders(pr, i)) /\ i # 0
    BY DEF StoresFit
  <2>2. CASE i # z
    BY <1>1, <2>1, <2>2 DEF Needed
  <2>3. CASE i = z
    <3>1. Cardinality(Holders(pr, i)) = 0 <=> Holders(pr, i) = {}
      BY HoldersFinite
    <3>2. Cardinality(Holders(pr, i)) \in Nat
      BY HoldersFinite
    <3>3. CASE ss[i].uses > 0
      BY <1>1, <2>1, <2>3, <3>1, <3>2, <3>3 DEF Needed
    <3>4. CASE ~(ss[i].uses > 0)
      BY <1>1, <2>1, <2>3, <3>1, <3>2, <3>4 DEF Needed
    <3>5. QED
      BY <3>3, <3>4
  <2>4. QED
    BY <2>2, <2>3
<1>3. 0 \in 0..Len(t)
  BY <1>1
<1>4. QED
  BY <1>1, <1>2, <1>3 DEF StoresFit

LEMMA BuildFits ==
  ASSUME NEW ss, NEW pr, StoresFit(ss, 0, pr), NEW s \in Selectives,
         NEW t, t = Append(ss, Built(s))
  PROVE  /\ StoresFit(t, Len(ss) + 1, pr) /\ Len(t) = Len(ss) + 1
         /\ t[Len(ss) + 1].cfg = s /\ \A i \in 1..Len(ss) : t[i] = ss[i]
<1> DEFINE n == Len(ss) + 1
<1>1. PICK b : b = Built(s)
  OBVIOUS
<1>2. b \in CompressorRecords /\ b.cfg = s /\ b.uses = 0 /\ b.open = TRUE /\ b.asked = FALSE
  BY <1>1 DEF Built, CompressorRecords, PinCounts
<1>3. ss \in Seq(CompressorRecords) /\ Len(ss) \in Nat
  BY DEF StoresFit
<1>4. /\ t \in Seq(CompressorRecords) /\ Len(t) = n /\ t[n] = b
      /\ \A i \in 1..Len(ss) : t[i] = ss[i]
  BY <1>1, <1>2, <1>3
<1>5. ASSUME NEW i \in 1..n PROVE Needed(t[i], i, n, Holders(pr, i))
  <2>1. CASE i = n
    <3>1. Holders(pr, i) = {}
      <4>1. \A c \in Calls : ~Pinning(pr[c], i)
        BY <1>3, <2>1 DEF StoresFit
      <4>2. QED
        BY <4>1 DEF Holders
    <3>2. Cardinality(Holders(pr, i)) = 0
      BY <3>1, HoldersFinite
    <3>3. QED
      BY <1>2, <1>4, <2>1, <3>1, <3>2 DEF Needed
  <2>2. CASE i # n
    <3>1. i \in 1..Len(ss) /\ i # 0
      BY <1>3, <2>2
    <3>2. Needed(ss[i], i, 0, Holders(pr, i))
      BY <3>1 DEF StoresFit
    <3>3. QED
      BY <1>4, <2>2, <3>1, <3>2 DEF Needed
  <2>3. QED
    BY <2>1, <2>2
<1>6. \A c \in Calls : \A i : Pinning(pr[c], i) => i \in 1..n
  BY <1>3 DEF StoresFit
<1>7. n \in 0..Len(t) /\ pr \in [Calls -> ProgressRecords]
  BY <1>3, <1>4 DEF StoresFit
<1>8. StoresFit(t, n, pr)
  BY <1>4, <1>5, <1>6, <1>7 DEF StoresFit
<1>9. QED
  BY <1>2, <1>4, <1>8

Unpinned(d) == \A i : ~Pinning(d, i)
PinsOnly(d, z) == \A i : Pinning(d, i) <=> i = z

LEMMA PinFits ==
  ASSUME NEW ss, NEW z, NEW pr, StoresFit(ss, z, pr), z # 0, NEW c \in Calls,
         Unpinned(pr[c]), NEW d \in ProgressRecords, PinsOnly(d, z),
         NEW t, t = Pinned(ss, z), NEW q, q = [pr EXCEPT ![c] = d]
  PROVE  StoresFit(t, z, q) /\ Len(t) = Len(ss)
<1>1. ss \in Seq(CompressorRecords) /\ z \in 1..Len(ss) /\ pr \in [Calls -> ProgressRecords]
  BY DEF StoresFit
<1>2. /\ t \in Seq(CompressorRecords) /\ Len(t) = Len(ss)
      /\ \A j \in 1..Len(ss) : j # z => t[j] = ss[j]
      /\ t[z].uses = ss[z].uses + 1 /\ t[z].open = ss[z].open /\ t[z].asked = ss[z].asked
      /\ t[z].cfg = ss[z].cfg
  BY <1>1, PinnedForm
<1>3. /\ q \in [Calls -> ProgressRecords] /\ q[c] = d /\ \A x \in Calls \ {c} : q[x] = pr[x]
  BY <1>1, ProgressMove
<1>4. \A i : c \notin Holders(pr, i)
  BY DEF Holders, Unpinned
<1>5. ASSUME NEW i \in 1..Len(ss) PROVE Needed(t[i], i, z, Holders(q, i))
  <2>1. Needed(ss[i], i, z, Holders(pr, i))
    BY DEF StoresFit
  <2>2. CASE i # z
    <3>4. ~Pinning(d, i)
      BY <2>2 DEF PinsOnly
    <3>1. Holders(q, i) = Holders(pr, i)
      BY <1>3, <1>4, <3>4 DEF Holders
    <3>2. QED
      BY <1>2, <2>1, <2>2, <3>1
  <2>3. CASE i = z
    <3>4. Pinning(d, i)
      BY <2>3 DEF PinsOnly
    <3>1. Holders(q, i) = Holders(pr, i) \cup {c} /\ c \notin Holders(pr, i)
      BY <1>3, <1>4, <3>4 DEF Holders
    <3>2. Cardinality(Holders(q, i)) = Cardinality(Holders(pr, i)) + 1
      BY <3>1, HoldersFinite, FS_AddElement
    <3>3. QED
      BY <1>2, <2>1, <2>3, <3>1, <3>2 DEF Needed
  <2>4. QED
    BY <2>2, <2>3
<1>6. \A x \in Calls : \A i : Pinning(q[x], i) => i \in 1..Len(t)
  BY <1>1, <1>2, <1>3 DEF StoresFit, PinsOnly
<1>7. z \in 0..Len(t)
  BY <1>1, <1>2
<1>8. QED
  BY <1>2, <1>3, <1>5, <1>6, <1>7 DEF StoresFit

LEMMA ReleaseFits ==
  ASSUME NEW ss, NEW z, NEW pr, StoresFit(ss, z, pr), NEW c \in Calls, NEW n,
         Pinning(pr[c], n), NEW d \in ProgressRecords, Unpinned(d),
         NEW t, t = Released(ss, n), NEW q, q = [pr EXCEPT ![c] = d]
  PROVE  StoresFit(t, z, q) /\ Len(t) = Len(ss)
<1>11. \A i : ~Pinning(d, i)
  BY DEF Unpinned
<1>1. ss \in Seq(CompressorRecords) /\ n \in 1..Len(ss) /\ pr \in [Calls -> ProgressRecords]
  BY DEF StoresFit
<1>2. c \in Holders(pr, n) /\ \A i : i # n => c \notin Holders(pr, i)
  BY DEF Holders, Pinning
<1>3. Needed(ss[n], n, z, Holders(pr, n)) /\ ss[n].uses >= 1 /\ ss[n] \in CompressorRecords
  <2>1. Needed(ss[n], n, z, Holders(pr, n)) /\ ss[n] \in CompressorRecords
    BY <1>1 DEF StoresFit
  <2>2. Cardinality(Holders(pr, n)) \in Nat /\ Cardinality(Holders(pr, n)) # 0
    BY <1>2, HoldersFinite
  <2>3. QED
    BY <2>1, <2>2 DEF Needed
<1>4. /\ t \in Seq(CompressorRecords) /\ Len(t) = Len(ss)
      /\ \A j \in 1..Len(ss) : j # n => t[j] = ss[j]
      /\ t[n].uses = ss[n].uses - 1 /\ t[n].asked = ss[n].asked /\ t[n].cfg = ss[n].cfg
      /\ ss[n].open = TRUE /\ ~(ss[n].asked = TRUE /\ ss[n].uses = 1) => t[n].open = TRUE
      /\ ~(ss[n].open = TRUE /\ ~(ss[n].asked = TRUE /\ ss[n].uses = 1)) => t[n].open = FALSE
  <2>1. ss \in Seq(CompressorRecords) /\ n \in 1..Len(ss) /\ ss[n].uses >= 1
    BY <1>1, <1>3
  <2>2. Releases(ss, n, t)
    BY <2>1, ReleasedForm
  <2>3. QED
    BY <2>2 DEF Releases
<1>5. /\ q \in [Calls -> ProgressRecords] /\ q[c] = d /\ \A x \in Calls \ {c} : q[x] = pr[x]
  BY <1>1, ProgressMove
<1>6. ASSUME NEW i \in 1..Len(ss) PROVE Needed(t[i], i, z, Holders(q, i))
  <2>1. Needed(ss[i], i, z, Holders(pr, i))
    BY DEF StoresFit
  <2>2. CASE i # n
    <3>1. Holders(q, i) = Holders(pr, i)
      BY <1>2, <1>5, <1>11, <2>2 DEF Holders
    <3>2. QED
      BY <1>4, <2>1, <2>2, <3>1
  <2>3. CASE i = n
    <3>1. Holders(q, n) = Holders(pr, n) \ {c}
      BY <1>5, <1>11 DEF Holders
    <3>2. Cardinality(Holders(q, n)) = Cardinality(Holders(pr, n)) - 1
      BY <1>2, <3>1, HoldersFinite, FS_RemoveElement
    <3>3. /\ Cardinality(Holders(pr, n)) \in Nat
          /\ Cardinality(Holders(q, n)) = 0 <=> Holders(q, n) = {}
      BY HoldersFinite
    <3>4. t[n].uses = Cardinality(Holders(q, n))
      BY <1>3, <1>4, <3>2 DEF Needed
    <3>8. ss[n].uses = Cardinality(Holders(pr, n))
      BY <1>3 DEF Needed
    <3>9. ss[n].uses = 1 <=> Cardinality(Holders(q, n)) = 0
      <4>1. PICK k : k = Cardinality(Holders(pr, n))
        OBVIOUS
      <4>2. k \in Nat /\ Cardinality(Holders(q, n)) = k - 1 /\ ss[n].uses = k
        BY <3>2, <3>3, <3>8, <4>1
      <4>3. QED
        BY <4>2
    <3>5. ss[n].uses = 1 <=> Holders(q, n) = {}
      BY <3>3, <3>9
    <3>6. ss[n].open = TRUE /\ (n # z => ss[n].asked = TRUE) /\ (ss[n].asked = TRUE => n # z)
      BY <1>2, <1>3 DEF Needed
    <3>7. QED
      BY <1>4, <2>3, <3>4, <3>5, <3>6 DEF Needed
  <2>4. QED
    BY <2>2, <2>3
<1>7. \A x \in Calls : \A i : Pinning(q[x], i) => i \in 1..Len(t)
  BY <1>1, <1>4, <1>5, <1>11 DEF StoresFit
<1>8. z \in 0..Len(t)
  BY <1>4 DEF StoresFit
<1>10. QED
  BY <1>4, <1>5, <1>6, <1>7, <1>8 DEF StoresFit

LEMMA QuietFits ==
  ASSUME NEW ss, NEW z, NEW pr, StoresFit(ss, z, pr), NEW c \in Calls,
         NEW d \in ProgressRecords, \A i : Pinning(d, i) <=> Pinning(pr[c], i),
         NEW q, q = [pr EXCEPT ![c] = d]
  PROVE  StoresFit(ss, z, q)
<1>1. pr \in [Calls -> ProgressRecords]
  BY DEF StoresFit
<1>2. /\ q \in [Calls -> ProgressRecords] /\ q[c] = d /\ \A x \in Calls \ {c} : q[x] = pr[x]
  BY <1>1, ProgressMove
<1>3. \A i : Holders(q, i) = Holders(pr, i)
  BY <1>2 DEF Holders
<1>4. \A x \in Calls : \A i : Pinning(q[x], i) => Pinning(pr[x], i)
  BY <1>2
<1>5. QED
  BY <1>2, <1>3, <1>4 DEF StoresFit
---------------------------------------------------------------------------
(* Rows.  A rank is its row's place in the order of use.                   *)

Ranks == 1..MaxRank
RowRecords == [key : Keys, format : {"json", "progressive"}, rank : Ranks, old : BOOLEAN]

Ordered(rs, o) ==
  /\ IsFiniteSet(rs)
  /\ \A r, q \in rs : /\ <<r.key, q.key>> \in o <=> r.rank < q.rank
                      /\ r.key = q.key \/ r.rank = q.rank => r = q

RowsInv ==
  /\ rows \in [Places -> SUBSET RowRecords] /\ order \in [Places -> SUBSET (Keys \X Keys)]
  /\ \A p \in Places : Ordered(rows[p], order[p])

\* What is left when rows go, or age.
Thins(ss, rs) ==
  /\ IsFiniteSet(rs)
  /\ \A r \in rs : \E q \in ss : q.key = r.key /\ q.rank = r.rank
  /\ \A r, q \in rs : r.key = q.key => r = q

LEMMA RankFields ==
  ASSUME NEW r \in RowRecords
  PROVE  r.rank \in Nat /\ r.rank >= 1 /\ r.rank <= MaxRank /\ r.key \in Keys /\ r.old \in BOOLEAN
<1>1. r.rank \in Ranks /\ r.key \in Keys /\ r.old \in BOOLEAN
  BY DEF RowRecords
<1>2. QED
  BY <1>1, PendingAssumption DEF Ranks

\* A set of numbers has a least element.
LEMMA LeastNumber ==
  ASSUME NEW T, T \subseteq Nat, T # {}
  PROVE  \E x \in T : \A y \in T : x <= y
<1>1. \E x \in T : \A y \in T : ~(<<y, x>> \in OpToRel(<, Nat))
  BY NatLessThanWellFounded, WFMin, Zenon
<1>2. ASSUME NEW x \in T, NEW y \in T, ~(<<y, x>> \in OpToRel(<, Nat))
      PROVE  x <= y
  <2>1. <<y, x>> \in Nat \X Nat
    OBVIOUS
  <2>2. ~(y < x)
    BY <1>2, <2>1 DEF OpToRel
  <2>3. QED
    BY <2>2
<1>3. QED
  BY <1>1, <1>2

LEMMA HighestRank ==
  ASSUME NEW rs, rs \subseteq RowRecords, rs # {}
  PROVE  \E m \in {r.rank : r \in rs} : \A r \in rs : r.rank <= m
<1> DEFINE T == {MaxRank - r.rank : r \in rs}
<1>1. \A r \in rs : r.rank \in Nat /\ MaxRank - r.rank \in Nat
  BY RankFields, PendingAssumption
<1>2. T \subseteq Nat /\ T # {}
  BY <1>1
<1>3. PICK x \in T : \A y \in T : x <= y
  BY <1>2, LeastNumber
<1>4. PICK h \in rs : x = MaxRank - h.rank
  BY <1>3
<1>5. ASSUME NEW r \in rs PROVE r.rank <= h.rank
  <2>1. MaxRank - h.rank <= MaxRank - r.rank
    BY <1>3, <1>4
  <2>2. h.rank \in Nat /\ r.rank \in Nat /\ MaxRank \in Nat
    BY <1>1, PendingAssumption
  <2>3. QED
    BY <2>1, <2>2
<1>6. QED
  BY <1>4, <1>5

LEMMA NextRankAbove ==
  ASSUME NEW rs, rs \subseteq RowRecords
  PROVE  NextRank(rs) \in Nat /\ NextRank(rs) >= 1 /\ \A r \in rs : r.rank < NextRank(rs)
<1>1. CASE rs = {}
  BY <1>1 DEF NextRank
<1>2. CASE rs # {}
  <2>1. PICK m : m = CHOOSE x \in {r.rank : r \in rs} : \A r \in rs : r.rank <= x
    OBVIOUS
  <2>2. m \in {r.rank : r \in rs} /\ \A r \in rs : r.rank <= m
    BY <1>2, <2>1, HighestRank
  <2>3. NextRank(rs) = 1 + m
    BY <1>2, <2>1 DEF NextRank
  <2>4. m \in Nat /\ \A r \in rs : r.rank \in Nat
    BY <2>2, RankFields
  <2>5. QED
    BY <2>2, <2>3, <2>4
<1>3. QED
  BY <1>1, <1>2

LEMMA NextRankLess ==
  ASSUME NEW rs, rs \subseteq RowRecords, NEW bs, bs \subseteq rs
  PROVE  NextRank(bs) <= NextRank(rs)
<1>1. NextRank(rs) \in Nat /\ NextRank(rs) >= 1 /\ \A r \in rs : r.rank < NextRank(rs)
  BY NextRankAbove
<1>2. CASE bs = {}
  BY <1>1, <1>2 DEF NextRank
<1>3. CASE bs # {}
  <2>1. PICK m : m = CHOOSE x \in {r.rank : r \in bs} : \A r \in bs : r.rank <= x
    OBVIOUS
  <2>2. m \in {r.rank : r \in bs}
    BY <1>3, <2>1, HighestRank
  <2>3. NextRank(bs) = 1 + m
    BY <1>3, <2>1 DEF NextRank
  <2>4. m \in Nat /\ m < NextRank(rs)
    BY <1>1, <2>2, RankFields
  <2>5. QED
    BY <1>1, <2>3, <2>4
<1>4. QED
  BY <1>2, <1>3

LEMMA ThinOrder ==
  ASSUME NEW ss, NEW o, Ordered(ss, o), NEW rs, Thins(ss, rs),
         NEW x, x = {e \in o : {e[1], e[2]} \subseteq KeysOf(rs)}
  PROVE  Ordered(rs, x)
<1>1. ASSUME NEW r \in rs, NEW q \in rs
      PROVE  /\ <<r.key, q.key>> \in x <=> r.rank < q.rank
             /\ r.key = q.key \/ r.rank = q.rank => r = q
  <2>1. PICK a \in ss : a.key = r.key /\ a.rank = r.rank
    BY DEF Thins
  <2>2. PICK b \in ss : b.key = q.key /\ b.rank = q.rank
    BY DEF Thins
  <2>3. /\ <<a.key, b.key>> \in o <=> a.rank < b.rank
        /\ a.key = b.key \/ a.rank = b.rank => a = b
    BY DEF Ordered
  <2>4. r.key \in KeysOf(rs) /\ q.key \in KeysOf(rs)
    BY DEF KeysOf
  <2>5. <<r.key, q.key>> \in x <=> <<r.key, q.key>> \in o
    BY <2>4
  <2>6. r.key = q.key => r = q
    BY DEF Thins
  <2>7. QED
    BY <2>1, <2>2, <2>3, <2>5, <2>6
<1>2. QED
  BY <1>1 DEF Ordered, Thins

UsedPairs(o, rs, k) ==
  {e \in {y \in o : {y[1], y[2]} \subseteq KeysOf(rs)} : e[1] # k}
    \cup ((KeysOf(rs) \ {k}) \X {k})

LEMMA UseOrder ==
  ASSUME NEW ss, NEW o, Ordered(ss, o), NEW bs, Thins(ss, bs), bs \subseteq RowRecords,
         NEW k, NEW n \in RowRecords, n.key = k, \A r \in bs : r.rank < n.rank,
         NEW rs, rs = Other(bs, k) \cup {n},
         NEW x, x = UsedPairs(o, rs, k)
  PROVE  Ordered(rs, x)
<1>1. \A r \in rs : r = n \/ (r \in bs /\ r.key # k)
  <2>1. \A r \in Other(bs, k) : r \in bs /\ r.key # k
    BY DEF Other
  <2>2. \A r \in rs : r = n \/ r \in Other(bs, k)
    OBVIOUS
  <2>3. QED
    BY <2>1, <2>2
<1>2. \A r \in bs : r.rank \in Nat /\ n.rank \in Nat
  BY RankFields
<1>3. ASSUME NEW r \in rs, NEW q \in rs
      PROVE  /\ <<r.key, q.key>> \in x <=> r.rank < q.rank
             /\ r.key = q.key \/ r.rank = q.rank => r = q
  <2>1. r.key \in KeysOf(rs) /\ q.key \in KeysOf(rs)
    BY DEF KeysOf
  <2>2. <<r.key, q.key>> \in x <=> \/ <<r.key, q.key>> \in o /\ r.key # k
                                   \/ r.key # k /\ q.key = k
    <3>1. PICK e : e = <<r.key, q.key>>
      OBVIOUS
    <3>2. e[1] = r.key /\ e[2] = q.key
      BY <3>1
    <3>3. e \in (KeysOf(rs) \ {k}) \X {k} <=> r.key # k /\ q.key = k
      BY <2>1, <3>1
    <3>4. e \in {y \in o : {y[1], y[2]} \subseteq KeysOf(rs)} <=> e \in o
      BY <2>1, <3>2
    <3>5. e \in x <=> \/ e \in {y \in o : {y[1], y[2]} \subseteq KeysOf(rs)} /\ e[1] # k
                      \/ e \in (KeysOf(rs) \ {k}) \X {k}
      BY DEF UsedPairs
    <3>6. QED
      BY <3>1, <3>2, <3>3, <3>4, <3>5
  <2>3. CASE r = n
    <3>1. CASE q = n
      BY <2>2, <2>3, <3>1, RankFields
    <3>2. CASE q # n
      <4>1. q \in bs /\ q.key # k
        BY <1>1, <3>2
      <4>2. q.rank < n.rank /\ q.rank \in Nat /\ n.rank \in Nat
        BY <1>2, <4>1
      <4>3. QED
        BY <2>2, <2>3, <4>1, <4>2
    <3>3. QED
      BY <3>1, <3>2
  <2>4. CASE r # n /\ q = n
    <3>1. r \in bs /\ r.key # k
      BY <1>1, <2>4
    <3>2. r.rank < n.rank /\ r.rank \in Nat /\ n.rank \in Nat
      BY <1>2, <3>1
    <3>3. QED
      BY <2>2, <2>4, <3>1, <3>2
  <2>5. CASE r # n /\ q # n
    <3>1. r \in bs /\ r.key # k /\ q \in bs /\ q.key # k
      BY <1>1, <2>5
    <3>2. PICK a \in ss : a.key = r.key /\ a.rank = r.rank
      BY <3>1 DEF Thins
    <3>3. PICK b \in ss : b.key = q.key /\ b.rank = q.rank
      BY <3>1 DEF Thins
    <3>4. /\ <<a.key, b.key>> \in o <=> a.rank < b.rank
          /\ a.key = b.key \/ a.rank = b.rank => a = b
      BY DEF Ordered
    <3>5. r.key = q.key => r = q
      BY <3>1 DEF Thins
    <3>6. q # n /\ q.key # k
      BY <2>5, <3>1
    <3>7. <<r.key, q.key>> \in x <=> <<r.key, q.key>> \in o
      BY <2>2, <3>1, <3>6
    <3>8. QED
      BY <3>2, <3>3, <3>4, <3>5, <3>7
  <2>6. QED
    BY <2>3, <2>4, <2>5
<1>4. IsFiniteSet(rs)
  <2>1. Other(bs, k) \subseteq bs
    BY DEF Other
  <2>2. IsFiniteSet(Other(bs, k))
    BY <2>1, FS_Subset DEF Thins
  <2>3. QED
    BY <2>2, FS_AddElement
<1>5. QED
  BY <1>3, <1>4 DEF Ordered

\* A step's effect on the keys.
AddsNone == \A q \in Places : KeysOf(rows'[q]) \subseteq KeysOf(rows[q])
AddsAt(p, k) ==
  \A q \in Places : \A x \in KeysOf(rows'[q]) : x \in KeysOf(rows[q]) \/ (q = p /\ x = k)
DropsOld == \A q \in Places : \A r \in rows[q] : r.old = FALSE => r.key \in KeysOf(rows'[q])

LEMMA SubsetThins ==
  ASSUME NEW ss, NEW o, Ordered(ss, o), NEW rs, rs \subseteq ss
  PROVE  Thins(ss, rs)
<1>1. IsFiniteSet(rs)
  BY FS_Subset DEF Ordered
<1>2. QED
  BY <1>1 DEF Thins, Ordered

LEMMA RowsAt ==
  ASSUME RowsInv, NEW p \in Places
  PROVE  rows[p] \subseteq RowRecords /\ Ordered(rows[p], order[p]) /\ IsFiniteSet(rows[p])
BY DEF RowsInv, Ordered

LEMMA RowsReplaced ==
  ASSUME RowsInv, NEW p \in Places, NEW rs, rs \subseteq RowRecords, NEW o,
         o \subseteq Keys \X Keys, Ordered(rs, o),
         rows' = [rows EXCEPT ![p] = rs], order' = [order EXCEPT ![p] = o]
  PROVE  RowsInv' /\ rows'[p] = rs /\ \A q \in Places \ {p} : rows'[q] = rows[q]
<1>1. /\ rows' \in [Places -> SUBSET RowRecords] /\ rows'[p] = rs
      /\ \A q \in Places \ {p} : rows'[q] = rows[q]
  BY DEF RowsInv
<1>2. /\ order' \in [Places -> SUBSET (Keys \X Keys)] /\ order'[p] = o
      /\ \A q \in Places \ {p} : order'[q] = order[q]
  BY DEF RowsInv
<1>3. \A q \in Places : Ordered(rows'[q], order'[q])
  BY <1>1, <1>2 DEF RowsInv
<1>4. QED
  BY <1>1, <1>2, <1>3 DEF RowsInv

LEMMA KeysTyped ==
  ASSUME NEW rs, rs \subseteq RowRecords
  PROVE  KeysOf(rs) \subseteq Keys
BY RankFields DEF KeysOf

LEMMA RowsBecome ==
  ASSUME RowsInv, NEW p \in Places, NEW rs, rs \subseteq RowRecords, Thins(rows[p], rs),
         Becomes(p, rs)
  PROVE  RowsInv' /\ rows'[p] = rs /\ \A q \in Places \ {p} : rows'[q] = rows[q]
<1>1. PICK o : o = Left(p, rs)
  OBVIOUS
<1>2. o = {e \in order[p] : {e[1], e[2]} \subseteq KeysOf(rs)}
  BY <1>1 DEF Left
<1>3. o \subseteq Keys \X Keys
  BY <1>2 DEF RowsInv
<1>4. Ordered(rs, o)
  BY <1>2, RowsAt, ThinOrder
<1>5. rows' = [rows EXCEPT ![p] = rs] /\ order' = [order EXCEPT ![p] = o]
  BY <1>1 DEF Becomes
<1>6. QED
  BY <1>3, <1>4, <1>5, RowsReplaced

Above(bs, n) == \A r \in bs : r.rank < n.rank
\* bs with the row of k, if any, replaced by n.
With(bs, k, n) == Other(bs, k) \cup {n}
Apart(bs) == \A r, q \in bs : r.key = q.key => r = q

LEMMA RowsUse ==
  ASSUME RowsInv, NEW p \in Places, NEW bs, bs \subseteq RowRecords, Thins(rows[p], bs),
         NEW k \in Keys, NEW n \in RowRecords, n.key = k, Above(bs, n),
         NEW rs, rs = With(bs, k, n), BecomesUsing(p, k, rs)
  PROVE  RowsInv' /\ rows'[p] = rs /\ \A q \in Places \ {p} : rows'[q] = rows[q]
<1>1. PICK o : o = Used(p, k, rs)
  OBVIOUS
<1>2. o = UsedPairs(order[p], rs, k)
  BY <1>1 DEF Used, Left, UsedPairs
<1>3. rs \subseteq RowRecords
  <2>1. Other(bs, k) \subseteq bs
    BY DEF Other
  <2>2. QED
    BY <2>1 DEF With
<1>4. o \subseteq Keys \X Keys
  <2>1. KeysOf(rs) \subseteq Keys /\ order[p] \subseteq Keys \X Keys
    BY <1>3, KeysTyped DEF RowsInv
  <2>2. QED
    BY <1>2, <2>1 DEF UsedPairs
<1>5. Ordered(rs, o)
  <2>1. Ordered(rows[p], order[p])
    BY RowsAt
  <2>2. QED
    BY <1>2, <2>1, UseOrder DEF Above, With
<1>6. rows' = [rows EXCEPT ![p] = rs] /\ order' = [order EXCEPT ![p] = o]
  BY <1>1 DEF BecomesUsing
<1>7. QED
  BY <1>3, <1>4, <1>5, <1>6, RowsReplaced

LEMMA PutForm ==
  ASSUME NEW bs, bs \subseteq RowRecords, NEW k \in Keys, NEW f \in {"json", "progressive"},
         NextRank(bs) <= MaxRank
  PROVE  \E n \in RowRecords : /\ n.key = k /\ n.old = FALSE /\ Above(bs, n)
                               /\ PutRow(bs, k, f) = With(bs, k, n)
<1>1. PICK m : m = NextRank(bs)
  OBVIOUS
<1>2. m \in Ranks /\ \A r \in bs : r.rank < m
  BY <1>1, NextRankAbove, PendingAssumption DEF Ranks
<1>3. PICK n : n = [key |-> k, format |-> f, rank |-> m, old |-> FALSE]
  OBVIOUS
<1>4. n \in RowRecords /\ n.key = k /\ n.rank = m /\ n.old = FALSE
  BY <1>2, <1>3 DEF RowRecords
<1>5. PutRow(bs, k, f) = With(bs, k, n)
  BY <1>1, <1>3 DEF PutRow, With
<1>6. Above(bs, n)
  BY <1>2, <1>4 DEF Above
<1>7. QED
  BY <1>4, <1>5, <1>6

LEMMA TouchedForm ==
  ASSUME NEW bs, bs \subseteq RowRecords, Apart(bs),
         NEW k \in KeysOf(bs), NextRank(bs) <= MaxRank
  PROVE  \E n \in RowRecords : /\ n.key = k /\ n.old = FALSE /\ Above(bs, n)
                               /\ Touched(bs, k) = With(bs, k, n)
<1>1. PICK m : m = NextRank(bs)
  OBVIOUS
<1>2. m \in Ranks /\ \A r \in bs : r.rank < m
  BY <1>1, NextRankAbove, PendingAssumption DEF Ranks
<1>3. PICK h \in bs : h.key = k
  BY DEF KeysOf
<1>4. PICK n : n = [h EXCEPT !.rank = m, !.old = FALSE]
  OBVIOUS
<1>5. n \in RowRecords /\ n.key = k /\ n.rank = m /\ n.old = FALSE
  BY <1>2, <1>3, <1>4 DEF RowRecords
<1>6. DEFINE g(r) == [r EXCEPT !.rank = IF r.key = k THEN m ELSE r.rank,
                               !.old = IF r.key = k THEN FALSE ELSE r.old]
<1>7. Touched(bs, k) = {g(r) : r \in bs}
  BY <1>1 DEF Touched
<1>8. ASSUME NEW r \in bs, r.key # k PROVE g(r) = r
  BY <1>8 DEF RowRecords
<1>9. g(h) = n
  BY <1>3, <1>4
<1>10. Other(bs, k) = {r \in bs : r.key # k} /\ \A r \in bs : r.key = k => r = h
  BY <1>3 DEF Other, Apart
<1>11. {g(r) : r \in bs} = Other(bs, k) \cup {n}
  <2> HIDE DEF g
  <2>1. ASSUME NEW x \in {g(r) : r \in bs} PROVE x \in Other(bs, k) \cup {n}
    <3>1. PICK r \in bs : x = g(r)
      OBVIOUS
    <3>2. CASE r.key = k
      BY <1>9, <1>10, <3>1, <3>2
    <3>3. CASE r.key # k
      BY <1>8, <1>10, <3>1, <3>3
    <3>4. QED
      BY <3>2, <3>3
  <2>2. ASSUME NEW x \in Other(bs, k) \cup {n} PROVE x \in {g(r) : r \in bs}
    <3>1. CASE x = n
      BY <1>3, <1>9, <3>1
    <3>2. CASE x # n
      <4>1. x \in bs /\ x.key # k
        BY <1>10, <3>2
      <4>2. x = g(x)
        BY <1>8, <4>1
      <4>3. QED
        BY <4>1, <4>2
    <3>3. QED
      BY <3>1, <3>2
  <2>3. QED
    BY <2>1, <2>2
<1>12. Above(bs, n)
  BY <1>2, <1>5 DEF Above
<1>13. QED
  BY <1>5, <1>7, <1>11, <1>12 DEF With

LEMMA OtherKeys ==
  ASSUME NEW bs, NEW k, NEW n, n.key = k, NEW rs, rs = With(bs, k, n)
  PROVE  KeysOf(rs) = KeysOf(bs) \cup {k}
<1>1. rs = {r \in bs : r.key # k} \cup {n}
  BY DEF Other, With
<1>2. ASSUME NEW x \in KeysOf(rs) PROVE x \in KeysOf(bs) \cup {k}
  BY <1>1 DEF KeysOf
<1>3. ASSUME NEW x \in KeysOf(bs) \cup {k} PROVE x \in KeysOf(rs)
  <2>1. CASE x = k
    <3>1. n \in rs
      BY <1>1
    <3>2. QED
      BY <2>1, <3>1 DEF KeysOf
  <2>2. CASE x # k
    <3>1. PICK r \in bs : r.key = x
      BY <2>2 DEF KeysOf
    <3>2. r \in rs
      BY <1>1, <2>2, <3>1
    <3>3. QED
      BY <3>1, <3>2 DEF KeysOf
  <2>3. QED
    BY <2>1, <2>2
<1>4. QED
  BY <1>2, <1>3

LEMMA KeysKept ==
  ASSUME NEW rs, NEW r \in rs
  PROVE  r.key \in KeysOf(rs)
BY DEF KeysOf

\* Every row that has not expired keeps its key.
UnexpiredIn(p, ks) == \A r \in rows[p] : r.old = FALSE => r.key \in ks

LEMMA UseKeeps ==
  ASSUME RowsInv, NEW p \in Places, NEW bs, bs \subseteq rows[p],
         UnexpiredIn(p, KeysOf(bs)),
         NEW k \in Keys, NEW n \in RowRecords, n.key = k, Above(bs, n),
         NEW rs, rs = With(bs, k, n), BecomesUsing(p, k, rs)
  PROVE  RowsInv' /\ AddsAt(p, k) /\ DropsOld
<1>1. rows[p] \subseteq RowRecords /\ Ordered(rows[p], order[p])
  BY RowsAt
<1>2. Thins(rows[p], bs) /\ bs \subseteq RowRecords
  BY <1>1, SubsetThins
<1>3. RowsInv' /\ rows'[p] = rs /\ \A q \in Places \ {p} : rows'[q] = rows[q]
  BY <1>2, RowsUse
<1>4. KeysOf(rs) = KeysOf(bs) \cup {k}
  BY OtherKeys
<1>5. KeysOf(bs) \subseteq KeysOf(rows[p])
  BY DEF KeysOf
<1>6. AddsAt(p, k)
  BY <1>3, <1>4, <1>5 DEF AddsAt
<1>7. ASSUME NEW q \in Places, NEW r \in rows[q], r.old = FALSE PROVE r.key \in KeysOf(rows'[q])
  <2>1. CASE q = p
    BY <1>3, <1>4, <1>7, <2>1 DEF UnexpiredIn
  <2>2. CASE q # p
    BY <1>3, <2>2 DEF KeysOf
  <2>3. QED
    BY <2>1, <2>2
<1>8. QED
  BY <1>3, <1>6, <1>7 DEF DropsOld

LEMMA PutRowKeeps ==
  ASSUME RowsInv, NEW p \in Places, NEW c \in Keys, NEW f \in {"json", "progressive"},
         BecomesUsing(p, c, PutRow(rows[p], c, f))
  PROVE  RowsInv' /\ AddsAt(p, c) /\ DropsOld
<1>1. rows[p] \subseteq RowRecords
  BY RowsAt
<1>2. NextRank(rows[p]) <= MaxRank
  BY DEF BecomesUsing
<1>3. PICK n \in RowRecords : /\ n.key = c /\ Above(rows[p], n)
                              /\ PutRow(rows[p], c, f) = With(rows[p], c, n)
  <2>1. \E n \in RowRecords : /\ n.key = c /\ n.old = FALSE /\ Above(rows[p], n)
                              /\ PutRow(rows[p], c, f) = With(rows[p], c, n)
    BY <1>1, <1>2, PutForm
  <2>2. QED
    BY <2>1
<1>4. PICK rs : rs = PutRow(rows[p], c, f)
  OBVIOUS
<1>5. rs = With(rows[p], c, n) /\ BecomesUsing(p, c, rs)
  BY <1>3, <1>4
<1>6. UnexpiredIn(p, KeysOf(rows[p]))
  BY KeysKept DEF UnexpiredIn
<1>7. rows[p] \subseteq rows[p]
  OBVIOUS
<1>8. QED
  BY <1>3, <1>5, <1>6, <1>7, UseKeeps

LEMMA TouchKeeps ==
  ASSUME RowsInv, NEW p \in Places, NEW bs, bs \subseteq rows[p],
         \A r \in rows[p] : r.old = FALSE => r \in bs, NEW k \in KeysOf(bs),
         BecomesUsing(p, k, Touched(bs, k))
  PROVE  RowsInv' /\ AddsNone /\ DropsOld
<1>1. rows[p] \subseteq RowRecords /\ Ordered(rows[p], order[p])
  BY RowsAt
<1>2. bs \subseteq RowRecords /\ \A r, q \in bs : r.key = q.key => r = q
  BY <1>1 DEF Ordered
<1>3. NextRank(bs) <= MaxRank
  <2>1. NextRank(rows[p]) <= MaxRank
    BY DEF BecomesUsing
  <2>2. NextRank(bs) <= NextRank(rows[p]) /\ NextRank(bs) \in Nat /\ NextRank(rows[p]) \in Nat
    BY <1>1, <1>2, NextRankLess, NextRankAbove
  <2>3. QED
    BY <2>1, <2>2, PendingAssumption
<1>4. PICK n \in RowRecords : /\ n.key = k /\ Above(bs, n)
                              /\ Touched(bs, k) = With(bs, k, n)
  <2>1. Apart(bs)
    BY <1>2 DEF Apart
  <2>2. bs \subseteq RowRecords
    BY <1>2
  <2>3. \E n \in RowRecords : /\ n.key = k /\ n.old = FALSE /\ Above(bs, n)
                              /\ Touched(bs, k) = With(bs, k, n)
    BY <1>3, <2>1, <2>2, TouchedForm
  <2>4. QED
    BY <2>3
<1>5. PICK rs : rs = Touched(bs, k)
  OBVIOUS
<1>6. rs = With(bs, k, n) /\ BecomesUsing(p, k, rs)
  BY <1>4, <1>5
<1>7. UnexpiredIn(p, KeysOf(bs))
  BY KeysKept DEF UnexpiredIn
<1>8. k \in Keys /\ k \in KeysOf(rows[p])
  <2>1. KeysOf(bs) \subseteq KeysOf(rows[p])
    BY DEF KeysOf
  <2>2. QED
    BY <1>2, <2>1, KeysTyped
<1>9. RowsInv' /\ AddsAt(p, k) /\ DropsOld
  BY <1>4, <1>6, <1>7, <1>8, UseKeeps
<1>10. AddsNone
  BY <1>8, <1>9 DEF AddsAt, AddsNone
<1>11. QED
  BY <1>9, <1>10

LEMMA ThinKeeps ==
  ASSUME RowsInv, NEW p \in Places, NEW rs, rs \subseteq RowRecords, Thins(rows[p], rs),
         Becomes(p, rs)
  PROVE  /\ RowsInv' /\ AddsNone /\ rows'[p] = rs /\ \A q \in Places \ {p} : rows'[q] = rows[q]
         /\ UnexpiredIn(p, KeysOf(rs)) => DropsOld
<1>1. RowsInv' /\ rows'[p] = rs /\ \A q \in Places \ {p} : rows'[q] = rows[q]
  BY RowsBecome
<1>2. KeysOf(rs) \subseteq KeysOf(rows[p])
  BY DEF KeysOf, Thins
<1>3. AddsNone
  BY <1>1, <1>2 DEF AddsNone
<1>4. ASSUME UnexpiredIn(p, KeysOf(rs)) PROVE DropsOld
  <2>1. ASSUME NEW q \in Places, NEW r \in rows[q], r.old = FALSE
        PROVE  r.key \in KeysOf(rows'[q])
    <3>1. CASE q = p
      BY <1>1, <1>4, <2>1, <3>1 DEF UnexpiredIn
    <3>2. CASE q # p
      BY <1>1, <3>2, KeysKept
    <3>3. QED
      BY <3>1, <3>2
  <2>2. QED
    BY <2>1 DEF DropsOld
<1>5. QED
  BY <1>1, <1>3, <1>4

LEMMA SubsetKeeps ==
  ASSUME RowsInv, NEW p \in Places, NEW rs, rs \subseteq rows[p],
         \A r \in rows[p] : r.old = FALSE => r \in rs, Becomes(p, rs)
  PROVE  RowsInv' /\ AddsNone /\ DropsOld
<1>1. rows[p] \subseteq RowRecords /\ Ordered(rows[p], order[p])
  BY RowsAt
<1>2. Thins(rows[p], rs) /\ rs \subseteq RowRecords
  BY <1>1, SubsetThins
<1>3. UnexpiredIn(p, KeysOf(rs))
  BY KeysKept DEF UnexpiredIn
<1>4. QED
  BY <1>2, <1>3, ThinKeeps

LEMMA ExpiredKeeps ==
  ASSUME NEW rs, rs \subseteq RowRecords, NEW kind
  PROVE  Expired(rs, kind) \subseteq rs /\ \A r \in rs : r.old = FALSE => r \in Expired(rs, kind)
BY RankFields DEF Expired

LEMMA LooksKeep ==
  ASSUME RowsInv, NEW k, NEW kind, NEW ps, ps \subseteq Places, NEW first \in Places,
         Looks(k, kind, ps, first)
  PROVE  RowsInv' /\ AddsNone /\ DropsOld
<1>1. CASE Found(k, kind, ps) # {}
  <2>1. PICK p : p = CHOOSE q \in Found(k, kind, ps) : TRUE
    OBVIOUS
  <2>2. p \in Found(k, kind, ps) /\ p \in Places
    BY <1>1, <2>1 DEF Found
  <2>3. PICK bs : bs = Expired(rows[p], kind)
    OBVIOUS
  <2>4. BecomesUsing(p, k, Touched(bs, k))
    BY <1>1, <2>1, <2>3 DEF Looks
  <2>5. bs \subseteq rows[p] /\ \A r \in rows[p] : r.old = FALSE => r \in bs
    BY <2>2, <2>3, RowsAt, ExpiredKeeps
  <2>6. PICK h \in rows[p] : h.key = k /\ ~h.old
    BY <2>2 DEF Found, Readable
  <2>7. h.old = FALSE
    BY <2>2, <2>6, RowsAt, RankFields
  <2>8. k \in KeysOf(bs)
    BY <2>5, <2>6, <2>7, KeysKept
  <2>9. QED
    BY <2>2, <2>4, <2>5, <2>8, TouchKeeps
<1>2. CASE Found(k, kind, ps) = {}
  <2>1. PICK bs : bs = Expired(rows[first], kind)
    OBVIOUS
  <2>2. Becomes(first, bs)
    BY <1>2, <2>1 DEF Looks
  <2>3. bs \subseteq rows[first] /\ \A r \in rows[first] : r.old = FALSE => r \in bs
    BY <2>1, RowsAt, ExpiredKeeps
  <2>4. QED
    BY <2>2, <2>3, SubsetKeeps
<1>3. QED
  BY <1>1, <1>2

LEMMA ForgetsKeep ==
  ASSUME RowsInv, NEW ps, Forgets(ps)
  PROVE  /\ RowsInv' /\ AddsNone /\ \A q \in Places \ ps : rows'[q] = rows[q]
<1>1. rows' = [p \in Places |-> IF p \in ps THEN {} ELSE rows[p]]
  BY DEF Forgets
<1>2. order' = [p \in Places |-> IF p \in ps THEN {} ELSE order[p]]
  BY DEF Forgets
<1>3. rows' \in [Places -> SUBSET RowRecords] /\ order' \in [Places -> SUBSET (Keys \X Keys)]
  BY <1>1, <1>2 DEF RowsInv
<1>4. ASSUME NEW p \in Places PROVE Ordered(rows'[p], order'[p]) /\ KeysOf(rows'[p]) \subseteq KeysOf(rows[p])
  <2>1. CASE p \in ps
    BY <1>1, <1>2, <2>1, FS_EmptySet DEF Ordered, KeysOf
  <2>2. CASE p \notin ps
    BY <1>1, <1>2, <2>2 DEF RowsInv
  <2>3. QED
    BY <2>1, <2>2
<1>5. QED
  BY <1>1, <1>3, <1>4 DEF RowsInv, AddsNone

\* What a trim drops, at least n rows of its format outrank.
LEMMA TrimLeaves ==
  ASSUME NEW rs, rs \subseteq RowRecords, IsFiniteSet(rs), NEW kind, NEW n \in Nat,
         NEW r \in rs, r \notin Trimmed(rs, kind, n)
  PROVE  /\ Kind(r) = kind
         /\ \E T : /\ T \subseteq Trimmed(rs, kind, n) /\ IsFiniteSet(T)
                   /\ \A q \in T : Kind(q) = kind
                   /\ Cardinality(T) >= n
<1>1. Kind(r) = kind
  BY DEF Trimmed
<1>2. PICK B : B = {q \in rs : q \notin Trimmed(rs, kind, n)}
  OBVIOUS
<1>3. B \subseteq RowRecords /\ B # {}
  BY <1>2
<1>4. PICK m \in {q.rank : q \in B} : \A q \in B : q.rank <= m
  BY <1>3, HighestRank
<1>5. PICK h \in B : h.rank = m
  BY <1>4
<1>6. PICK T : T = {q \in rs : Kind(q) = kind /\ q.rank > h.rank}
  OBVIOUS
<1>7. IsFiniteSet(T) /\ Cardinality(T) \in Nat
  <2>1. T \subseteq rs
    BY <1>6
  <2>2. QED
    BY <2>1, FS_Subset, FS_CardinalityType
<1>8. ~(Cardinality(T) < n)
  BY <1>2, <1>5, <1>6 DEF Trimmed
<1>9. ASSUME NEW q \in T PROVE q \in Trimmed(rs, kind, n)
  <2>1. q \in rs /\ q.rank > h.rank
    BY <1>6
  <2>2. q.rank \in Nat /\ h.rank \in Nat
    BY <1>3, <2>1, RankFields
  <2>3. CASE q \in B
    BY <1>4, <1>5, <2>1, <2>2, <2>3
  <2>4. QED
    BY <1>2, <2>1, <2>3
<1>10. Cardinality(T) >= n
  BY <1>7, <1>8
<1>11. \A q \in T : Kind(q) = kind
  BY <1>6
<1>12. T \subseteq Trimmed(rs, kind, n)
  BY <1>9
<1>13. QED
  BY <1>1, <1>7, <1>10, <1>11, <1>12

LEMMA TrimsLeave ==
  ASSUME RowsInv, NEW p \in Places, NEW bs, bs \subseteq rows[p],
         \A r \in rows[p] : r.old = FALSE => r \in bs, NEW kind, NEW n \in Nat,
         KeysOf(Trimmed(bs, kind, n)) \subseteq KeysOf(rows'[p]),
         NEW r \in rows[p], r.old = FALSE, r.key \notin KeysOf(rows'[p])
  PROVE  Kind(r) = kind /\ Cardinality(Remaining(p, kind)) >= n
<1>1. rows[p] \subseteq RowRecords /\ IsFiniteSet(rows[p])
  BY RowsAt
<1>2. bs \subseteq RowRecords /\ IsFiniteSet(bs) /\ r \in bs
  BY <1>1, FS_Subset
<1>3. r \notin Trimmed(bs, kind, n)
  BY KeysKept
<1>4. PICK T : /\ T \subseteq Trimmed(bs, kind, n) /\ IsFiniteSet(T)
               /\ \A q \in T : Kind(q) = kind
               /\ Cardinality(T) >= n
  BY <1>2, <1>3, TrimLeaves
<1>5. Trimmed(bs, kind, n) \subseteq bs
  BY DEF Trimmed
<1>6. \A q \in T : q.key \in KeysOf(rows'[p])
  BY <1>4, KeysKept
<1>7. T \subseteq Remaining(p, kind)
  BY <1>4, <1>5, <1>6 DEF Remaining, KeysOf
<1>8. IsFiniteSet(Remaining(p, kind))
  <2>1. Remaining(p, kind) \subseteq rows[p]
    BY DEF Remaining
  <2>2. QED
    BY <1>1, <2>1, FS_Subset
<1>9. /\ Cardinality(T) <= Cardinality(Remaining(p, kind))
      /\ Cardinality(T) \in Nat /\ Cardinality(Remaining(p, kind)) \in Nat
  BY <1>4, <1>7, <1>8, FS_Subset, FS_CardinalityType
<1>10. Kind(r) = kind
  BY <1>2, <1>3, TrimLeaves
<1>11. QED
  BY <1>4, <1>9, <1>10
---------------------------------------------------------------------------
(* The invariant of the pending stores.                                    *)

Advanced == {"expiring", "trimming", "ended", "over"}

\* A call c with n compressors built, z in the slot and m in the mutex.
CallFits(d, c, n, z, m) ==
  /\ d.store \in 0..n /\ d.target \in 0..n
  /\ d.pc = "fetched" => d.tool \in Tools
  /\ d.pc \in {"scoring", "expiring", "trimming", "ended"} => d.store # 0
  /\ d.pc \in {"expiring", "trimming"} => m = c /\ d.target # 0 /\ (z # 0 => d.target = z)
  /\ d.pc = "ended" => d.gone = FALSE
CallsFit == \A c \in Calls : CallFits(progress[c], c, Len(stores), slot, mutex)

StoresInv == StoresFit(stores, slot, progress) /\ Len(stores) <= MaxStores
SettingsInv ==
  /\ configs \in Seq(Layouts) /\ Len(configs) # 0
  /\ more \in Selectives \cup {Cold} /\ mutex \in Calls \cup {NoCall}

\* A key is at one place, once its call has published it.
KeysInv ==
  /\ \A p, q \in Places : \A k \in KeysOf(rows[p]) : k \in KeysOf(rows[q]) => p = q
  /\ \A c \in Calls : \A p \in Places : c \in KeysOf(rows[p]) => progress[c].pc \in Advanced

PendingInv == StoresInv /\ SettingsInv /\ CallsFit /\ RowsInv /\ KeysInv

\* The two action properties, of one step.
PublishStep ==
  \A c \in Calls : \A p \in Places :
    (progress[c].kind = "selective" /\ c \in KeysOf(rows'[p]) \ KeysAt(p) /\ slot # 0)
      => p = Place(slot)
TrimStep ==
  \A p \in Files \cup (({slot} \cap {slot'}) \ {0}) : \A r \in Dropped(p) :
    IF Kind(r) = "progressive"
    THEN Cardinality(Remaining(p, "progressive")) >= Live.more
    ELSE slot # 0 => /\ p = Place(slot)
                     /\ Cardinality(Remaining(p, "selective")) >= Keep[stores[slot].cfg]

\* No call's key goes back.
Advances == \A c \in Calls : progress[c].pc \in Advanced => progress'[c].pc \in Advanced

LEMMA KeysStay ==
  ASSUME KeysInv, AddsNone, Advances
  PROVE  KeysInv'
BY DEF KeysInv, AddsNone, Advances

LEMMA KeysArrive ==
  ASSUME KeysInv, NEW p \in Places, NEW k, AddsAt(p, k), \A q \in Places : k \notin KeysOf(rows[q]),
         Advances, k \in Calls => progress'[k].pc \in Advanced
  PROVE  KeysInv'
<1>1. ASSUME NEW q \in Places, NEW s \in Places, NEW x \in KeysOf(rows'[q]), x \in KeysOf(rows'[s])
      PROVE  q = s
  BY <1>1 DEF KeysInv, AddsAt
<1>2. ASSUME NEW c \in Calls, NEW q \in Places, c \in KeysOf(rows'[q])
      PROVE  progress'[c].pc \in Advanced
  BY <1>2 DEF KeysInv, AddsAt, Advances
<1>3. QED
  BY <1>1, <1>2 DEF KeysInv

LEMMA SlotPlace ==
  ASSUME StoresInv
  PROVE  /\ (({slot} \cap {slot'}) \ {0}) \subseteq Places
         /\ \A i \in 1..Len(stores) : Place(i) \in Places /\ stores[i].cfg \in Selectives
         /\ slot \in 0..Len(stores) /\ Len(stores) \in Nat
<1>1. stores \in Seq(CompressorRecords) /\ slot \in 0..Len(stores) /\ Len(stores) <= MaxStores
  BY DEF StoresInv, StoresFit
<1>2. Len(stores) \in Nat /\ MaxStores \in Nat
  BY <1>1, PendingAssumption
<1>3. ASSUME NEW i \in 1..Len(stores)
      PROVE  i \in Places /\ Place(i) \in Places /\ stores[i].cfg \in Selectives
  <2>1. i \in Compressors
    BY <1>1, <1>2 DEF Compressors
  <2>2. stores[i] \in CompressorRecords
    BY <1>1
  <2>3. stores[i].cfg \in Selectives
    BY <2>2, CompressorFields
  <2>4. QED
    BY <2>1, <2>3 DEF Places, Files, Place
<1>4. slot # 0 => slot \in 1..Len(stores)
  BY <1>1, <1>2
<1>5. QED
  BY <1>1, <1>2, <1>3, <1>4

LEMMA DropsNone ==
  ASSUME StoresInv, RowsInv, DropsOld
  PROVE  TrimStep
<1>1. ASSUME NEW p \in Places PROVE Dropped(p) = {}
  <2>1. ASSUME NEW r \in Dropped(p) PROVE FALSE
    <3>1. r \in rows[p] /\ ~r.old /\ r.key \notin KeysOf(rows'[p])
      BY DEF Dropped, KeysOf
    <3>2. r.old = FALSE
      BY <3>1, RowsAt, RankFields
    <3>3. QED
      BY <3>1, <3>2 DEF DropsOld
  <2>2. QED
    BY <2>1
<1>2. Files \cup (({slot} \cap {slot'}) \ {0}) \subseteq Places
  BY SlotPlace DEF Places
<1>3. QED
  BY <1>1, <1>2 DEF TrimStep

LEMMA PlainStep ==
  ASSUME StoresInv, RowsInv, AddsNone, DropsOld
  PROVE  PublishStep /\ TrimStep
<1>1. PublishStep
  BY DEF PublishStep, AddsNone, KeysAt
<1>2. QED
  BY <1>1, DropsNone

LEMMA RestStep ==
  ASSUME StoresInv, RowsInv, UNCHANGED <<rows, order>>
  PROVE  RowsInv' /\ AddsNone /\ PublishStep /\ TrimStep
<1>1. RowsInv'
  BY DEF RowsInv
<1>2. AddsNone /\ DropsOld
  BY KeysKept DEF AddsNone, DropsOld
<1>3. QED
  BY <1>1, <1>2, PlainStep

LEMMA RowAtForm ==
  ASSUME NEW pc \in Pcs, NEW d, d = RowAt(pc)
  PROVE  /\ d \in ProgressRecords /\ d.pc = pc /\ d.store = 0 /\ d.target = 0 /\ d.gone = FALSE
         /\ d.kind = "selective"
BY DEF RowAt, ProgressRecords, ToolMarks, Marks

\* A call at pc whose compressor is n.
RowWith(pc, n) == [RowAt(pc) EXCEPT !.store = n]

IsRow(d, pc, n) ==
  /\ d \in ProgressRecords /\ d.pc = pc /\ d.store = n /\ d.target = 0 /\ d.gone = FALSE
  /\ d.kind = "selective"

LEMMA RowStored ==
  ASSUME NEW pc \in Pcs, NEW n \in Marks
  PROVE  IsRow(RowWith(pc, n), pc, n)
<1>1. PICK e : e = RowAt(pc)
  OBVIOUS
<1>2. e \in ProgressRecords /\ e.pc = pc /\ e.target = 0 /\ e.gone = FALSE /\ e.kind = "selective"
  BY <1>1, RowAtForm
<1>3. PICK d : d = [e EXCEPT !.store = n]
  OBVIOUS
<1>4. IsRow(d, pc, n)
  BY <1>2, <1>3 DEF ProgressRecords, IsRow
<1>5. d = RowWith(pc, n)
  BY <1>1, <1>3 DEF RowWith
<1>6. QED
  BY <1>4, <1>5

LEMMA CallFields ==
  ASSUME StoresInv, NEW c \in Calls
  PROVE  /\ progress \in [Calls -> ProgressRecords] /\ progress[c] \in ProgressRecords
         /\ progress[c].gone \in BOOLEAN /\ progress[c].pc \in Pcs /\ progress[c].store \in Marks
         /\ progress[c].target \in Marks /\ progress[c].tool \in ToolMarks
         /\ progress[c].kind \in {"selective", "progressive"}
<1>1. progress \in [Calls -> ProgressRecords]
  BY DEF StoresInv, StoresFit
<1>2. progress[c] \in ProgressRecords
  BY <1>1
<1>3. QED
  BY <1>1, <1>2 DEF ProgressRecords

\* A call moves and the compressors stay.
LEMMA CallMoves ==
  ASSUME StoresInv, CallsFit, NEW c \in Calls, NEW d \in ProgressRecords,
         progress' = [progress EXCEPT ![c] = d], UNCHANGED <<stores, slot>>,
         \A i : Pinning(d, i) <=> Pinning(progress[c], i),
         CallFits(d, c, Len(stores), slot, mutex'),
         mutex' # mutex => mutex \in {NoCall, c},
         progress[c].pc \in Advanced => d.pc \in Advanced
  PROVE  StoresInv' /\ CallsFit' /\ Advances
<1>1. progress \in [Calls -> ProgressRecords]
  BY DEF StoresInv, StoresFit
<1>2. progress'[c] = d /\ \A x \in Calls \ {c} : progress'[x] = progress[x]
  BY <1>1
<1>3. StoresInv'
  BY QuietFits DEF StoresInv
<1>4. Advances
  BY <1>2 DEF Advances
<1>5. ASSUME NEW x \in Calls PROVE CallFits(progress'[x], x, Len(stores), slot, mutex')
  <2>1. CASE x = c
    BY <1>2, <2>1
  <2>2. CASE x # c
    <3>1. mutex = x => mutex' = x
      BY <2>2, PendingAssumption
    <3>2. CallFits(progress[x], x, Len(stores), slot, mutex)
      BY DEF CallsFit
    <3>3. CallFits(progress[x], x, Len(stores), slot, mutex')
      BY <3>1, <3>2 DEF CallFits
    <3>4. QED
      BY <1>2, <2>2, <3>3
  <2>3. QED
    BY <2>1, <2>2
<1>6. QED
  BY <1>3, <1>4, <1>5 DEF CallsFit

LEMMA StartsKeep ==
  ASSUME PendingInv, NEW c \in Calls, NEW t \in Tools, NEW k \in {"selective", "progressive"},
         Starts(c, t, k)
  PROVE  PendingInv' /\ PublishStep /\ TrimStep
<1>1. StoresInv /\ SettingsInv /\ CallsFit /\ RowsInv /\ KeysInv
  BY DEF PendingInv
<1>2. PICK n : n = IF k = "progressive" THEN Len(configs) ELSE 1
  OBVIOUS
<1>3. n \in Marks
  <2>1. Len(configs) \in Nat
    BY <1>1 DEF SettingsInv
  <2>2. QED
    BY <1>2, <2>1 DEF Marks
<1>4. PICK d : d = [progress[c] EXCEPT !.pc = "fetched", !.tool = t, !.kind = k, !.pin = n]
  OBVIOUS
<1>5. progress' = [progress EXCEPT ![c] = d] /\ progress[c].pc = "idle"
  BY <1>2, <1>4 DEF Starts
<1>6. /\ d \in ProgressRecords /\ d.pc = "fetched" /\ d.tool = t
      /\ d.store = progress[c].store /\ d.target = progress[c].target
  BY <1>1, <1>3, <1>4, CallFields DEF ProgressRecords, Pcs, ToolMarks
<1>7. CallFits(progress[c], c, Len(stores), slot, mutex)
  BY <1>1 DEF CallsFit
<1>8. CallFits(d, c, Len(stores), slot, mutex)
  BY <1>6, <1>7 DEF CallFits
<1>9. \A i : Pinning(d, i) <=> Pinning(progress[c], i)
  BY <1>5, <1>6 DEF Pinning
<1>10. UNCHANGED <<configs, rows, stores, slot, more, mutex, order>>
  BY DEF Starts
<1>11. StoresInv' /\ CallsFit' /\ Advances
  BY <1>1, <1>5, <1>6, <1>8, <1>9, <1>10, CallMoves DEF Advanced
<1>12. RowsInv' /\ AddsNone /\ PublishStep /\ TrimStep
  BY <1>1, <1>10, RestStep
<1>13. KeysInv'
  BY <1>1, <1>11, <1>12, KeysStay
<1>14. SettingsInv'
  BY <1>1, <1>10 DEF SettingsInv
<1>15. QED
  BY <1>11, <1>12, <1>13, <1>14 DEF PendingInv

\* A call moves on and the rows rest.
LEMMA QuietMove ==
  ASSUME PendingInv, NEW c \in Calls, NEW d \in ProgressRecords,
         progress' = [progress EXCEPT ![c] = d],
         \A i : Pinning(d, i) <=> Pinning(progress[c], i),
         CallFits(d, c, Len(stores), slot, mutex'),
         mutex' # mutex => mutex \in {NoCall, c}, mutex' \in Calls \cup {NoCall},
         progress[c].pc \in Advanced => d.pc \in Advanced,
         UNCHANGED <<configs, rows, stores, slot, more, order>>
  PROVE  PendingInv' /\ PublishStep /\ TrimStep
<1>1. StoresInv /\ SettingsInv /\ CallsFit /\ RowsInv /\ KeysInv
  BY DEF PendingInv
<1>11. StoresInv' /\ CallsFit' /\ Advances
  BY <1>1, CallMoves
<1>12. RowsInv' /\ AddsNone /\ PublishStep /\ TrimStep
  BY <1>1, RestStep
<1>13. KeysInv'
  BY <1>1, <1>11, <1>12, KeysStay
<1>14. SettingsInv'
  BY <1>1 DEF SettingsInv
<1>15. QED
  BY <1>11, <1>12, <1>13, <1>14 DEF PendingInv

LEMMA RefusedKeeps ==
  ASSUME PendingInv, NEW c \in Calls, Refused(c)
  PROVE  PendingInv' /\ PublishStep /\ TrimStep
<1>1. PICK d : d = RowAt("over")
  OBVIOUS
<1>2. d \in ProgressRecords /\ d.pc = "over" /\ d.store = 0 /\ d.target = 0
  BY <1>1, RowAtForm DEF Pcs
<1>3. progress' = [progress EXCEPT ![c] = d] /\ progress[c].pc = "fetched"
  BY <1>1 DEF Refused
<1>4. \A i : Pinning(d, i) <=> Pinning(progress[c], i)
  BY <1>2, <1>3 DEF Pinning
<1>5. Len(stores) \in Nat
  BY SlotPlace DEF PendingInv
<1>6. CallFits(d, c, Len(stores), slot, mutex')
  BY <1>2, <1>5 DEF CallFits
<1>7. UNCHANGED <<configs, rows, stores, slot, more, mutex, order>>
  BY DEF Refused
<1>8. mutex \in Calls \cup {NoCall}
  BY DEF PendingInv, SettingsInv
<1>9. QED
  BY <1>2, <1>3, <1>4, <1>6, <1>7, <1>8, QuietMove DEF Advanced

\* How a call's thread ends: over, or with the task still to come back.
LEMMA EndsForm ==
  ASSUME StoresInv, CallsFit, NEW c \in Calls, progress[c].pc \in {"scoring", "expiring", "trimming"}
  PROVE  \E d \in ProgressRecords :
           /\ Ends(c) = [progress EXCEPT ![c] = d]
           /\ d.pc \in {"ended", "over"}
           /\ \A i : Pinning(d, i) <=> Pinning(progress[c], i)
           /\ \A m : CallFits(d, c, Len(stores), slot, m)
<1>1. /\ progress \in [Calls -> ProgressRecords] /\ progress[c].gone \in BOOLEAN
      /\ progress[c].store \in Marks
  BY CallFields
<1>2. CallFits(progress[c], c, Len(stores), slot, mutex)
  BY DEF CallsFit
<1>3. Len(stores) \in Nat
  BY SlotPlace
<1>4. CASE progress[c].gone = TRUE
  <2>1. PICK d : d = RowAt("over")
    OBVIOUS
  <2>2. d \in ProgressRecords /\ d.pc = "over" /\ d.store = 0 /\ d.target = 0
    BY <2>1, RowAtForm DEF Pcs
  <2>3. Ends(c) = [progress EXCEPT ![c] = d]
    BY <1>1, <1>4, <2>1 DEF Ends
  <2>4. \A i : Pinning(d, i) <=> Pinning(progress[c], i)
    BY <1>4, <2>2 DEF Pinning
  <2>5. \A m : CallFits(d, c, Len(stores), slot, m)
    BY <1>3, <2>2 DEF CallFits
  <2>6. QED
    BY <2>2, <2>3, <2>4, <2>5
<1>5. CASE progress[c].gone = FALSE
  <2>1. PICK d : d = RowWith("ended", progress[c].store)
    OBVIOUS
  <2>2. /\ d \in ProgressRecords /\ d.pc = "ended" /\ d.store = progress[c].store
        /\ d.target = 0 /\ d.gone = FALSE
    <3>1. "ended" \in Pcs
      BY DEF Pcs
    <3>2. IsRow(d, "ended", progress[c].store)
      BY <1>1, <2>1, <3>1, RowStored
    <3>3. QED
      BY <3>2 DEF IsRow
  <2>3. Ends(c) = [progress EXCEPT ![c] = d]
    BY <1>1, <1>5, <2>1 DEF Ends, RowWith
  <2>4. \A i : Pinning(d, i) <=> Pinning(progress[c], i)
    BY <1>5, <2>2 DEF Pinning
  <2>5. \A m : CallFits(d, c, Len(stores), slot, m)
    BY <1>2, <1>3, <2>2 DEF CallFits
  <2>6. QED
    BY <2>2, <2>3, <2>4, <2>5
<1>6. QED
  BY <1>1, <1>4, <1>5

LEMMA PublishFailsKeeps ==
  ASSUME PendingInv, NEW c \in Calls, PublishFails(c)
  PROVE  PendingInv' /\ PublishStep /\ TrimStep
<1>1. progress[c].pc = "scoring" /\ progress' = Ends(c)
  BY DEF PublishFails
<1>2. PICK d \in ProgressRecords : /\ Ends(c) = [progress EXCEPT ![c] = d]
                                   /\ d.pc \in {"ended", "over"}
                                   /\ \A i : Pinning(d, i) <=> Pinning(progress[c], i)
                                   /\ \A m : CallFits(d, c, Len(stores), slot, m)
  BY <1>1, EndsForm DEF PendingInv
<1>3. UNCHANGED <<configs, rows, stores, slot, more, mutex, order>>
  BY DEF PublishFails
<1>4. mutex \in Calls \cup {NoCall}
  BY DEF PendingInv, SettingsInv
<1>5. QED
  BY <1>1, <1>2, <1>3, <1>4, QuietMove DEF Advanced

LEMMA EvictFailsKeeps ==
  ASSUME PendingInv, NEW c \in Calls, EvictFails(c)
  PROVE  PendingInv' /\ PublishStep /\ TrimStep
<1>1. progress[c].pc \in {"expiring", "trimming"} /\ progress' = Ends(c) /\ mutex' = NoCall
  BY DEF EvictFails
<1>2. PICK d \in ProgressRecords : /\ Ends(c) = [progress EXCEPT ![c] = d]
                                   /\ d.pc \in {"ended", "over"}
                                   /\ \A i : Pinning(d, i) <=> Pinning(progress[c], i)
                                   /\ \A m : CallFits(d, c, Len(stores), slot, m)
  BY <1>1, EndsForm DEF PendingInv
<1>3. UNCHANGED <<configs, rows, stores, slot, more, order>>
  BY DEF EvictFails
<1>4. mutex = c
  BY <1>1 DEF PendingInv, CallsFit, CallFits
<1>5. QED
  BY <1>1, <1>2, <1>3, <1>4, QuietMove DEF Advanced

LEMMA TargetPlace ==
  ASSUME StoresInv, CallsFit, NEW c \in Calls, progress[c].pc \in {"expiring", "trimming"}
  PROVE  /\ progress[c].target \in 1..Len(stores) /\ Place(progress[c].target) \in Places
         /\ stores[progress[c].target].cfg \in Selectives
         /\ mutex = c /\ (slot # 0 => progress[c].target = slot)
<1>1. CallFits(progress[c], c, Len(stores), slot, mutex)
  BY DEF CallsFit
<1>2. progress[c].target \in 0..Len(stores) /\ progress[c].target # 0 /\ Len(stores) \in Nat
  BY <1>1, SlotPlace DEF CallFits
<1>3. progress[c].target \in 1..Len(stores)
  BY <1>2
<1>4. mutex = c /\ (slot # 0 => progress[c].target = slot)
  BY <1>1 DEF CallFits
<1>5. QED
  BY <1>3, <1>4, SlotPlace

LEMMA EvictExpiresKeeps ==
  ASSUME PendingInv, NEW c \in Calls, EvictExpires(c)
  PROVE  PendingInv' /\ PublishStep /\ TrimStep
<1>1. StoresInv /\ SettingsInv /\ CallsFit /\ RowsInv /\ KeysInv
  BY DEF PendingInv
<1>2. PICK d : d = [progress[c] EXCEPT !.pc = "trimming"]
  OBVIOUS
<1>3. progress' = [progress EXCEPT ![c] = d] /\ progress[c].pc = "expiring"
  BY <1>2 DEF EvictExpires
<1>4. /\ d \in ProgressRecords /\ d.pc = "trimming" /\ d.store = progress[c].store
      /\ d.target = progress[c].target /\ d.gone = progress[c].gone
  BY <1>1, <1>2, CallFields DEF ProgressRecords, Pcs
<1>5. CallFits(progress[c], c, Len(stores), slot, mutex)
  BY <1>1 DEF CallsFit
<1>6. CallFits(d, c, Len(stores), slot, mutex)
  BY <1>3, <1>4, <1>5 DEF CallFits
<1>7. \A i : Pinning(d, i) <=> Pinning(progress[c], i)
  BY <1>3, <1>4 DEF Pinning
<1>8. UNCHANGED <<configs, stores, slot, more, mutex>>
  BY DEF EvictExpires
<1>9. StoresInv' /\ CallsFit' /\ Advances
  BY <1>1, <1>3, <1>4, <1>6, <1>7, <1>8, CallMoves DEF Advanced
<1>10. PICK p : p = Place(progress[c].target)
  OBVIOUS
<1>11. p \in Places
  BY <1>1, <1>3, <1>10, TargetPlace
<1>12. PICK rs : rs = Expired(rows[p], "selective")
  OBVIOUS
<1>13. Becomes(p, rs)
  BY <1>10, <1>12 DEF EvictExpires
<1>14. rs \subseteq rows[p] /\ \A r \in rows[p] : r.old = FALSE => r \in rs
  BY <1>1, <1>11, <1>12, RowsAt, ExpiredKeeps
<1>15. RowsInv' /\ AddsNone /\ DropsOld
  BY <1>1, <1>11, <1>13, <1>14, SubsetKeeps
<1>16. PublishStep /\ TrimStep
  BY <1>1, <1>15, PlainStep
<1>17. KeysInv'
  BY <1>1, <1>9, <1>15, KeysStay
<1>18. SettingsInv'
  BY <1>1, <1>8 DEF SettingsInv
<1>19. QED
  BY <1>9, <1>15, <1>16, <1>17, <1>18 DEF PendingInv

LEMMA EvictTrimsKeeps ==
  ASSUME PendingInv, NEW c \in Calls, EvictTrims(c)
  PROVE  PendingInv' /\ PublishStep /\ TrimStep
<1>1. StoresInv /\ SettingsInv /\ CallsFit /\ RowsInv /\ KeysInv
  BY DEF PendingInv
<1>2. progress[c].pc = "trimming" /\ progress' = Ends(c) /\ mutex' = NoCall
  BY DEF EvictTrims
<1>3. PICK d \in ProgressRecords : /\ Ends(c) = [progress EXCEPT ![c] = d]
                                   /\ d.pc \in {"ended", "over"}
                                   /\ \A i : Pinning(d, i) <=> Pinning(progress[c], i)
                                   /\ \A m : CallFits(d, c, Len(stores), slot, m)
  BY <1>1, <1>2, EndsForm
<1>4. UNCHANGED <<configs, stores, slot, more>>
  BY DEF EvictTrims
<1>5. PICK i : i = progress[c].target
  OBVIOUS
<1>6. /\ i \in 1..Len(stores) /\ Place(i) \in Places /\ stores[i].cfg \in Selectives
      /\ mutex = c /\ (slot # 0 => i = slot)
  BY <1>1, <1>2, <1>5, TargetPlace
<1>7. mutex = c
  BY <1>1, <1>2, TargetPlace
<1>8. StoresInv' /\ CallsFit' /\ Advances
  BY <1>1, <1>2, <1>3, <1>4, <1>7, CallMoves DEF Advanced
<1>9. PICK p \in Places : p = Place(i)
  BY <1>6
<1>10. PICK n \in Nat : n = Keep[stores[i].cfg]
  BY <1>6, PendingAssumption
<1>11. PICK rs : rs = Trimmed(rows[p], "selective", n)
  OBVIOUS
<1>12. Becomes(p, rs)
  BY <1>5, <1>9, <1>10, <1>11 DEF EvictTrims, Policy
<1>13. rs \subseteq rows[p]
  BY <1>11 DEF Trimmed
<1>14. /\ RowsInv' /\ AddsNone /\ rows'[p] = rs
       /\ \A q \in Places \ {p} : rows'[q] = rows[q]
  <2>1. rows[p] \subseteq RowRecords /\ Ordered(rows[p], order[p])
    BY <1>1, RowsAt
  <2>2. Thins(rows[p], rs) /\ rs \subseteq RowRecords
    BY <1>13, <2>1, SubsetThins
  <2>3. QED
    BY <1>1, <1>12, <2>2, ThinKeeps
<1>15. PublishStep
  BY <1>14 DEF PublishStep, AddsNone, KeysAt
<1>16. ASSUME NEW q \in Places, NEW r \in Dropped(q)
       PROVE  /\ Kind(r) = "selective"
              /\ slot # 0 => /\ q = Place(slot)
                             /\ Cardinality(Remaining(q, "selective")) >= Keep[stores[slot].cfg]
  <2>1. r \in rows[q] /\ ~r.old /\ r.key \notin KeysOf(rows'[q])
    BY DEF Dropped, KeysOf
  <2>2. r.old = FALSE
    BY <1>1, <2>1, RowsAt, RankFields
  <2>3. q = p
    BY <1>14, <2>1, KeysKept
  <2>4. rows[p] \subseteq rows[p] /\ \A s \in rows[p] : s.old = FALSE => s \in rows[p]
    OBVIOUS
  <2>5. KeysOf(Trimmed(rows[p], "selective", n)) \subseteq KeysOf(rows'[p])
    BY <1>11, <1>14
  <2>6. Kind(r) = "selective" /\ Cardinality(Remaining(p, "selective")) >= n
    BY <1>1, <2>1, <2>2, <2>3, <2>4, <2>5, TrimsLeave
  <2>7. QED
    BY <1>6, <1>9, <1>10, <2>3, <2>6
<1>17. TrimStep
  <2>1. Files \cup (({slot} \cap {slot'}) \ {0}) \subseteq Places
    BY <1>1, SlotPlace DEF Places
  <2>2. QED
    BY <1>16, <2>1 DEF TrimStep
<1>18. KeysInv'
  BY <1>1, <1>8, <1>14, KeysStay
<1>19. SettingsInv'
  BY <1>1, <1>2, <1>4 DEF SettingsInv
<1>20. QED
  BY <1>8, <1>14, <1>15, <1>17, <1>18, <1>19 DEF PendingInv

LEMMA PublishesKeeps ==
  ASSUME PendingInv, NEW c \in Calls, Publishes(c)
  PROVE  PendingInv' /\ PublishStep /\ TrimStep
<1>1. StoresInv /\ SettingsInv /\ CallsFit /\ RowsInv /\ KeysInv
  BY DEF PendingInv
<1>2. PICK i : i = Target(c)
  OBVIOUS
<1>3. /\ progress[c].pc = "scoring" /\ mutex = NoCall /\ mutex' = c
      /\ UNCHANGED <<configs, stores, slot, more>>
  BY DEF Publishes
<1>4. CallFits(progress[c], c, Len(stores), slot, mutex)
  BY <1>1 DEF CallsFit
<1>5. i \in 1..Len(stores) /\ (slot # 0 => i = slot)
  <2>1. progress[c].store \in 0..Len(stores) /\ progress[c].store # 0
    BY <1>3, <1>4 DEF CallFits
  <2>2. slot \in 0..Len(stores) /\ Len(stores) \in Nat
    BY <1>1, SlotPlace
  <2>3. QED
    BY <1>2, <2>1, <2>2 DEF Target
<1>6. PICK d : d = [progress[c] EXCEPT !.pc = "expiring", !.target = i]
  OBVIOUS
<1>7. progress' = [progress EXCEPT ![c] = d]
  BY <1>2, <1>6 DEF Publishes
<1>8. i \in Marks
  BY <1>1, <1>5, SlotPlace DEF Marks
<1>9. /\ d \in ProgressRecords /\ d.pc = "expiring" /\ d.store = progress[c].store
      /\ d.target = i /\ d.gone = progress[c].gone
  BY <1>1, <1>6, <1>8, CallFields DEF ProgressRecords, Pcs
<1>10. CallFits(d, c, Len(stores), slot, c)
  <2>1. i \in 0..Len(stores) /\ i # 0
    BY <1>5
  <2>2. QED
    BY <1>3, <1>4, <1>5, <1>9, <2>1 DEF CallFits
<1>11. \A j : Pinning(d, j) <=> Pinning(progress[c], j)
  BY <1>3, <1>9 DEF Pinning
<1>12. StoresInv' /\ CallsFit' /\ Advances
  BY <1>1, <1>3, <1>7, <1>9, <1>10, <1>11, CallMoves DEF Advanced
<1>13. PICK p \in Places : p = Place(i)
  BY <1>1, <1>5, SlotPlace
<1>14. BecomesUsing(p, c, PutRow(rows[p], c, "json"))
  BY <1>2, <1>13 DEF Publishes
<1>15. RowsInv' /\ AddsAt(p, c) /\ DropsOld
  <2>1. c \in Keys
    BY DEF Keys
  <2>2. PICK f \in {"json", "progressive"} : f = "json"
    OBVIOUS
  <2>3. BecomesUsing(p, c, PutRow(rows[p], c, f))
    BY <1>14, <2>2
  <2>4. QED
    BY <1>1, <2>1, <2>3, PutRowKeeps
<1>16. \A q \in Places : c \notin KeysOf(rows[q])
  BY <1>1, <1>3 DEF KeysInv, Advanced
<1>17. progress'[c].pc \in Advanced
  <2>1. progress'[c] = d
    BY <1>1, <1>7, CallFields
  <2>2. QED
    BY <1>9, <2>1 DEF Advanced
<1>18. KeysInv'
  BY <1>1, <1>12, <1>15, <1>16, <1>17, KeysArrive
<1>19. PublishStep
  <2>1. ASSUME NEW x \in Calls, NEW q \in Places, x \in KeysOf(rows'[q]) \ KeysAt(q), slot # 0
        PROVE  q = Place(slot)
    <3>1. q = p
      BY <1>15, <2>1 DEF AddsAt, KeysAt
    <3>2. QED
      BY <1>5, <1>13, <2>1, <3>1
  <2>2. QED
    BY <2>1 DEF PublishStep
<1>20. TrimStep
  BY <1>1, <1>15, DropsNone
<1>21. SettingsInv'
  BY <1>1, <1>3 DEF SettingsInv
<1>22. QED
  BY <1>12, <1>15, <1>18, <1>19, <1>20, <1>21 DEF PendingInv

\* Compressors and slot change: nobody else is in the middle of an eviction when
\* the slot moves.
LEMMA CallsKept ==
  ASSUME StoresInv, SettingsInv, CallsFit, NEW c \in Calls, NEW d \in ProgressRecords,
         progress' = [progress EXCEPT ![c] = d],
         NEW n \in Nat, n = Len(stores'), n >= Len(stores),
         slot' # slot => mutex = NoCall, mutex' = mutex,
         CallFits(d, c, n, slot', mutex),
         progress[c].pc \in Advanced => d.pc \in Advanced
  PROVE  CallsFit' /\ Advances
<1>1. progress \in [Calls -> ProgressRecords] /\ Len(stores) \in Nat
  BY SlotPlace DEF StoresInv, StoresFit
<1>2. progress'[c] = d /\ \A x \in Calls \ {c} : progress'[x] = progress[x]
  BY <1>1
<1>3. Advances
  BY <1>2 DEF Advances
<1>4. ASSUME NEW x \in Calls PROVE CallFits(progress'[x], x, n, slot', mutex)
  <2>1. CASE x = c
    BY <1>2, <2>1
  <2>2. CASE x # c
    <3>1. CallFits(progress[x], x, Len(stores), slot, mutex)
      BY DEF CallsFit
    <3>2. 0..Len(stores) \subseteq 0..n
      BY <1>1
    <3>3. slot' # slot => mutex # x
      BY PendingAssumption
    <3>4. CallFits(progress[x], x, n, slot', mutex)
      BY <3>1, <3>2, <3>3 DEF CallFits
    <3>5. QED
      BY <1>2, <2>2, <3>4
  <2>3. QED
    BY <2>1, <2>2
<1>5. QED
  BY <1>3, <1>4 DEF CallsFit

LEMMA CallsRest ==
  ASSUME StoresInv, SettingsInv, CallsFit, progress' = progress,
         NEW n \in Nat, n = Len(stores'), n >= Len(stores),
         slot' # slot => mutex = NoCall, mutex' = mutex
  PROVE  CallsFit' /\ Advances
<1>1. Len(stores) \in Nat
  BY SlotPlace
<1>2. 0..Len(stores) \subseteq 0..n
  BY <1>1
<1>3. ASSUME NEW x \in Calls PROVE CallFits(progress[x], x, n, slot', mutex)
  <2>1. CallFits(progress[x], x, Len(stores), slot, mutex)
    BY DEF CallsFit
  <2>2. slot' # slot => mutex # x
    BY PendingAssumption
  <2>3. QED
    BY <1>2, <2>1, <2>2 DEF CallFits
<1>4. CallsFit'
  BY <1>3 DEF CallsFit
<1>5. QED
  BY <1>4 DEF Advances

\* What is forgotten was out of reach.
LEMMA ForgetsStep ==
  ASSUME StoresInv, RowsInv, NEW ps, ps \subseteq 0..MaxStores, Forgets(ps),
         slot \in ps => slot = 0 \/ slot' # slot
  PROVE  RowsInv' /\ AddsNone /\ PublishStep /\ TrimStep
<1>1. RowsInv' /\ AddsNone /\ \A q \in Places \ ps : rows'[q] = rows[q]
  BY ForgetsKeep
<1>2. PublishStep
  BY <1>1 DEF PublishStep, AddsNone, KeysAt
<1>3. ASSUME NEW q \in Files \cup (({slot} \cap {slot'}) \ {0}) PROVE Dropped(q) = {}
  <2>1. q \in Places
    BY SlotPlace DEF Places
  <2>2. q \notin ps
    BY PendingAssumption
  <2>3. rows'[q] = rows[q]
    BY <1>1, <2>1, <2>2
  <2>4. QED
    BY <2>3 DEF Dropped
<1>4. TrimStep
  BY <1>3 DEF TrimStep
<1>5. QED
  BY <1>1, <1>2, <1>4

LEMMA ReturnsKeeps ==
  ASSUME PendingInv, NEW c \in Calls, Returns(c)
  PROVE  PendingInv' /\ PublishStep /\ TrimStep
<1>1. StoresInv /\ SettingsInv /\ CallsFit /\ RowsInv /\ KeysInv
  BY DEF PendingInv
<1>2. /\ progress[c].pc = "ended" /\ stores' = Released(stores, progress[c].store)
      /\ UNCHANGED <<configs, rows, slot, more, mutex, order>>
  BY DEF Returns
<1>3. PICK d : d = RowAt("over")
  OBVIOUS
<1>4. d \in ProgressRecords /\ d.pc = "over" /\ d.store = 0 /\ d.target = 0
  BY <1>3, RowAtForm DEF Pcs
<1>5. progress' = [progress EXCEPT ![c] = d]
  BY <1>3 DEF Returns
<1>6. CallFits(progress[c], c, Len(stores), slot, mutex)
  BY <1>1 DEF CallsFit
<1>7. PICK m : m = progress[c].store
  OBVIOUS
<1>8. Pinning(progress[c], m)
  BY <1>2, <1>6, <1>7 DEF CallFits, Pinning
<1>9. Unpinned(d)
  BY <1>4 DEF Pinning, Unpinned
<1>10. StoresFit(stores', slot, progress') /\ Len(stores') = Len(stores)
  <2>1. StoresFit(stores, slot, progress)
    BY <1>1 DEF StoresInv
  <2>2. PICK t : t = stores'
    OBVIOUS
  <2>3. PICK q : q = progress'
    OBVIOUS
  <2>4. t = Released(stores, m) /\ q = [progress EXCEPT ![c] = d]
    BY <1>2, <1>5, <1>7, <2>2, <2>3
  <2>5. d \in ProgressRecords
    BY <1>4
  <2>6. StoresFit(t, slot, q)
    BY <1>8, <1>9, <2>1, <2>4, <2>5, ReleaseFits
  <2>7. Len(t) = Len(stores)
    BY <1>8, <1>9, <2>1, <2>4, <2>5, ReleaseFits
  <2>8. QED
    BY <2>2, <2>3, <2>6, <2>7
<1>11. PICK n \in Nat : n = Len(stores') /\ n = Len(stores)
  BY <1>1, <1>10, SlotPlace
<1>12. StoresInv'
  BY <1>1, <1>2, <1>10 DEF StoresInv
<1>13. CallFits(d, c, n, slot', mutex)
  BY <1>4 DEF CallFits
<1>14. n >= Len(stores) /\ mutex' = mutex /\ slot' = slot
  BY <1>2, <1>11
<1>15. CallsFit' /\ Advances
  BY <1>1, <1>4, <1>5, <1>11, <1>13, <1>14, CallsKept DEF Advanced
<1>16. RowsInv' /\ AddsNone /\ PublishStep /\ TrimStep
  BY <1>1, <1>2, RestStep
<1>17. KeysInv'
  BY <1>1, <1>15, <1>16, KeysStay
<1>18. SettingsInv'
  BY <1>1, <1>2 DEF SettingsInv
<1>19. QED
  BY <1>12, <1>15, <1>16, <1>17, <1>18 DEF PendingInv

LEMMA CancelledKeeps ==
  ASSUME PendingInv, NEW c \in Calls, Cancelled(c)
  PROVE  PendingInv' /\ PublishStep /\ TrimStep
<1>1. StoresInv /\ SettingsInv /\ CallsFit /\ RowsInv /\ KeysInv
  BY DEF PendingInv
<1>2. /\ progress[c].pc \in {"scoring", "expiring", "trimming"} /\ ~progress[c].gone
      /\ stores' = Released(stores, progress[c].store)
      /\ UNCHANGED <<configs, rows, slot, more, mutex, order>>
  BY DEF Cancelled
<1>3. PICK d : d = [progress[c] EXCEPT !.gone = TRUE]
  OBVIOUS
<1>4. /\ d \in ProgressRecords /\ d.pc = progress[c].pc /\ d.store = progress[c].store
      /\ d.target = progress[c].target /\ d.gone = TRUE
  BY <1>1, <1>3, CallFields DEF ProgressRecords
<1>5. progress' = [progress EXCEPT ![c] = d]
  BY <1>3 DEF Cancelled
<1>6. CallFits(progress[c], c, Len(stores), slot, mutex)
  BY <1>1 DEF CallsFit
<1>7. PICK m : m = progress[c].store
  OBVIOUS
<1>8. Pinning(progress[c], m)
  <2>1. progress[c].gone = FALSE
    BY <1>1, <1>2, CallFields
  <2>2. QED
    BY <1>2, <1>7, <2>1 DEF Pinning
<1>9. Unpinned(d)
  BY <1>4 DEF Pinning, Unpinned
<1>10. StoresFit(stores', slot, progress') /\ Len(stores') = Len(stores)
  <2>1. StoresFit(stores, slot, progress)
    BY <1>1 DEF StoresInv
  <2>2. PICK t : t = stores'
    OBVIOUS
  <2>3. PICK q : q = progress'
    OBVIOUS
  <2>4. t = Released(stores, m) /\ q = [progress EXCEPT ![c] = d]
    BY <1>2, <1>5, <1>7, <2>2, <2>3
  <2>5. d \in ProgressRecords
    BY <1>4
  <2>6. StoresFit(t, slot, q)
    BY <1>8, <1>9, <2>1, <2>4, <2>5, ReleaseFits
  <2>7. Len(t) = Len(stores)
    BY <1>8, <1>9, <2>1, <2>4, <2>5, ReleaseFits
  <2>8. QED
    BY <2>2, <2>3, <2>6, <2>7
<1>11. PICK n \in Nat : n = Len(stores') /\ n = Len(stores)
  BY <1>1, <1>10, SlotPlace
<1>12. StoresInv'
  BY <1>1, <1>2, <1>10 DEF StoresInv
<1>13. CallFits(d, c, n, slot', mutex)
  BY <1>2, <1>4, <1>6, <1>11 DEF CallFits
<1>14. n >= Len(stores) /\ mutex' = mutex /\ slot' = slot
  BY <1>2, <1>11
<1>15. CallsFit' /\ Advances
  BY <1>1, <1>4, <1>5, <1>11, <1>13, <1>14, CallsKept
<1>16. RowsInv' /\ AddsNone /\ PublishStep /\ TrimStep
  BY <1>1, <1>2, RestStep
<1>17. KeysInv'
  BY <1>1, <1>15, <1>16, KeysStay
<1>18. SettingsInv'
  BY <1>1, <1>2 DEF SettingsInv
<1>19. QED
  BY <1>12, <1>15, <1>16, <1>17, <1>18 DEF PendingInv

LEMMA LiveLayout ==
  ASSUME SettingsInv
  PROVE  /\ Live \in Layouts /\ Live.sel \in [Tools -> Selectives] /\ Live.more \in Nat
         /\ LiveFiles \subseteq Files
         /\ \A k : RecoveryFiles(k) \subseteq LiveFiles /\ Probed(k) \subseteq LiveFiles
         /\ \A f \in LiveFiles : BlockOf(f) \in Selectives
<1>1. configs \in Seq(Layouts) /\ Len(configs) \in 1..Len(configs)
  BY DEF SettingsInv
<1>2. Live \in Layouts
  BY <1>1 DEF Live
<1>3. Live.sel \in [Tools -> Selectives] /\ Live.more \in Nat
  BY <1>2, PendingAssumption
<1>4. LiveFiles \subseteq Files
  BY <1>3 DEF LiveFiles, Files
<1>5. \A k : RecoveryFiles(k) \subseteq LiveFiles /\ Probed(k) \subseteq LiveFiles
  BY DEF RecoveryFiles, Probed, Holding
<1>6. ASSUME NEW f \in LiveFiles PROVE BlockOf(f) \in Selectives
  <2>1. \E s \in {Live.sel[t] : t \in Tools} : FileOf[s] = f
    BY DEF LiveFiles
  <2>2. BlockOf(f) \in {Live.sel[t] : t \in Tools}
    BY <2>1 DEF BlockOf
  <2>3. QED
    BY <1>3, <2>2
<1>7. QED
  BY <1>2, <1>3, <1>4, <1>5, <1>6

\* A compressor is built: the count stays within its bound.
LEMMA Counts ==
  ASSUME StoresInv, CanBuild
  PROVE  Len(stores) + 1 <= MaxStores /\ Len(stores) + 1 \in Nat /\ Len(stores) + 1 # 0
         /\ Len(stores) + 1 # slot
BY SlotPlace, PendingAssumption DEF CanBuild

LEMMA EntersKeeps ==
  ASSUME PendingInv, NEW c \in Calls, Enters(c)
  PROVE  PendingInv' /\ PublishStep /\ TrimStep
<1>1. StoresInv /\ SettingsInv /\ CallsFit /\ RowsInv /\ KeysInv
  BY DEF PendingInv
<1>2. progress[c].pc = "fetched" /\ UNCHANGED <<configs, more, mutex>>
  BY DEF Enters
<1>3. CallFits(progress[c], c, Len(stores), slot, mutex)
  BY <1>1 DEF CallsFit
<1>4. Unpinned(progress[c])
  BY <1>2 DEF Unpinned, Pinning
<1>5. StoresFit(stores, slot, progress) /\ Len(stores) \in Nat /\ slot \in 0..Len(stores)
  BY <1>1, SlotPlace DEF StoresInv
<1>6. SettingsInv'
  BY <1>1, <1>2 DEF SettingsInv
<1>7. ASSUME NEW z \in Nat, z # 0,
             progress' = [progress EXCEPT ![c] = RowWith("scoring", z)],
             NEW n \in Nat, n = Len(stores'), n >= Len(stores), z <= n,
             slot' # slot => mutex = NoCall
      PROVE  CallsFit' /\ Advances
  <2>1. PICK d : d = RowWith("scoring", z)
    OBVIOUS
  <2>2. IsRow(d, "scoring", z)
    <3>1. "scoring" \in Pcs
      BY DEF Pcs
    <3>2. QED
      BY <2>1, <3>1, RowStored DEF Marks
  <2>3. d \in ProgressRecords /\ d.pc = "scoring" /\ d.store = z /\ d.target = 0
    BY <2>2 DEF IsRow
  <2>4. progress' = [progress EXCEPT ![c] = d]
    BY <1>7, <2>1
  <2>5. CallFits(d, c, n, slot', mutex)
    BY <1>7, <2>3 DEF CallFits
  <2>6. n = Len(stores') /\ n >= Len(stores) /\ mutex' = mutex /\ (slot' # slot => mutex = NoCall)
    BY <1>2, <1>7
  <2>7. QED
    BY <1>1, <1>2, <2>3, <2>4, <2>5, <2>6, CallsKept DEF Advanced
<1>8. ASSUME NEW ss, NEW z \in Nat, StoresFit(ss, z, progress), z # 0,
             stores' = Pinned(ss, z),
             progress' = [progress EXCEPT ![c] = RowWith("scoring", z)]
      PROVE  StoresFit(stores', z, progress') /\ Len(stores') = Len(ss)
  <2>1. PICK d : d = RowWith("scoring", z)
    OBVIOUS
  <2>2. IsRow(d, "scoring", z)
    <3>1. "scoring" \in Pcs
      BY DEF Pcs
    <3>2. QED
      BY <2>1, <3>1, RowStored DEF Marks
  <2>3. PinsOnly(d, z) /\ d \in ProgressRecords
    BY <2>2 DEF IsRow, PinsOnly, Pinning
  <2>4. PICK t : t = stores'
    OBVIOUS
  <2>5. PICK q : q = progress'
    OBVIOUS
  <2>6. t = Pinned(ss, z) /\ q = [progress EXCEPT ![c] = d]
    BY <1>8, <2>1, <2>4, <2>5
  <2>7. StoresFit(t, z, q)
    BY <1>4, <1>8, <2>3, <2>6, PinFits
  <2>8. Len(t) = Len(ss)
    BY <1>4, <1>8, <2>3, <2>6, PinFits
  <2>9. QED
    BY <2>4, <2>5, <2>7, <2>8
<1>9. CASE slot # 0 /\ stores[slot].cfg = Publication(c)
  <2>1. /\ stores' = Pinned(stores, slot) /\ UNCHANGED <<slot, rows, order>>
        /\ progress' = [progress EXCEPT ![c] = RowWith("scoring", slot)]
    BY <1>9 DEF Enters, RowWith
  <2>2. slot \in Nat /\ slot # 0 /\ slot <= Len(stores)
    BY <1>5, <1>9
  <2>3. StoresFit(stores', slot, progress') /\ Len(stores') = Len(stores)
    BY <1>5, <1>8, <2>1, <2>2
  <2>4. StoresInv'
    BY <1>1, <2>1, <2>3 DEF StoresInv
  <2>5. PICK n \in Nat : n = Len(stores') /\ n = Len(stores)
    BY <1>5, <2>3
  <2>10. n = Len(stores') /\ n >= Len(stores) /\ slot <= n /\ slot' = slot
    BY <1>5, <2>1, <2>2, <2>5
  <2>6. CallsFit' /\ Advances
    BY <1>7, <2>1, <2>2, <2>10
  <2>7. RowsInv' /\ AddsNone /\ PublishStep /\ TrimStep
    BY <1>1, <2>1, RestStep
  <2>8. KeysInv'
    BY <1>1, <2>6, <2>7, KeysStay
  <2>9. QED
    BY <1>6, <2>4, <2>6, <2>7, <2>8 DEF PendingInv
<1>10. CASE ~(slot # 0 /\ stores[slot].cfg = Publication(c))
  <2>1. PICK z : z = Len(stores) + 1
    OBVIOUS
  <2>2. /\ CanBuild /\ mutex = NoCall /\ slot' = z
        /\ stores' = Pinned(Append(Closed(stores, slot), Built(Publication(c))), z)
        /\ progress' = [progress EXCEPT ![c] = RowWith("scoring", z)]
        /\ Forgets({slot} \ {0})
    BY <1>10, <2>1 DEF Enters, RowWith
  <2>3. PICK t : t = Closed(stores, slot)
    OBVIOUS
  <2>4. StoresFit(t, 0, progress)
    BY <1>5, <2>3, CloseFits
  <2>5. Len(t) = Len(stores)
    BY <1>5, <2>3, CloseFits
  <2>6. Publication(c) \in Selectives
    <3>1. progress[c].tool \in Tools
      BY <1>2, <1>3 DEF CallFits
    <3>2. QED
      BY <1>1, <3>1, LiveLayout DEF Publication
  <2>7. PICK u : u = Append(t, Built(Publication(c)))
    OBVIOUS
  <2>8. StoresFit(u, z, progress)
    BY <2>1, <2>4, <2>5, <2>6, <2>7, BuildFits
  <2>9. Len(u) = z
    BY <2>1, <2>4, <2>5, <2>6, <2>7, BuildFits
  <2>10. z \in Nat /\ z # 0 /\ z # slot /\ z <= MaxStores
    BY <1>1, <2>1, <2>2, Counts
  <2>11. StoresFit(stores', z, progress') /\ Len(stores') = z
    BY <1>8, <2>2, <2>3, <2>7, <2>8, <2>9, <2>10
  <2>12. StoresInv'
    BY <2>2, <2>10, <2>11 DEF StoresInv
  <2>13. z = Len(stores') /\ z >= Len(stores) /\ z <= z
    BY <1>5, <2>1, <2>11
  <2>14. CallsFit' /\ Advances
    BY <1>7, <2>2, <2>10, <2>13
  <2>15. PICK ps : ps = {slot} \ {0}
    OBVIOUS
  <2>16. ps \subseteq 0..MaxStores /\ Forgets(ps) /\ slot' # slot
    BY <1>1, <1>5, <2>2, <2>10, <2>15, PendingAssumption DEF StoresInv
  <2>17. RowsInv' /\ AddsNone /\ PublishStep /\ TrimStep
    BY <1>1, <2>16, ForgetsStep
  <2>18. KeysInv'
    BY <1>1, <2>14, <2>17, KeysStay
  <2>19. QED
    BY <1>6, <2>12, <2>14, <2>17, <2>18 DEF PendingInv
<1>11. QED
  BY <1>9, <1>10

\* A lookup, whatever it leaves of the slot.
LEMMA StillStep ==
  ASSUME PendingInv, StoresInv', SettingsInv', CallsFit', Advances, RowsInv', AddsNone, DropsOld
  PROVE  PendingInv' /\ PublishStep /\ TrimStep
<1>1. StoresInv /\ RowsInv /\ KeysInv
  BY DEF PendingInv
<1>2. PublishStep /\ TrimStep
  BY <1>1, PlainStep
<1>3. KeysInv'
  BY <1>1, KeysStay
<1>4. QED
  BY <1>2, <1>3 DEF PendingInv

\* Stores, slot and calls rest.
LEMMA ServerRests ==
  ASSUME StoresInv, CallsFit, UNCHANGED <<stores, slot, mutex, progress>>
  PROVE  StoresInv' /\ CallsFit' /\ Advances
BY DEF StoresInv, CallsFit, Advances

LEMMA LayoutsReloadKeeps ==
  ASSUME PendingInv, NEW l \in Layouts, Reload(l)
  PROVE  PendingInv' /\ PublishStep /\ TrimStep
<1>1. StoresInv /\ SettingsInv /\ CallsFit /\ RowsInv /\ KeysInv
  BY DEF PendingInv
<1>2. /\ configs' = Append(configs, l)
      /\ UNCHANGED <<rows, stores, slot, more, mutex, progress, order>>
  BY DEF Reload
<1>3. StoresInv' /\ CallsFit' /\ Advances
  BY <1>1, <1>2, ServerRests
<1>4. RowsInv' /\ AddsNone /\ PublishStep /\ TrimStep
  BY <1>1, <1>2, RestStep
<1>5. KeysInv'
  BY <1>1, <1>3, <1>4, KeysStay
<1>6. configs' \in Seq(Layouts) /\ Len(configs') # 0
  BY <1>1, <1>2 DEF SettingsInv
<1>7. SettingsInv'
  BY <1>1, <1>2, <1>6 DEF SettingsInv
<1>8. QED
  BY <1>3, <1>4, <1>5, <1>7 DEF PendingInv

LEMMA StopSetsFlagKeeps ==
  ASSUME PendingInv, StopSetsFlag
  PROVE  PendingInv' /\ PublishStep /\ TrimStep
<1>1. StoresInv /\ SettingsInv /\ CallsFit /\ RowsInv /\ KeysInv
  BY DEF PendingInv
<1>2. UNCHANGED <<configs, rows, stores, slot, more, mutex, progress, order>>
  BY DEF StopSetsFlag
<1>3. StoresInv' /\ CallsFit' /\ Advances
  BY <1>1, <1>2, ServerRests
<1>4. RowsInv' /\ AddsNone /\ PublishStep /\ TrimStep
  BY <1>1, <1>2, RestStep
<1>5. KeysInv'
  BY <1>1, <1>3, <1>4, KeysStay
<1>6. SettingsInv'
  BY <1>1, <1>2 DEF SettingsInv
<1>7. QED
  BY <1>3, <1>4, <1>5, <1>6 DEF PendingInv

LEMMA StopClosesKeeps ==
  ASSUME PendingInv, StopCloses
  PROVE  PendingInv' /\ PublishStep /\ TrimStep
<1>1. StoresInv /\ SettingsInv /\ CallsFit /\ RowsInv /\ KeysInv
  BY DEF PendingInv
<1>2. /\ mutex = NoCall /\ stores' = Closed(stores, slot) /\ slot' = 0 /\ more' = Cold
      /\ UNCHANGED <<configs, mutex, progress>>
  BY DEF StopCloses
<1>3. StoresFit(stores, slot, progress) /\ Len(stores) \in Nat /\ slot \in 0..Len(stores)
  BY <1>1, SlotPlace DEF StoresInv
<1>4. PICK t : t = stores'
  OBVIOUS
<1>5. StoresFit(t, 0, progress)
  BY <1>2, <1>3, <1>4, CloseFits
<1>6. Len(t) = Len(stores)
  BY <1>2, <1>3, <1>4, CloseFits
<1>7. StoresInv'
  BY <1>1, <1>2, <1>4, <1>5, <1>6 DEF StoresInv
<1>8. PICK n \in Nat : n = Len(stores') /\ n >= Len(stores)
  BY <1>3, <1>4, <1>6
<1>9. CallsFit' /\ Advances
  BY <1>1, <1>2, <1>8, CallsRest
<1>10. PICK ps : ps = {0, slot}
  OBVIOUS
<1>11. ps \subseteq 0..MaxStores /\ Forgets(ps) /\ (slot \in ps => slot = 0 \/ slot' # slot)
  BY <1>1, <1>2, <1>3, <1>10, PendingAssumption DEF StopCloses, StoresInv
<1>12. RowsInv' /\ AddsNone /\ PublishStep /\ TrimStep
  BY <1>1, <1>11, ForgetsStep
<1>13. KeysInv'
  BY <1>1, <1>9, <1>12, KeysStay
<1>14. SettingsInv'
  BY <1>1, <1>2 DEF SettingsInv
<1>15. QED
  BY <1>7, <1>9, <1>12, <1>13, <1>14 DEF PendingInv

LEMMA SelectsKeeps ==
  ASSUME PendingInv, NEW k \in Keys, Selects(k)
  PROVE  PendingInv' /\ PublishStep /\ TrimStep
<1>1. StoresInv /\ SettingsInv /\ CallsFit /\ RowsInv /\ KeysInv
  BY DEF PendingInv
<1>2. /\ slot # 0 /\ UNCHANGED <<configs, stores, slot, more, mutex, progress>>
      /\ Looks(k, "selective", Searched(k, Place(slot)), Place(slot))
  BY DEF Selects
<1>3. PICK p \in Places : p = Place(slot)
  <2>1. slot \in 1..Len(stores)
    BY <1>1, <1>2, SlotPlace
  <2>2. QED
    BY <1>1, <2>1, SlotPlace
<1>4. PICK ps : ps = Searched(k, p)
  OBVIOUS
<1>5. ps \subseteq Places
  <2>1. Probed(k) \subseteq Files
    BY <1>1, LiveLayout
  <2>2. QED
    BY <1>4, <2>1 DEF Searched, Places
<1>6. Looks(k, "selective", ps, p)
  BY <1>2, <1>3, <1>4
<1>7. RowsInv' /\ AddsNone /\ DropsOld
  BY <1>1, <1>5, <1>6, LooksKeep
<1>8. StoresInv' /\ CallsFit' /\ Advances
  BY <1>1, <1>2, ServerRests
<1>9. SettingsInv'
  BY <1>1, <1>2 DEF SettingsInv
<1>10. QED
  BY <1>7, <1>8, <1>9, StillStep

LEMMA SelectRecoversKeeps ==
  ASSUME PendingInv, NEW k \in Keys, NEW f \in Files, SelectRecovers(k, f)
  PROVE  PendingInv' /\ PublishStep /\ TrimStep
<1>1. StoresInv /\ SettingsInv /\ CallsFit /\ RowsInv /\ KeysInv
  BY DEF PendingInv
<1>2. PICK z : z = Len(stores) + 1
  OBVIOUS
<1>3. /\ slot = 0 /\ mutex = NoCall /\ CanBuild /\ f \in RecoveryFiles(k)
      /\ stores' = Append(stores, Built(BlockOf(f))) /\ slot' = z
      /\ UNCHANGED <<configs, more, mutex, progress>>
  BY <1>2 DEF SelectRecovers
<1>4. Looks(k, "selective", {f}, f)
  BY DEF SelectRecovers
<1>5. PICK s \in Selectives : s = BlockOf(f)
  BY <1>1, <1>3, LiveLayout
<1>6. PICK t : t = stores'
  OBVIOUS
<1>7. t = Append(stores, Built(s)) /\ StoresFit(stores, 0, progress)
  BY <1>1, <1>3, <1>5, <1>6 DEF StoresInv
<1>8. StoresFit(t, z, progress)
  BY <1>2, <1>7, BuildFits
<1>9. Len(t) = z
  BY <1>2, <1>7, BuildFits
<1>10. z \in Nat /\ z # 0 /\ z <= MaxStores /\ z >= Len(stores)
  BY <1>1, <1>2, <1>3, Counts, SlotPlace
<1>11. StoresInv'
  BY <1>3, <1>6, <1>8, <1>9, <1>10 DEF StoresInv
<1>12. z = Len(stores') /\ z >= Len(stores) /\ progress' = progress /\ mutex' = mutex
  BY <1>3, <1>6, <1>9, <1>10
<1>13. CallsFit' /\ Advances
  BY <1>1, <1>3, <1>10, <1>12, CallsRest
<1>14. RowsInv' /\ AddsNone /\ DropsOld
  <2>1. {f} \subseteq Places /\ f \in Places
    BY DEF Places
  <2>2. QED
    BY <1>1, <1>4, <2>1, LooksKeep
<1>15. SettingsInv'
  BY <1>1, <1>3 DEF SettingsInv
<1>16. QED
  BY <1>11, <1>13, <1>14, <1>15, StillStep

MoreAt(m) == IF FileOf[m] = Memory THEN 0 ELSE FileOf[m]

LEMMA MorePlaces ==
  ASSUME NEW m \in Selectives
  PROVE  MoreAt(m) \in Places /\ (MoreAt(m) \in Files \/ MoreAt(m) = 0)
BY DEF MoreAt, Places, Files

LEMMA ReadsMoreKeeps ==
  ASSUME PendingInv, NEW k \in Keys, ReadsMore(k)
  PROVE  PendingInv' /\ PublishStep /\ TrimStep
<1>1. StoresInv /\ SettingsInv /\ CallsFit /\ RowsInv /\ KeysInv
  BY DEF PendingInv
<1>2. UNCHANGED <<configs, stores, slot, mutex, progress>>
  BY DEF ReadsMore
<1>3. more' \in Selectives
  <2>1. CASE more # Cold /\ more' = more
    BY <1>1, <2>1 DEF SettingsInv
  <2>2. CASE more' = NoBlock
    BY <2>2, PendingAssumption
  <2>3. CASE \E f \in RecoveryFiles(k) : more' = BlockOf(f)
    BY <1>1, <2>3, LiveLayout
  <2>4. QED
    BY <2>1, <2>2, <2>3 DEF ReadsMore
<1>4. PICK p : p = MoreAt(more')
  OBVIOUS
<1>5. p \in Places
  BY <1>3, <1>4, MorePlaces
<1>6. PICK ps : ps = Found(k, "progressive", Searched(k, p))
  OBVIOUS
<1>7. RowsInv' /\ AddsNone /\ DropsOld
  <2>1. CASE ps # {}
    <3>1. PICK q : q = CHOOSE x \in ps : TRUE
      OBVIOUS
    <3>2. BecomesUsing(q, k, Touched(rows[q], k))
      BY <1>4, <1>6, <2>1, <3>1 DEF ReadsMore, MoreAt
    <3>3. q \in ps
      BY <2>1, <3>1
    <3>4. q \in Places
      <4>1. Probed(k) \subseteq Files
        BY <1>1, LiveLayout
      <4>2. QED
        BY <1>5, <1>6, <3>3, <4>1 DEF Found, Searched, Places
    <3>5. k \in KeysOf(rows[q])
      BY <1>6, <3>3 DEF Found, Readable, KeysOf
    <3>6. PICK bs : bs = rows[q]
      OBVIOUS
    <3>7. bs \subseteq rows[q] /\ \A r \in rows[q] : r.old = FALSE => r \in bs
      BY <3>6
    <3>8. k \in KeysOf(bs) /\ BecomesUsing(q, k, Touched(bs, k))
      BY <3>2, <3>5, <3>6
    <3>9. QED
      BY <1>1, <3>4, <3>7, <3>8, TouchKeeps
  <2>2. CASE ps = {}
    <3>1. PICK rs : rs = {r \in rows[p] : ~(r.key = k /\ r.old /\ r.format = "progressive")}
      OBVIOUS
    <3>2. Becomes(p, rs)
      BY <1>4, <1>6, <2>2, <3>1 DEF ReadsMore, MoreAt
    <3>3. rs \subseteq rows[p] /\ \A r \in rows[p] : r.old = FALSE => r \in rs
      BY <3>1
    <3>4. QED
      BY <1>1, <1>5, <3>2, <3>3, SubsetKeeps
  <2>3. QED
    BY <2>1, <2>2
<1>8. StoresInv' /\ CallsFit' /\ Advances
  BY <1>1, <1>2, ServerRests
<1>9. SettingsInv'
  BY <1>1, <1>2, <1>3 DEF SettingsInv
<1>10. QED
  BY <1>7, <1>8, <1>9, StillStep

LEMMA AgesKeeps ==
  ASSUME PendingInv, NEW p \in Files, Ages(p)
  PROVE  PendingInv' /\ PublishStep /\ TrimStep
<1>1. StoresInv /\ SettingsInv /\ CallsFit /\ RowsInv /\ KeysInv
  BY DEF PendingInv
<1>2. PICK r \in rows[p] : Becomes(p, (rows[p] \ {r}) \cup {[r EXCEPT !.old = TRUE]})
  BY DEF Ages
<1>3. UNCHANGED <<configs, stores, slot, more, mutex, progress>>
  BY DEF Ages
<1>4. PICK e : e = [r EXCEPT !.old = TRUE]
  OBVIOUS
<1>5. p \in Places
  BY DEF Places
<1>6. rows[p] \subseteq RowRecords /\ Ordered(rows[p], order[p]) /\ IsFiniteSet(rows[p])
  BY <1>1, <1>5, RowsAt
<1>7. e \in RowRecords /\ e.key = r.key /\ e.rank = r.rank
  BY <1>4, <1>6 DEF RowRecords
<1>8. PICK rs : rs = (rows[p] \ {r}) \cup {e}
  OBVIOUS
<1>9. rs \subseteq RowRecords
  BY <1>6, <1>7, <1>8
<1>10. Thins(rows[p], rs)
  <2>1. IsFiniteSet(rs)
    <3>1. IsFiniteSet(rows[p] \ {r})
      BY <1>6, FS_RemoveElement
    <3>2. QED
      BY <1>8, <3>1, FS_AddElement
  <2>2. ASSUME NEW x \in rs PROVE \E q \in rows[p] : q.key = x.key /\ q.rank = x.rank
    BY <1>7, <1>8
  <2>3. ASSUME NEW x \in rs, NEW y \in rs, x.key = y.key PROVE x = y
    <3>1. \A a, b \in rows[p] : a.key = b.key => a = b
      BY <1>6 DEF Ordered
    <3>2. QED
      BY <1>7, <1>8, <2>3, <3>1
  <2>4. QED
    BY <2>1, <2>2, <2>3 DEF Thins
<1>11. UnexpiredIn(p, KeysOf(rs))
  <2>1. ASSUME NEW x \in rows[p] PROVE x.key \in KeysOf(rs)
    <3>1. \E y \in rs : y.key = x.key
      BY <1>7, <1>8
    <3>2. QED
      BY <3>1 DEF KeysOf
  <2>2. QED
    BY <2>1 DEF UnexpiredIn
<1>12. Becomes(p, rs)
  BY <1>2, <1>4, <1>8
<1>13. RowsInv' /\ AddsNone /\ DropsOld
  BY <1>1, <1>5, <1>9, <1>10, <1>11, <1>12, ThinKeeps
<1>14. StoresInv' /\ CallsFit' /\ Advances
  BY <1>1, <1>3, ServerRests
<1>15. SettingsInv'
  BY <1>1, <1>3 DEF SettingsInv
<1>16. QED
  BY <1>13, <1>14, <1>15, StillStep

LEMMA PeerPutsKeeps ==
  ASSUME PendingInv, NEW f \in Shared, PeerPuts(f)
  PROVE  PendingInv' /\ PublishStep /\ TrimStep
<1>1. StoresInv /\ SettingsInv /\ CallsFit /\ RowsInv /\ KeysInv
  BY DEF PendingInv
<1>2. /\ BecomesUsing(f, Peer, PutRow(rows[f], Peer, "json"))
      /\ UNCHANGED <<configs, stores, slot, more, mutex, progress>>
  BY DEF PeerPuts
<1>3. f \in Places /\ Peer \in Keys /\ Peer \notin Calls
  BY PendingAssumption DEF Places, Keys
<1>4. RowsInv' /\ AddsAt(f, Peer) /\ DropsOld
  <2>1. PICK b \in {"json", "progressive"} : b = "json"
    OBVIOUS
  <2>2. BecomesUsing(f, Peer, PutRow(rows[f], Peer, b))
    BY <1>2, <2>1
  <2>3. QED
    BY <1>1, <1>3, <2>2, PutRowKeeps
<1>5. StoresInv' /\ CallsFit' /\ Advances
  BY <1>1, <1>2, ServerRests
<1>6. \A q \in Places : Peer \notin KeysOf(rows[q])
  BY DEF PeerPuts, KeysAt
<1>7. KeysInv'
  BY <1>1, <1>3, <1>4, <1>5, <1>6, KeysArrive
<1>8. PublishStep
  BY <1>3, <1>4 DEF PublishStep, AddsAt, KeysAt
<1>9. TrimStep
  BY <1>1, <1>4, DropsNone
<1>10. SettingsInv'
  BY <1>1, <1>2 DEF SettingsInv
<1>11. QED
  BY <1>4, <1>5, <1>7, <1>8, <1>9, <1>10 DEF PendingInv

LEMMA DeliversKeeps ==
  ASSUME PendingInv, NEW c \in Calls, Delivers(c)
  PROVE  PendingInv' /\ PublishStep /\ TrimStep
<1>1. StoresInv /\ SettingsInv /\ CallsFit /\ RowsInv /\ KeysInv
  BY DEF PendingInv
<1>2. /\ progress[c].pc = "fetched" /\ progress[c].kind = "progressive"
      /\ more' = MoreFor(Publication(c))
      /\ UNCHANGED <<configs, stores, slot, mutex>>
  BY DEF Delivers
<1>3. CallFits(progress[c], c, Len(stores), slot, mutex)
  BY <1>1 DEF CallsFit
<1>4. more' \in Selectives
  <2>1. progress[c].tool \in Tools
    BY <1>2, <1>3 DEF CallFits
  <2>2. Publication(c) \in Selectives
    BY <1>1, <2>1, LiveLayout DEF Publication
  <2>3. QED
    BY <1>1, <1>2, <2>2 DEF MoreFor, SettingsInv
<1>5. PICK d : d = RowAt("over")
  OBVIOUS
<1>6. d \in ProgressRecords /\ d.pc = "over" /\ d.store = 0 /\ d.target = 0
  BY <1>5, RowAtForm DEF Pcs
<1>7. progress' = [progress EXCEPT ![c] = d]
  BY <1>5 DEF Delivers
<1>8. \A i : Pinning(d, i) <=> Pinning(progress[c], i)
  BY <1>2, <1>6 DEF Pinning
<1>9. CallFits(d, c, Len(stores), slot, mutex')
  <2>1. Len(stores) \in Nat
    BY <1>1, SlotPlace
  <2>2. QED
    BY <1>6, <2>1 DEF CallFits
<1>10. StoresInv' /\ CallsFit' /\ Advances
  BY <1>1, <1>2, <1>6, <1>7, <1>8, <1>9, CallMoves DEF Advanced
<1>11. PICK p : p = MoreAt(more')
  OBVIOUS
<1>12. p \in Places
  BY <1>4, <1>11, MorePlaces
<1>13. PICK had : had = IF p = 0 /\ more' # more THEN {} ELSE rows[p]
  OBVIOUS
<1>14. PICK bs : bs = Expired(had, "progressive")
  OBVIOUS
<1>15. PICK m : m = configs[progress[c].pin].more
  OBVIOUS
<1>16. PICK left : left = IF Evicts(c) THEN Trimmed(bs, "progressive", m) ELSE had
  OBVIOUS
<1>17. PICK rs : rs = PutRow(left, c, "progressive")
  OBVIOUS
<1>18. BecomesUsing(p, c, rs)
  BY <1>11, <1>13, <1>14, <1>15, <1>16, <1>17 DEF Delivers, MoreAt
<1>19. rows[p] \subseteq RowRecords /\ Ordered(rows[p], order[p])
  BY <1>1, <1>12, RowsAt
<1>20. left \subseteq rows[p]
  <2>1. had \subseteq rows[p]
    BY <1>13
  <2>2. bs \subseteq had
    BY <1>14 DEF Expired
  <2>3. Trimmed(bs, "progressive", m) \subseteq bs
    BY DEF Trimmed
  <2>4. QED
    BY <1>16, <2>1, <2>2, <2>3
<1>21. PICK n \in RowRecords : n.key = c /\ Above(left, n) /\ rs = With(left, c, n)
  <2>1. NextRank(left) <= MaxRank
    <3>1. NextRank(rows[p]) <= MaxRank
      BY <1>18 DEF BecomesUsing
    <3>2. NextRank(left) <= NextRank(rows[p]) /\ NextRank(left) \in Nat /\ NextRank(rows[p]) \in Nat
      BY <1>19, <1>20, NextRankLess, NextRankAbove
    <3>3. QED
      BY <3>1, <3>2, PendingAssumption
  <2>2. PICK f \in {"json", "progressive"} : f = "progressive"
    OBVIOUS
  <2>3. left \subseteq RowRecords /\ c \in Keys
    BY <1>19, <1>20 DEF Keys
  <2>4. \E n \in RowRecords : /\ n.key = c /\ n.old = FALSE /\ Above(left, n)
                              /\ PutRow(left, c, f) = With(left, c, n)
    BY <2>1, <2>3, PutForm
  <2>5. QED
    BY <1>17, <2>2, <2>4
<1>22. RowsInv' /\ rows'[p] = rs /\ \A q \in Places \ {p} : rows'[q] = rows[q]
  <2>1. Thins(rows[p], left) /\ left \subseteq RowRecords /\ c \in Keys
    BY <1>19, <1>20, SubsetThins DEF Keys
  <2>2. QED
    BY <1>1, <1>12, <1>18, <1>21, <2>1, RowsUse
<1>23. KeysOf(rs) = KeysOf(left) \cup {c}
  BY <1>21, OtherKeys
<1>24. AddsAt(p, c)
  <2>1. KeysOf(left) \subseteq KeysOf(rows[p])
    BY <1>20 DEF KeysOf
  <2>2. QED
    BY <1>22, <1>23, <2>1 DEF AddsAt
<1>25. \A q \in Places : c \notin KeysOf(rows[q])
  BY <1>1, <1>2 DEF KeysInv, Advanced
<1>26. progress'[c].pc \in Advanced
  <2>1. progress'[c] = d
    BY <1>1, <1>7, CallFields
  <2>2. QED
    BY <1>6, <2>1 DEF Advanced
<1>27. KeysInv'
  BY <1>1, <1>10, <1>12, <1>24, <1>25, <1>26, KeysArrive
<1>28. PublishStep
  <2>1. ASSUME NEW x \in Calls, NEW q \in Places, x \in KeysOf(rows'[q]) \ KeysAt(q),
               progress[x].kind = "selective"
        PROVE  FALSE
    <3>1. x = c
      BY <1>24, <2>1 DEF AddsAt, KeysAt
    <3>2. QED
      BY <1>2, <2>1, <3>1
  <2>2. QED
    BY <2>1 DEF PublishStep
<1>29. ASSUME NEW q \in Places, q # 0, NEW r \in Dropped(q)
       PROVE  Kind(r) = "progressive" /\ Cardinality(Remaining(q, "progressive")) >= Live.more
  <2>1. r \in rows[q] /\ ~r.old /\ r.key \notin KeysOf(rows'[q])
    BY DEF Dropped, KeysOf
  <2>2. r.old = FALSE
    BY <1>1, <2>1, RowsAt, RankFields
  <2>3. q = p
    BY <1>22, <2>1, KeysKept
  <2>4. had = rows[p]
    BY <1>13, <1>29, <2>3
  <2>5. r \notin left
    <3>1. ASSUME r \in left PROVE r.key \in KeysOf(rows'[q])
      BY <1>22, <1>23, <2>3, <3>1, KeysKept
    <3>2. QED
      BY <2>1, <3>1
  <2>6. Evicts(c)
    BY <1>16, <2>1, <2>3, <2>4, <2>5
  <2>7. PICK k \in Nat : k = m /\ k = Live.more
    <3>1. m = Live.more
      BY <1>15, <2>6 DEF Evicts, Live
    <3>2. QED
      BY <1>1, <3>1, LiveLayout
  <2>8. bs \subseteq rows[p] /\ \A x \in rows[p] : x.old = FALSE => x \in bs
    BY <1>14, <1>19, <2>4, ExpiredKeeps
  <2>9. KeysOf(Trimmed(bs, "progressive", k)) \subseteq KeysOf(rows'[p])
    BY <1>16, <1>22, <1>23, <2>6, <2>7
  <2>10. Kind(r) = "progressive" /\ Cardinality(Remaining(p, "progressive")) >= k
    BY <1>1, <1>12, <2>1, <2>2, <2>3, <2>8, <2>9, TrimsLeave
  <2>11. QED
    BY <2>3, <2>7, <2>10
<1>30. TrimStep
  <2>1. ASSUME NEW q \in Files \cup (({slot} \cap {slot'}) \ {0}) PROVE q \in Places /\ q # 0
    BY <1>1, SlotPlace, PendingAssumption DEF Places
  <2>2. QED
    BY <1>29, <2>1 DEF TrimStep
<1>31. SettingsInv'
  BY <1>1, <1>2, <1>4 DEF SettingsInv
<1>32. QED
  BY <1>10, <1>22, <1>27, <1>28, <1>30, <1>31 DEF PendingInv

LEMMA PendingInitInv ==
  ASSUME PendingInit
  PROVE  PendingInv
<1>1. /\ configs = <<FirstLayout>> /\ rows = [p \in Places |-> {}] /\ stores = << >> /\ slot = 0
      /\ more = Cold /\ mutex = NoCall /\ order = [p \in Places |-> {}]
  BY DEF PendingInit
<1>2. PICK d : d = RowAt("idle")
  OBVIOUS
<1>3. d \in ProgressRecords /\ d.pc = "idle" /\ d.store = 0 /\ d.target = 0
  BY <1>2, RowAtForm DEF Pcs
<1>4. progress = [c \in Calls |-> d]
  BY <1>2 DEF PendingInit
<1>5. progress \in [Calls -> ProgressRecords] /\ \A c \in Calls : progress[c] = d
  BY <1>3, <1>4
<1>6. StoresInv
  <2>1. \A i : ~Pinning(d, i)
    BY <1>3 DEF Pinning
  <2>2. stores \in Seq(CompressorRecords) /\ Len(stores) = 0
    BY <1>1
  <2>3. StoresFit(stores, slot, progress)
    BY <1>1, <1>5, <2>1, <2>2 DEF StoresFit
  <2>4. QED
    BY <2>2, <2>3, PendingAssumption DEF StoresInv
<1>7. SettingsInv
  <2>1. configs \in Seq(Layouts) /\ Len(configs) # 0
    BY <1>1, PendingAssumption
  <2>2. QED
    BY <1>1, <2>1 DEF SettingsInv
<1>8. CallsFit
  <2>1. Len(stores) = 0
    BY <1>1
  <2>2. QED
    BY <1>3, <1>5, <2>1 DEF CallsFit, CallFits
<1>9. \A p \in Places : rows[p] = {} /\ order[p] = {}
  BY <1>1
<1>10. RowsInv
  <2>1. rows \in [Places -> SUBSET RowRecords] /\ order \in [Places -> SUBSET (Keys \X Keys)]
    BY <1>1
  <2>2. QED
    BY <1>9, <2>1, FS_EmptySet DEF RowsInv, Ordered
<1>11. KeysInv
  BY <1>9 DEF KeysInv, KeysOf
<1>12. QED
  BY <1>6, <1>7, <1>8, <1>10, <1>11 DEF PendingInv

LEMMA PendingStep ==
  ASSUME PendingInv, [PendingNext]_pendingVars
  PROVE  PendingInv' /\ PublishStep /\ TrimStep
<1>1. CASE UNCHANGED pendingVars
  <2>1. StoresInv /\ SettingsInv /\ CallsFit /\ RowsInv /\ KeysInv
    BY DEF PendingInv
  <2>2. UNCHANGED <<configs, rows, stores, slot, more, mutex, progress, order>>
    BY <1>1 DEF pendingVars
  <2>3. StoresInv' /\ CallsFit' /\ Advances
    BY <2>1, <2>2, ServerRests
  <2>4. RowsInv' /\ AddsNone /\ PublishStep /\ TrimStep
    BY <2>1, <2>2, RestStep
  <2>5. KeysInv'
    BY <2>1, <2>3, <2>4, KeysStay
  <2>6. SettingsInv'
    BY <2>1, <2>2 DEF SettingsInv
  <2>7. QED
    BY <2>3, <2>4, <2>5, <2>6 DEF PendingInv
<1>2. ASSUME NEW c \in Calls,
             \/ \E t \in Tools, k \in {"selective", "progressive"} : Starts(c, t, k)
             \/ Enters(c) \/ Refused(c) \/ Publishes(c) \/ PublishFails(c)
             \/ EvictExpires(c) \/ EvictTrims(c) \/ EvictFails(c)
             \/ Returns(c) \/ Cancelled(c) \/ Delivers(c)
      PROVE  PendingInv' /\ PublishStep /\ TrimStep
  BY <1>2, StartsKeep, EntersKeeps, RefusedKeeps, PublishesKeeps, PublishFailsKeeps,
     EvictExpiresKeeps, EvictTrimsKeeps, EvictFailsKeeps, ReturnsKeeps, CancelledKeeps,
     DeliversKeeps
<1>3. ASSUME NEW k \in Keys, Selects(k) \/ ReadsMore(k) \/ \E f \in Files : SelectRecovers(k, f)
      PROVE  PendingInv' /\ PublishStep /\ TrimStep
  BY <1>3, SelectsKeeps, ReadsMoreKeeps, SelectRecoversKeeps
<1>4. CASE \E l \in Layouts : Reload(l)
  BY <1>4, LayoutsReloadKeeps
<1>5. CASE \E p \in Files : Ages(p)
  BY <1>5, AgesKeeps
<1>6. CASE \E f \in Shared : PeerPuts(f)
  BY <1>6, PeerPutsKeeps
<1>7. CASE StopSetsFlag \/ StopCloses
  BY <1>7, StopSetsFlagKeeps, StopClosesKeeps
<1>8. QED
  BY <1>1, <1>2, <1>3, <1>4, <1>5, <1>6, <1>7 DEF PendingNext

LEMMA PendingInvShows ==
  ASSUME PendingInv
  PROVE  PendingIsSound
<1>1. StoresInv /\ SettingsInv /\ CallsFit /\ RowsInv /\ KeysInv
  BY DEF PendingInv
<1>2. PendingTypeOK
  <2>1. \A p \in Places : \A r \in rows[p] : r.key \in Keys /\ r.rank \in 1..MaxRank
    <3>1. ASSUME NEW p \in Places, NEW r \in rows[p] PROVE r \in RowRecords
      BY <1>1, RowsAt
    <3>2. QED
      BY <3>1 DEF RowRecords, Ranks
  <2>2. ASSUME NEW c \in Calls
        PROVE  progress[c].store \in 0..Len(stores) /\ progress[c].target \in 0..Len(stores)
    BY <1>1 DEF CallsFit, CallFits
  <2>3. slot \in 0..Len(stores) /\ mutex \in Calls \cup {NoCall}
    BY <1>1, SlotPlace DEF SettingsInv
  <2>4. QED
    BY <2>1, <2>2, <2>3 DEF PendingTypeOK
<1>3. ASSUME NEW i \in 1..Len(stores) PROVE stores[i].open <=> (i = slot \/ PinsOn(i) # {})
  <2>1. PinsOn(i) = Holders(progress, i)
    <3>1. \A c \in Calls : (~progress[c].gone) <=> progress[c].gone = FALSE
      BY <1>1, CallFields
    <3>2. QED
      BY <3>1 DEF PinsOn, Holders, Pinning
  <2>2. Needed(stores[i], i, slot, Holders(progress, i)) /\ stores[i] \in CompressorRecords
    BY <1>1 DEF StoresInv, StoresFit
  <2>3. stores[i].open = TRUE <=> (i = slot \/ Holders(progress, i) # {})
    BY <2>2 DEF Needed
  <2>4. stores[i].open \in BOOLEAN
    BY <2>2, CompressorFields
  <2>5. QED
    BY <2>1, <2>3, <2>4
<1>4. OpenWhileNeeded
  BY <1>2, <1>3 DEF OpenWhileNeeded
<1>5. RanksAreRecency
  BY <1>1 DEF RanksAreRecency, RowsInv, Ordered
<1>6. FilesAreSearched
  <2>1. SUFFICES ASSUME Cardinality(LiveFiles) > 1, NEW k \in Keys, NEW f \in LiveFiles,
                        Readable(f, k, "selective")
                 PROVE  Answers(k)
    BY DEF FilesAreSearched
  <2>2. f \in Places /\ \A g \in LiveFiles : g \in Places
    BY <1>1, LiveLayout DEF Places
  <2>3. k \in KeysAt(f)
    BY <2>1 DEF Readable, KeysAt, KeysOf
  <2>4. f \in Probed(k)
    BY <2>1, <2>3 DEF Probed, Holding
  <2>5. CASE slot # 0
    <3>1. slot \in 1..Len(stores)
      BY <1>1, <2>5, SlotPlace
    <3>2. PICK p \in Places : p = Place(slot)
      BY <1>1, <3>1, SlotPlace
    <3>3. k \in KeysAt(p) => p = f
      BY <1>1, <2>2, <2>3 DEF KeysInv, KeysAt
    <3>4. f \in Searched(k, p)
      BY <2>4, <3>3 DEF Searched
    <3>5. f \in Found(k, "selective", Searched(k, Place(slot)))
      BY <2>1, <3>2, <3>4 DEF Found
    <3>6. QED
      BY <2>5, <3>5 DEF Answers
  <2>6. CASE slot = 0
    <3>1. ASSUME NEW g \in RecoveryFiles(k) PROVE Readable(g, k, "selective")
      <4>1. g \in Probed(k)
        BY <2>4 DEF RecoveryFiles
      <4>2. g \in LiveFiles /\ k \in KeysAt(g)
        BY <4>1 DEF Probed, Holding
      <4>3. g = f
        BY <1>1, <2>2, <2>3, <4>2 DEF KeysInv, KeysAt
      <4>4. QED
        BY <2>1, <4>3
    <3>2. QED
      BY <2>6, <3>1 DEF Answers
  <2>7. QED
    BY <2>5, <2>6
<1>7. QED
  BY <1>4, <1>5, <1>6 DEF PendingIsSound

LEMMA PendingIsAPart ==
  /\ ManagerInit => PendingInit
  /\ [ManagerNext]_managerVars => [PendingNext]_pendingVars
<1>1. ManagerInit => PendingInit
  BY DEF ManagerInit
<1>2. [ManagerNext]_managerVars => [PendingNext]_pendingVars
  BY DEF ManagerNext, managerVars, PendingMoves, RefreshMoves, ExtractorsMove, ShutdownMoves,
         ExposureMoves, ConsultMoves
<1>3. QED
  BY <1>1, <1>2

(* Whatever reloads, cancellations, stops and other processes come between:*)
(* a compressor's store is open while the slot or a call needs it, and no  *)
(* longer; the rank of a row is its place in the order of use; and a live  *)
(* key of a configured file is found wherever it is.                       *)
THEOREM PendingStaysSound == ManagerSpec => []PendingIsSound
<1>1. ManagerInit => PendingInv
  BY PendingIsAPart, PendingInitInv
<1>2. PendingInv /\ [ManagerNext]_managerVars => PendingInv'
  BY PendingIsAPart, PendingStep
<1>3. QED
  BY <1>1, <1>2, PendingInvShows, PTL DEF ManagerSpec

(* A key is published where the slot's readers look at that moment, and    *)
(* what a trim drops, the policy in force drops: with the listings and the *)
(* names of the host, all that a step of the manager may never do.         *)
THEOREM PublicationsStand == ManagerSpec => PublicationsHold
<1>1. ManagerInit => PendingInv
  BY PendingIsAPart, PendingInitInv
<1>2. PendingInv /\ [ManagerNext]_managerVars => PendingInv' /\ [PublishStep]_pendingVars /\ [TrimStep]_pendingVars
  BY PendingIsAPart, PendingStep
<1>3. [PublishStep]_pendingVars =>
        [\A c \in Calls : \A p \in Places :
           (progress[c].kind = "selective" /\ c \in {r.key : r \in rows'[p]} \ KeysAt(p) /\ slot # 0)
             => p = Place(slot)]_pendingVars
  BY DEF PublishStep, KeysOf
<1>4. [TrimStep]_pendingVars =>
        [\A p \in Files \cup (({slot} \cap {slot'}) \ {0}) : \A r \in Dropped(p) :
           IF Kind(r) = "progressive"
           THEN Cardinality(Remaining(p, "progressive")) >= Live.more
           ELSE slot # 0 => /\ p = Place(slot)
                            /\ Cardinality(Remaining(p, "selective")) >= Keep[stores[slot].cfg]]_pendingVars
  BY DEF TrimStep
<1>5. ManagerSpec => PublishedWhereRead /\ TrimsAreLive
  BY <1>1, <1>2, <1>3, <1>4, PTL DEF ManagerSpec, PublishedWhereRead, TrimsAreLive
<1>6. QED
  BY <1>5, ListingsOnlyAdvance, NamesStayTheHosts DEF PublicationsHold, PublicationsAreLive
=============================================================================
