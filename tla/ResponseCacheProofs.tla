------------------------- MODULE ResponseCacheProofs -------------------------
(***************************************************************************)
(* Proofs about ResponseCache, for every set of processes and builds, of   *)
(* keys, bodies, policies and trigger texts, and every number of attempts, *)
(* and about ResponsePipeline, for any calls, settings and replies.        *)
(***************************************************************************)
EXTENDS ResponseCache, ResponsePipeline, TLAPS

(* StampVouches says nothing while a repair token is published, yet the    *)
(* initializer that finishes under that token empties the queue.  What     *)
(* makes this safe: under its own token and triggers, every row it must    *)
(* not leave is in the queue or among the keys its sweep condemned, and a  *)
(* condemned key that is not queued still has the body the sweep judged.   *)
SweepSound ==
  \A p \in Processes :
    /\ proc[p].step \in {"token", "swept"}
    /\ stamp = <<p, proc[p].attempt>>
    /\ triggers = TriggersOf[p] /\ triggers \in Tracking
    => /\ PolicyOf[p] \in Careful => TransientRows \subseteq queue
       /\ proc[p].step = "swept" =>
            /\ Stale(PolicyOf[p]) \subseteq queue \cup proc[p].swept
            /\ \A k \in proc[p].swept \ queue :
                 rows[k] \in Sensitive[PolicyOf[p]] \cup {None}

(* Only an attempt that is not the last one publishes a token.             *)
TokenNotLast ==
  \A p \in Processes : proc[p].step \in {"token", "swept"} => proc[p].attempt < Attempts

Inv == TypeOK /\ TokenNotLast /\ StampVouches /\ SweepSound

(* What every statement does under triggers that track: a key keeps its    *)
(* row and its place in the queue, loses its row, or is queued.            *)
Kept ==
  \A k \in Keys : \/ rows'[k] = rows[k] /\ (k \in queue => k \in queue')
                  \/ rows'[k] = None
                  \/ k \in queue'

LEMMA TokenFacts ==
  \A p \in Processes, n \in 1..Attempts : /\ <<p, n>> \in Tokens
                                         /\ <<p, n>> \notin Policies /\ <<p, n>> # None
BY CacheAssumption DEF Tokens

(* While a policy stamp is published no repair token stands.               *)
LEMMA NoTokenUnderPolicy ==
  ASSUME TypeOK', stamp' \in Policies
  PROVE  SweepSound'
BY TokenFacts DEF TypeOK, SweepSound

LEMMA InitInv == Init => Inv
<1> SUFFICES ASSUME Init PROVE Inv
  OBVIOUS
<1>1. TypeOK
  BY CacheAssumption DEF Init, TypeOK, Closed, At
<1>2. StampVouches
  BY CacheAssumption DEF Init, StampVouches
<1>3. SweepSound
  BY CacheAssumption DEF Init, SweepSound, Closed, At
<1>4. TokenNotLast
  BY DEF Init, TokenNotLast, Closed, At
<1>5. QED
  BY <1>1, <1>2, <1>3, <1>4 DEF Inv

(* The trigger effects, under tracking triggers.                           *)
LEMMA TrackedEffects ==
  ASSUME Inv, triggers \in Tracking
  PROVE  /\ \A k \in Keys : QueuedBy(triggers, k) = {queue \cup {k}}
         /\ \A D : DequeuedBy(triggers, D) = {queue \ D}
BY CacheAssumption DEF QueuedBy, DequeuedBy

LEMMA TypedEffects ==
  ASSUME TypeOK
  PROVE  /\ \A k \in Keys : QueuedBy(triggers, k) \subseteq SUBSET Keys
         /\ \A D : DequeuedBy(triggers, D) \subseteq SUBSET Keys
         /\ \A D : Without(D) \in [Keys -> Bodies \cup {None}]
BY DEF TypeOK, QueuedBy, DequeuedBy, Without

(* A statement that leaves the stamp, the triggers and every initializer.  *)
LEMMA KeptInv ==
  ASSUME Inv, TypeOK', UNCHANGED <<stamp, triggers, proc>>, triggers \in Tracking => Kept
  PROVE  Inv'
<1>1. CASE triggers \notin Tracking
  BY <1>1 DEF Inv, StampVouches, SweepSound, TokenNotLast
<1>2. CASE triggers \in Tracking
  <2>1. Kept
    BY <1>2
  <2>2. \A B \in SUBSET Bodies :
          {k \in Keys : rows[k] \in B} \subseteq queue => {k \in Keys : rows'[k] \in B} \subseteq queue'
    BY <2>1, CacheAssumption DEF Kept
  <2>3. StampVouches'
    <3> SUFFICES ASSUME stamp \in Policies
                 PROVE  /\ {k \in Keys : rows'[k] \in Sensitive[stamp]} \subseteq queue'
                        /\ stamp \in Careful => {k \in Keys : rows'[k] \in Transient} \subseteq queue'
      BY DEF StampVouches, Stale, TransientRows
    <3>1. Sensitive[stamp] \in SUBSET Bodies /\ Transient \in SUBSET Bodies
      BY CacheAssumption
    <3>2. /\ {k \in Keys : rows[k] \in Sensitive[stamp]} \subseteq queue
          /\ stamp \in Careful => {k \in Keys : rows[k] \in Transient} \subseteq queue
      BY <1>2 DEF Inv, StampVouches, Stale, TransientRows
    <3>3. QED
      BY <2>2, <3>1, <3>2
  <2>4. SweepSound'
    <3> SUFFICES ASSUME NEW p \in Processes, proc[p].step \in {"token", "swept"},
                        stamp = <<p, proc[p].attempt>>, triggers = TriggersOf[p]
                 PROVE  /\ PolicyOf[p] \in Careful => {k \in Keys : rows'[k] \in Transient} \subseteq queue'
                        /\ proc[p].step = "swept" =>
                             /\ {k \in Keys : rows'[k] \in Sensitive[PolicyOf[p]]} \subseteq queue' \cup proc[p].swept
                             /\ \A k \in proc[p].swept \ queue' :
                                  rows'[k] \in Sensitive[PolicyOf[p]] \cup {None}
      BY DEF SweepSound, Stale, TransientRows
    <3>1. Transient \in SUBSET Bodies /\ Sensitive[PolicyOf[p]] \in SUBSET Bodies
      BY CacheAssumption
    <3>2. /\ PolicyOf[p] \in Careful => {k \in Keys : rows[k] \in Transient} \subseteq queue
          /\ proc[p].step = "swept" =>
               /\ {k \in Keys : rows[k] \in Sensitive[PolicyOf[p]]} \subseteq queue \cup proc[p].swept
               /\ \A k \in proc[p].swept \ queue : rows[k] \in Sensitive[PolicyOf[p]] \cup {None}
      BY <1>2 DEF Inv, SweepSound, Stale, TransientRows
    <3>3. proc[p].swept \subseteq Keys
      BY DEF Inv, TypeOK
    <3>4. PolicyOf[p] \in Careful => {k \in Keys : rows'[k] \in Transient} \subseteq queue'
      BY <2>2, <3>1, <3>2
    <3>5. ASSUME proc[p].step = "swept", NEW k \in Keys, rows'[k] \in Sensitive[PolicyOf[p]],
                 k \notin queue'
          PROVE  k \in proc[p].swept
      BY <2>1, <3>1, <3>2, <3>5, CacheAssumption DEF Kept
    <3>6. ASSUME proc[p].step = "swept", NEW k \in proc[p].swept \ queue'
          PROVE  rows'[k] \in Sensitive[PolicyOf[p]] \cup {None}
      BY <2>1, <3>2, <3>3, <3>6 DEF Kept
    <3>7. QED
      BY <3>4, <3>5, <3>6
  <2>5. QED
    BY <2>3, <2>4 DEF Inv, TokenNotLast
<1>3. QED
  BY <1>1, <1>2

(* One lemma for each action.                                              *)
LEMMA OpenInv == ASSUME Inv, NEW p \in Processes, Open(p) PROVE Inv'
<1>1. TypeOK'
  <2>1. 1 \in 1..Attempts
    BY CacheAssumption
  <2>2. rows' \in [Keys -> Bodies \cup {None}] /\ triggers' \in TriggerTexts \cup {None}
    BY TypedEffects DEF Inv, TypeOK, Open
  <2>3. outdated' \in BOOLEAN
    BY DEF Open
  <2>4. QED
    BY <2>1, <2>2, <2>3 DEF Inv, TypeOK, Open, At
<1>2. CASE outdated
  <2>1. triggers' \notin Tracking
    BY <1>2, CacheAssumption DEF Open
  <2>2. QED
    BY <1>1, <2>1 DEF Inv, TypeOK, Open, Closed, At, TokenNotLast, StampVouches, SweepSound
<1>3. CASE ~outdated
  <2>1. /\ UNCHANGED <<rows, queue, stamp, triggers>>
        /\ \A q \in Processes : q # p => proc'[q] = proc[q]
        /\ proc'[p].step = "repair"
    BY <1>3 DEF Open, Closed, At, Inv, TypeOK
  <2>2. QED
    BY <1>1, <2>1 DEF Inv, TokenNotLast, StampVouches, SweepSound, Stale, TransientRows
<1>4. QED
  BY <1>2, <1>3

LEMMA CloseInv == ASSUME Inv, NEW p \in Processes, Close(p) PROVE Inv'
<1>1. TypeOK'
  BY CacheAssumption DEF Inv, TypeOK, Close, Closed, At
<1>2. /\ UNCHANGED <<rows, queue, stamp, triggers>>
      /\ \A q \in Processes : q # p => proc'[q] = proc[q]
      /\ proc'[p].step = "closed"
  BY DEF Close, Closed, At, Inv, TypeOK
<1>3. QED
  BY <1>1, <1>2 DEF Inv, TokenNotLast, StampVouches, SweepSound, Stale, TransientRows

LEMMA SupersededInv == ASSUME Inv, NEW p \in Processes, Superseded(p) PROVE Inv'
<1>1. proc[p].attempt \in 1..Attempts /\ proc[p].attempt < Attempts
  BY DEF Inv, TypeOK, TokenNotLast, Superseded
<1>2. proc[p].attempt + 1 \in 1..Attempts
  BY <1>1, CacheAssumption
<1>3. TypeOK'
  BY <1>2 DEF Inv, TypeOK, Superseded, At
<1>4. /\ UNCHANGED <<rows, queue, stamp, triggers>>
      /\ \A q \in Processes : q # p => proc'[q] = proc[q]
      /\ proc'[p].step = "repair"
  BY DEF Superseded, Inv, TypeOK, At
<1>5. QED
  BY <1>3, <1>4 DEF Inv, TokenNotLast, StampVouches, SweepSound, Stale, TransientRows

(* The sweep reads the rows as they are; the transient ones were dealt     *)
(* with when the token was published.                                      *)
LEMMA SweepInv == ASSUME Inv, NEW p \in Processes, Sweep(p) PROVE Inv'
<1>1. /\ UNCHANGED <<rows, queue, stamp, triggers>>
      /\ \A q \in Processes : q # p => proc'[q] = proc[q]
      /\ proc'[p] = At("swept", proc[p].attempt, Stale(PolicyOf[p]))
  BY DEF Sweep, Inv, TypeOK
<1>2. /\ proc'[p].step = "swept" /\ proc'[p].attempt = proc[p].attempt
      /\ proc'[p].swept = Stale(PolicyOf[p])
  BY <1>1 DEF At
<1>3. TypeOK'
  BY DEF Inv, TypeOK, Sweep, Stale, At
<1>4. TokenNotLast'
  BY <1>1, <1>2 DEF Inv, TokenNotLast, Sweep
<1>5. StampVouches'
  BY <1>1 DEF Inv, StampVouches, Stale, TransientRows
<1>6. SweepSound'
  <2> SUFFICES ASSUME NEW q \in Processes, proc'[q].step \in {"token", "swept"},
                      stamp = <<q, proc'[q].attempt>>,
                      triggers = TriggersOf[q], triggers \in Tracking
               PROVE  /\ PolicyOf[q] \in Careful => TransientRows \subseteq queue
                      /\ proc'[q].step = "swept" =>
                           /\ Stale(PolicyOf[q]) \subseteq queue \cup proc'[q].swept
                           /\ \A k \in proc'[q].swept \ queue :
                                rows[k] \in Sensitive[PolicyOf[q]] \cup {None}
    BY <1>1 DEF SweepSound, Stale, TransientRows
  <2>1. CASE q = p
    BY <1>2, <2>1 DEF Inv, SweepSound, Stale, Sweep
  <2>2. CASE q # p
    BY <1>1, <2>2 DEF Inv, SweepSound
  <2>3. QED
    BY <2>1, <2>2
<1>7. QED
  BY <1>3, <1>4, <1>5, <1>6 DEF Inv

(* What the three ways to end a repair have in common: if the triggers     *)
(* track, everything the policy rejects is among the rows deleted.         *)
LEMMA RepairedInv ==
  ASSUME Inv, NEW p \in Processes, NEW D, rows' = Without(D), queue' = {},
         stamp' = PolicyOf[p], triggers' = TriggersOf[p], BecomesOpen(p), UNCHANGED outdated,
         TriggersOf[p] \in Tracking =>
           Stale(PolicyOf[p]) \subseteq D /\ (PolicyOf[p] \in Careful => TransientRows \subseteq D)
  PROVE  Inv'
<1>1. PolicyOf[p] \in Policies /\ TriggersOf[p] \in TriggerTexts
  BY CacheAssumption
<1>2. TypeOK'
  <2>1. rows' \in [Keys -> Bodies \cup {None}]
    BY TypedEffects DEF Inv
  <2>2. QED
    BY <1>1, <2>1 DEF Inv, TypeOK, BecomesOpen, At
<1>3. TokenNotLast'
  BY DEF Inv, TypeOK, TokenNotLast, BecomesOpen, At
<1>4. StampVouches'
  <2> SUFFICES ASSUME TriggersOf[p] \in Tracking, NEW k \in Keys
               PROVE  /\ rows'[k] \notin Sensitive[PolicyOf[p]]
                      /\ PolicyOf[p] \in Careful => rows'[k] \notin Transient
    BY DEF StampVouches, Stale, TransientRows
  <2>1. None \notin Sensitive[PolicyOf[p]] /\ None \notin Transient
    BY <1>1, CacheAssumption
  <2>2. rows'[k] = IF k \in D THEN None ELSE rows[k]
    BY DEF Without
  <2>3. QED
    BY <2>1, <2>2 DEF Stale, TransientRows
<1>5. SweepSound'
  BY <1>1, <1>2, NoTokenUnderPolicy
<1>6. QED
  BY <1>2, <1>3, <1>4, <1>5 DEF Inv

LEMMA WarmInv ==
  ASSUME Inv, NEW p \in Processes, NEW expired \in SUBSET Keys, WarmRepair(p, expired)
  PROVE  Inv'
<1> DEFINE D == DeadRows(p, expired, queue) \cup (Stale(PolicyOf[p]) \cap queue)
<1>1. /\ rows' = Without(D) /\ queue' = {} /\ BecomesOpen(p) /\ UNCHANGED outdated
      /\ stamp' = PolicyOf[p] /\ triggers' = TriggersOf[p]
      /\ stamp = PolicyOf[p] /\ triggers = TriggersOf[p]
  BY DEF WarmRepair, StampCurrent, TriggersCurrent
<1>2. ASSUME TriggersOf[p] \in Tracking
      PROVE  Stale(PolicyOf[p]) \subseteq D /\ (PolicyOf[p] \in Careful => TransientRows \subseteq D)
  <2>1. PolicyOf[p] \in Policies
    BY CacheAssumption
  <2>2. /\ Stale(PolicyOf[p]) \subseteq queue
        /\ PolicyOf[p] \in Careful => TransientRows \subseteq queue
    BY <1>1, <1>2, <2>1 DEF Inv, StampVouches
  <2>3. QED
    BY <2>2 DEF DeadRows
<1> HIDE DEF D
<1>3. QED
  BY <1>1, <1>2, RepairedInv

LEMMA LockedInv ==
  ASSUME Inv, NEW p \in Processes, NEW expired \in SUBSET Keys, LockedRepair(p, expired)
  PROVE  Inv'
<1> DEFINE D == DeadRows(p, expired, Keys) \cup Stale(PolicyOf[p])
<1>1. /\ rows' = Without(D) /\ queue' = {} /\ BecomesOpen(p) /\ UNCHANGED outdated
      /\ stamp' = PolicyOf[p] /\ triggers' = TriggersOf[p]
  BY DEF LockedRepair
<1>2. Stale(PolicyOf[p]) \subseteq D /\ (PolicyOf[p] \in Careful => TransientRows \subseteq D)
  BY DEF DeadRows, TransientRows
<1> HIDE DEF D
<1>3. QED
  BY <1>1, <1>2, RepairedInv

(* The queue covers what the sweep missed, the sweep the rest.             *)
LEMMA FinishInv == ASSUME Inv, NEW p \in Processes, FinishRepair(p) PROVE Inv'
<1> DEFINE dead == DeadRows(p, {}, queue)
           left == queue \ dead
           D == dead \cup (Stale(PolicyOf[p]) \cap left) \cup (proc[p].swept \ left)
<1>1. /\ rows' = Without(D) /\ queue' = {} /\ BecomesOpen(p) /\ UNCHANGED outdated
      /\ stamp' = PolicyOf[p] /\ triggers' = TriggersOf[p]
  BY DEF FinishRepair, TokenStands, TriggersCurrent
<1>2. ASSUME TriggersOf[p] \in Tracking
      PROVE  Stale(PolicyOf[p]) \subseteq D /\ (PolicyOf[p] \in Careful => TransientRows \subseteq D)
  <2>1. /\ PolicyOf[p] \in Careful => TransientRows \subseteq queue
        /\ Stale(PolicyOf[p]) \subseteq queue \cup proc[p].swept
    BY <1>2 DEF Inv, SweepSound, FinishRepair, TokenStands, TriggersCurrent
  <2>2. PolicyOf[p] \in Careful => TransientRows \subseteq dead
    BY <2>1 DEF DeadRows
  <2>3. QED
    BY <2>1, <2>2
<1> HIDE DEF D
<1>3. QED
  BY <1>1, <1>2, RepairedInv

LEMMA PublishInv ==
  ASSUME Inv, NEW p \in Processes, NEW expired \in SUBSET Keys, PublishToken(p, expired)
  PROVE  Inv'
<1> DEFINE D == DeadRows(p, expired, Keys)
<1>1. /\ rows' = Without(D) /\ queue' \in DequeuedBy(triggers, D)
      /\ stamp' = <<p, proc[p].attempt>> /\ UNCHANGED <<triggers, outdated>>
      /\ proc' = [proc EXCEPT ![p] = At("token", proc[p].attempt, {})]
      /\ proc[p].attempt < Attempts /\ proc[p].attempt \in 1..Attempts
  BY DEF Inv, TypeOK, PublishToken, Remove
<1>2. /\ stamp' \in Tokens /\ stamp' \notin Policies
      /\ \A q \in Processes, n \in 1..Attempts : stamp' = <<q, n>> => q = p
  BY <1>1, TokenFacts
<1>3. TypeOK'
  <2>1. rows' \in [Keys -> Bodies \cup {None}] /\ queue' \subseteq Keys
    BY <1>1, TypedEffects DEF Inv
  <2>2. QED
    BY <1>1, <1>2, <2>1 DEF Inv, TypeOK, At
<1>4. /\ \A q \in Processes : q # p => proc'[q] = proc[q]
      /\ proc'[p].step = "token" /\ proc'[p].attempt = proc[p].attempt
  BY <1>1 DEF Inv, TypeOK, At
<1>5. TokenNotLast'
  BY <1>1, <1>4 DEF Inv, TokenNotLast
<1>6. StampVouches'
  BY <1>2 DEF StampVouches
<1>7. PolicyOf[p] \in Careful => \A k \in Keys : rows'[k] \notin Transient
  <2>1. None \notin Transient
    BY CacheAssumption
  <2>2. \A k \in Keys : rows'[k] = IF k \in D THEN None ELSE rows[k]
    BY <1>1 DEF Without
  <2>3. QED
    BY <2>1, <2>2 DEF DeadRows, TransientRows
<1>8. SweepSound'
  <2> SUFFICES ASSUME NEW q \in Processes, proc'[q].step \in {"token", "swept"},
                      stamp' = <<q, proc'[q].attempt>>
               PROVE  /\ PolicyOf[q] \in Careful => TransientRows' \subseteq queue'
                      /\ proc'[q].step # "swept"
    BY DEF SweepSound
  <2>1. proc'[q].attempt \in 1..Attempts
    BY <1>3 DEF TypeOK
  <2>2. q = p
    BY <1>2, <2>1
  <2>3. QED
    BY <1>4, <1>7, <2>2 DEF TransientRows
<1>9. QED
  BY <1>3, <1>5, <1>6, <1>8 DEF Inv

(* A statement that deletes rows: get(), invalidate(), clear(),            *)
(* purge_expired().                                                        *)
LEMMA RemoveInv ==
  ASSUME Inv, NEW D, Remove(D), UNCHANGED <<stamp, triggers, outdated, proc>>
  PROVE  Inv'
<1>1. TypeOK'
  BY TypedEffects DEF Inv, TypeOK, Remove
<1>2. triggers \in Tracking => Kept
  BY TrackedEffects DEF Remove, Without, Kept
<1>3. QED
  BY <1>1, <1>2, KeptInv

LEMMA LegacyInv ==
  ASSUME Inv, NEW k \in Keys, NEW body \in Bodies, LegacyWrite(k, body)
  PROVE  Inv'
<1>1. TypeOK'
  <2>1. queue' \subseteq Keys
    BY TypedEffects DEF Inv, LegacyWrite
  <2>2. QED
    BY <2>1 DEF Inv, TypeOK, LegacyWrite
<1>2. triggers \in Tracking => Kept
  BY TrackedEffects DEF LegacyWrite, Kept, Inv, TypeOK
<1>3. QED
  BY <1>1, <1>2, KeptInv DEF LegacyWrite

(* A vetted key leaves the queue, which a policy stamp allows because the  *)
(* gate has just passed the body; any other write stays queued.            *)
LEMMA SetInv ==
  ASSUME Inv, NEW p \in Processes, NEW k \in Keys, NEW body \in Bodies, Set(p, k, body)
  PROVE  Inv'
<1> DEFINE P == PolicyOf[p]
           vetted == stamp = P /\ (P \in Careful => body \notin Transient)
           stored == [rows EXCEPT ![k] = body]
<1>1. PICK queued \in QueuedBy(triggers, k), trimmed \in SUBSET {j \in Keys : stored[j] # None} :
        /\ rows' = [j \in Keys |-> IF j \in trimmed THEN None ELSE stored[j]]
        /\ queue' = (IF vetted THEN queued \ {k} ELSE queued)
                      \ IF triggers \in Tracking THEN trimmed ELSE {}
  BY Zenon DEF Set
<1>2. /\ UNCHANGED <<stamp, triggers, outdated, proc>> /\ body \notin Sensitive[P]
      /\ P \in Policies
  BY CacheAssumption DEF Set
<1>3. \A j \in Keys : stored[j] = IF j = k THEN body ELSE rows[j]
  BY DEF Inv, TypeOK
<1>4. TypeOK'
  <2>1. queued \subseteq Keys
    BY TypedEffects DEF Inv
  <2>2. rows' \in [Keys -> Bodies \cup {None}]
    BY <1>1, <1>3 DEF Inv, TypeOK
  <2>3. queue' \subseteq Keys
    BY <1>1, <2>1
  <2>4. QED
    BY <1>2, <2>2, <2>3 DEF Inv, TypeOK
<1>5. ASSUME triggers \in Tracking
      PROVE  /\ queued = queue \cup {k}
             /\ \A j \in Keys : \/ rows'[j] = None
                                \/ j # k /\ rows'[j] = rows[j] /\ (j \in queue => j \in queue')
                                \/ j = k /\ rows'[j] = body /\ (~vetted => j \in queue')
  <2>1. queued = queue \cup {k}
    BY <1>1, <1>5, TrackedEffects
  <2>2. queue' = (IF vetted THEN queued \ {k} ELSE queued) \ trimmed
    BY <1>1, <1>5
  <2>3. \A j \in Keys : rows'[j] = IF j \in trimmed THEN None ELSE IF j = k THEN body ELSE rows[j]
    BY <1>1, <1>3
  <2> HIDE DEF vetted, stored
  <2>4. QED
    BY <2>1, <2>2, <2>3
<1>6. CASE ~vetted
  <2>1. triggers \in Tracking => Kept
    BY <1>5, <1>6 DEF Kept
  <2>2. QED
    BY <1>2, <1>4, <2>1, KeptInv
<1>7. CASE vetted
  <2>1. StampVouches'
    <3> SUFFICES ASSUME triggers \in Tracking, NEW j \in Keys
                 PROVE  /\ rows'[j] \in Sensitive[P] => j \in queue'
                        /\ P \in Careful /\ rows'[j] \in Transient => j \in queue'
      BY <1>2, <1>7 DEF StampVouches, Stale, TransientRows
    <3>1. /\ rows[j] \in Sensitive[P] => j \in queue
          /\ P \in Careful /\ rows[j] \in Transient => j \in queue
      BY <1>2, <1>7 DEF Inv, StampVouches, Stale, TransientRows
    <3>2. None \notin Sensitive[P] /\ None \notin Transient
      BY <1>2, CacheAssumption
    <3>3. body \notin Sensitive[P] /\ (P \in Careful => body \notin Transient)
      BY <1>2, <1>7
    <3> HIDE DEF P, vetted, stored
    <3>4. QED
      BY <1>5, <3>1, <3>2, <3>3
  <2>2. SweepSound'
    BY <1>2, <1>4, <1>7, NoTokenUnderPolicy
  <2>3. QED
    BY <1>2, <1>4, <2>1, <2>2 DEF Inv, TokenNotLast
<1>8. QED
  BY <1>6, <1>7

LEMMA NextInv == Inv /\ [Next]_vars => Inv'
<1> SUFFICES ASSUME Inv, [Next]_vars PROVE Inv'
  OBVIOUS
<1>1. ASSUME NEW p \in Processes, RepairStep(p) PROVE Inv'
  BY <1>1, WarmInv, LockedInv, PublishInv, SweepInv, SupersededInv, FinishInv DEF RepairStep
<1>2. ASSUME NEW p \in Processes, StoreStep(p) PROVE Inv'
  <2>1. ASSUME NEW k \in Keys, GetEvicts(p, k) PROVE Inv'
    BY <2>1, RemoveInv DEF GetEvicts
  <2>2. ASSUME NEW D \in SUBSET Keys, Delete(p, D) PROVE Inv'
    BY <2>2, RemoveInv DEF Delete
  <2>3. QED
    BY <1>2, <2>1, <2>2, SetInv DEF StoreStep
<1>3. CASE UNCHANGED vars
  BY <1>3 DEF vars, Inv, TypeOK, TokenNotLast, StampVouches, SweepSound, Stale, TransientRows
<1>4. QED
  BY <1>1, <1>2, <1>3, OpenInv, CloseInv, LegacyInv DEF Next

(* Every reachable state of the cache file and of its initializers is well *)
(* typed; in particular an initializer gives up within its attempts        *)
(* (_repair_privacy_policy's range(_PRIVACY_REPAIR_ATTEMPTS)).             *)
THEOREM CacheTyped == Spec => []TypeOK
<1>1. Inv => TypeOK
  BY DEF Inv
<1>2. QED
  BY <1>1, InitInv, NextInv, PTL DEF Spec

(* A policy's stamp vouches for every row outside the queue, whatever mix  *)
(* of builds initializes and writes: what lets _repair_privacy_policy's    *)
(* fast path look at the queue only.                                       *)
THEOREM StampIsHonest == Spec => []StampVouches
<1>1. Inv => StampVouches
  BY DEF Inv
<1>2. QED
  BY <1>1, InitInv, NextInv, PTL DEF Spec

(* The repair ends with the policy published and an empty queue.           *)
LEMMA OpensClean ==
  ASSUME Inv, Next, NEW p \in Processes, proc[p].step # "open", proc'[p].step = "open"
  PROVE  stamp' = PolicyOf[p] /\ queue' = {} /\ triggers' = TriggersOf[p]
<1>1. ASSUME NEW q \in Processes, Open(q) \/ Close(q) \/ Superseded(q) \/ Sweep(q)
      PROVE  FALSE
  BY <1>1 DEF Open, Close, Closed, Superseded, Sweep, At, Inv, TypeOK
<1>2. ASSUME NEW q \in Processes, NEW expired \in SUBSET Keys, PublishToken(q, expired)
      PROVE  FALSE
  BY <1>2 DEF PublishToken, At, Inv, TypeOK
<1>3. ASSUME NEW q \in Processes, StoreStep(q) PROVE FALSE
  BY <1>3 DEF StoreStep, Set, GetEvicts, Delete
<1>4. ASSUME NEW k \in Keys, NEW body \in Bodies, LegacyWrite(k, body) PROVE FALSE
  BY <1>4 DEF LegacyWrite
<1>5. PICK q \in Processes : \/ \E expired \in SUBSET Keys : WarmRepair(q, expired) \/ LockedRepair(q, expired)
                             \/ FinishRepair(q)
  BY <1>1, <1>2, <1>3, <1>4 DEF Next, RepairStep
<1>6. q = p
  BY <1>5 DEF WarmRepair, LockedRepair, FinishRepair, BecomesOpen, Inv, TypeOK
<1>7. QED
  BY <1>5, <1>6 DEF WarmRepair, LockedRepair, FinishRepair, TokenStands, StampCurrent, TriggersCurrent

(* When initialize() returns, nothing its policy rejects and no dead       *)
(* retrieval key is at rest, however many initializers and writers raced   *)
(* its unlocked sweep.                                                     *)
THEOREM InitializeIsClean == Spec => InitializeCleans
<1> DEFINE Clean == \A p \in Processes :
              /\ proc[p].step # "open" /\ proc'[p].step = "open"
              /\ TriggersOf[p] \in Tracking /\ PolicyOf[p] \in Careful
              => /\ stamp' = PolicyOf[p]
                 /\ Stale(PolicyOf[p])' = {} /\ TransientRows' = {}
<1>1. Inv /\ Inv' /\ [Next]_vars => [Clean]_vars
  <2> SUFFICES ASSUME Inv, Inv', Next, NEW p \in Processes,
                      proc[p].step # "open", proc'[p].step = "open",
                      TriggersOf[p] \in Tracking, PolicyOf[p] \in Careful
               PROVE  /\ stamp' = PolicyOf[p]
                      /\ Stale(PolicyOf[p])' = {} /\ TransientRows' = {}
    OBVIOUS
  <2>1. stamp' = PolicyOf[p] /\ queue' = {} /\ triggers' = TriggersOf[p]
    BY OpensClean
  <2>2. PolicyOf[p] \in Policies
    BY CacheAssumption
  <2>3. QED
    BY <2>1, <2>2 DEF Inv, StampVouches, Stale, TransientRows
<1>2. QED
  BY <1>1, InitInv, NextInv, PTL DEF Spec, InitializeCleans

(* The verdicts of an unlocked sweep never delete a body the sweep did not *)
(* judge: _purge_queued_rows re-decides what was rewritten meanwhile.      *)
THEOREM PurgesAreExact == Spec => PurgeIsExact
<1> DEFINE Exact == \A p \in Processes : proc[p].step = "swept" /\ proc'[p].step = "open"
                            /\ TriggersOf[p] \in Tracking =>
              \A k \in Keys : rows[k] # None /\ rows'[k] = None =>
                rows[k] \in Sensitive[PolicyOf[p]] \cup Transient
<1>1. Inv /\ [Next]_vars => [Exact]_vars
  <2> SUFFICES ASSUME Inv, Next, NEW p \in Processes, proc[p].step = "swept", proc'[p].step = "open",
                      TriggersOf[p] \in Tracking, NEW k \in Keys, rows[k] # None, rows'[k] = None
               PROVE  rows[k] \in Sensitive[PolicyOf[p]] \cup Transient
    OBVIOUS
  <2>1. FinishRepair(p)
    <3>1. ASSUME NEW q \in Processes, Open(q) \/ Close(q) \/ Superseded(q) \/ Sweep(q)
          PROVE  FALSE
      BY <3>1 DEF Open, Close, Closed, Superseded, Sweep, At, Inv, TypeOK
    <3>2. ASSUME NEW q \in Processes, NEW expired \in SUBSET Keys,
                 WarmRepair(q, expired) \/ LockedRepair(q, expired) \/ PublishToken(q, expired)
          PROVE  FALSE
      BY <3>2 DEF WarmRepair, LockedRepair, PublishToken, BecomesOpen, At, Inv, TypeOK
    <3>3. ASSUME NEW q \in Processes, StoreStep(q) PROVE FALSE
      BY <3>3 DEF StoreStep, Set, GetEvicts, Delete
    <3>4. ASSUME NEW j \in Keys, NEW body \in Bodies, LegacyWrite(j, body) PROVE FALSE
      BY <3>4 DEF LegacyWrite
    <3>5. ASSUME NEW q \in Processes, FinishRepair(q) PROVE q = p
      BY <3>5 DEF FinishRepair, BecomesOpen, Inv, TypeOK
    <3>6. QED
      BY <3>1, <3>2, <3>3, <3>4, <3>5 DEF Next, RepairStep
  <2>2. k \in DeadRows(p, {}, queue) \/ k \in Stale(PolicyOf[p]) \/ k \in proc[p].swept \ queue
    BY <2>1 DEF FinishRepair, Without
  <2>3. CASE k \in DeadRows(p, {}, queue)
    BY <2>3 DEF DeadRows, TransientRows
  <2>4. CASE k \in proc[p].swept \ queue
    BY <2>1, <2>4 DEF Inv, SweepSound, FinishRepair, TokenStands, TriggersCurrent
  <2>5. QED
    BY <2>2, <2>3, <2>4 DEF Stale
<1>2. QED
  BY <1>1, InitInv, NextInv, PTL DEF Spec, PurgeIsExact

(* Both, as the run checks them.                                           *)
THEOREM CacheStaysVouched == Spec => []CacheIsVouched
BY CacheTyped, StampIsHonest, PTL DEF CacheIsVouched

(* Both action properties, as the run checks them.                         *)
THEOREM RepairsAreExact == Spec => RepairIsExact
BY InitializeIsClean, PurgesAreExact DEF RepairIsExact
-----------------------------------------------------------------------------
(* What becomes of a response, for any number of calls, any settings and   *)
(* replies, and any cap on the background stages.                          *)

Refusals == {"pageRefused", "tocRefused", "ladderRefused"}
Failures == {"pageFailed", "tocFailed", "ladderFailed"}
Forms == {"full", "cut", "page", "toc"}
Ends == {"off", "done", "lost", "under way"}
PipelineSteps == {"done", "fetching", "compressing", "surfacing", "indexing", "extracting"}

Deliverables == [form : Forms \cup {"none", "undeliverable"}, met : SUBSET (Refusals \cup Failures)]

(* What compression hands on.                                              *)
Made(b) == /\ b \in Deliverables /\ b.form # "none"
           /\ b.form = "undeliverable" => b = Undeliverable

PipelineRuns ==
  [step : PipelineSteps, set : PipelineSettings, secret : BOOLEAN, mixed : BOOLEAN, body : Deliverables,
   index : Ends, extract : Ends, hit : BOOLEAN, missed : BOOLEAN, unstorable : BOOLEAN,
   stored : BOOLEAN, rows : Nat, left : BOOLEAN]

(* A call that runs has been counted nowhere yet, a hit goes straight to   *)
(* surfacing, a fetch for the cache follows a miss, and what leaves        *)
(* compression can be delivered.                                           *)
Uncounted(k) ==
  /\ k.rows = 0 /\ ~k.left /\ ~k.unstorable /\ ~k.stored
  /\ k.set.caching = "on" /\ ~k.hit => k.missed
Delivered(k) == k.body.form \in Forms

RunFits(k) ==
  /\ k.step # "done" => Uncounted(k)
  /\ k.step = "compressing" => Made(k.body)
  /\ k.hit => k.step \in {"done", "surfacing"}
  /\ k.step \in {"surfacing", "indexing", "extracting"} /\ ~k.hit => Delivered(k)

RunCounted(k) ==
  /\ k.step = "done" => k.rows = IF k.left \/ k.hit THEN 0 ELSE 1
  /\ k.unstorable => k.missed /\ ~k.stored
  /\ k.stored => k.missed

RunsInv == \A c \in PipelineCalls : RunFits(run[c]) /\ RunCounted(run[c])

JobsInv == /\ jobs \in [{"index", "extract"} -> Nat] /\ closing \in BOOLEAN
           /\ jobs["index"] + jobs["extract"] <= MaxJobs

PipelineInv ==
  run \in [PipelineCalls -> PipelineRuns] /\ RunsInv /\ JobsInv /\ RowIsWhole

-----------------------------------------------------------------------------
(* Whatever compression, the pending store and the ladder do to a reply,   *)
(* the outcome is a body that can be delivered or the refusal to deliver.  *)
LEMMA PageOutcomes ==
  \A s, q : PageEnds(s, q) \subseteq {"budget", "refused", "page", "failed"}
BY DEF PageEnds

LEMMA TocOutcomes ==
  \A s, q : TocEnds(s, q) \subseteq {"budget", "cut", "refused", "toc", "failed"}
BY DEF TocEnds

LEMMA BodiesMade ==
  /\ \A f \in Forms, m \in SUBSET (Refusals \cup Failures) : Made(Body(f, m))
  /\ Made(Undeliverable)
BY DEF Made, Body, Deliverables, Forms, Undeliverable

LEMMA ProgressiveMade == ASSUME NEW s, NEW r PROVE \A b \in ProgressiveBodies(s, r) : Made(b)
<1>1. Made(Body("full", {})) /\ Made(Body("page", {})) /\ Made(Undeliverable)
      /\ Made(Body("full", {"pageRefused"})) /\ Made(Body("full", {"pageFailed"}))
  BY BodiesMade DEF Forms, Refusals, Failures
<1>2. CASE ~r.big BY <1>1, <1>2 DEF ProgressiveBodies
<1>3. CASE r.big
  <2> SUFFICES ASSUME NEW b \in ProgressiveBodies(s, r) PROVE Made(b)
    OBVIOUS
  <2>1. PICK e \in PageEnds(s, r.secret) :
          b = CASE e = "page" -> Body("page", {})
                [] e = "budget" -> Undeliverable
                [] e = "refused" -> Body("full", {"pageRefused"})
                [] e = "failed" -> Body("full", {"pageFailed"})
    BY <1>3 DEF ProgressiveBodies
  <2>2. e \in {"budget", "refused", "page", "failed"} BY PageOutcomes
  <2>3. CASE e = "page" BY <2>1, <2>3, <1>1
  <2>4. CASE e = "budget" BY <2>1, <2>4, <1>1
  <2>5. CASE e = "refused" BY <2>1, <2>5, <1>1
  <2>6. CASE e = "failed" BY <2>1, <2>6, <1>1
  <2> QED BY <2>2, <2>3, <2>4, <2>5, <2>6
<1> QED BY <1>2, <1>3

LEMMA TocMade == ASSUME NEW s, NEW r PROVE \A b \in TocBodies(s, r) : Made(b)
<1>1. Made(Body("page", {})) /\ Made(Body("toc", {})) /\ Made(Body("cut", {})) /\ Made(Undeliverable)
      /\ Made(Body("cut", {"tocRefused"})) /\ Made(Body("cut", {"tocFailed"}))
  BY BodiesMade DEF Forms, Refusals, Failures
<1> SUFFICES ASSUME NEW b \in TocBodies(s, r) PROVE Made(b)
  OBVIOUS
<1>2. PICK e \in TocEnds(s, r.secret) \cup PageEnds(s, r.secret) :
        b = CASE e \in {"page", "toc", "cut"} -> Body(e, {})
              [] e = "refused" -> Body("cut", {"tocRefused"})
              [] e = "failed" -> Body("cut", {"tocFailed"})
              [] e = "budget" -> Undeliverable
  BY Zenon DEF TocBodies
<1>3. e \in {"budget", "refused", "page", "failed", "cut", "toc"} BY PageOutcomes, TocOutcomes
<1>4. CASE e \in {"page", "toc", "cut"} BY <1>2, <1>4, <1>1
<1>5. CASE e = "refused" BY <1>2, <1>5, <1>1
<1>6. CASE e = "failed" BY <1>2, <1>6, <1>1
<1>7. CASE e = "budget" BY <1>2, <1>7, <1>1
<1> QED BY <1>3, <1>4, <1>5, <1>6, <1>7

LEMMA LadderMade == ASSUME NEW s, NEW r PROVE \A b \in LadderBodies(s, r) : Made(b)
<1> SUFFICES ASSUME NEW b \in LadderBodies(s, r) PROVE Made(b)
  OBVIOUS
<1> DEFINE spent(e) == IF e = "refused" THEN {"ladderRefused"}
                       ELSE IF e = "failed" THEN {"ladderFailed"} ELSE {}
<1>1. \A e : spent(e) \subseteq Refusals \cup Failures BY DEF Refusals, Failures
<1>2. CASE b = Body("page", {})
  BY <1>2, BodiesMade DEF Forms, Refusals, Failures
<1>3. CASE \E h, e : b = Body(IF h = "toc" THEN "toc" ELSE "cut", spent(e) \cup spent(h))
  <2>1. PICK h, e : b = Body(IF h = "toc" THEN "toc" ELSE "cut", spent(e) \cup spent(h)) BY <1>3
  <2>2. spent(e) \cup spent(h) \in SUBSET (Refusals \cup Failures) BY <1>1
  <2>3. (IF h = "toc" THEN "toc" ELSE "cut") \in Forms BY DEF Forms
  <2> HIDE DEF spent
  <2> QED BY <2>1, <2>2, <2>3, BodiesMade
<1> DEFINE pages == IF r.big THEN PageEnds(s, r.secret) ELSE {"small"}
           hybrids == IF s.structured \/ s.strategy = "hybrid" THEN {"cut"} ELSE TocEnds(s, r.secret)
           spills == {Body(IF h = "toc" THEN "toc" ELSE "cut", spent(e) \cup spent(h)) :
                        e \in pages \ {"page"}, h \in hybrids}
<1>4. LadderBodies(s, r) = {Body("page", {}) : e \in pages \cap {"page"}} \cup spills
  BY DEF LadderBodies
<1>5. CASE b \in spills
  <2> HIDE DEF pages, hybrids, spent
  <2>1. \E e \in pages \ {"page"}, h \in hybrids :
          b = Body(IF h = "toc" THEN "toc" ELSE "cut", spent(e) \cup spent(h))
    BY <1>5
  <2> QED BY <2>1, <1>3
<1>6. CASE b \in {Body("page", {}) : e \in pages \cap {"page"}}
  <2> HIDE DEF pages
  <2> QED BY <1>6, <1>2
<1> HIDE DEF spills, pages, hybrids, spent
<1> QED BY <1>4, <1>5, <1>6

LEMMA DeliveriesMade == ASSUME NEW s, NEW r PROVE \A b \in Deliveries(s, r) : Made(b)
<1>1. CASE s.strategy = "progressive" BY <1>1, ProgressiveMade DEF Deliveries
<1>2. CASE s.strategy # "progressive"
  <2> DEFINE first == IF s.strategy = "plain" THEN {Body("cut", {}), Body("full", {})}
                      ELSE TocBodies(s, r)
  <2>1. \A b \in first : Made(b) BY TocMade, BodiesMade DEF Forms, Refusals, Failures
  <2>2. Deliveries(s, r) = first \cup UNION {LadderBodies(s, r) : b \in {f \in first : FallsShort(s, f)}}
    BY <1>2 DEF Deliveries
  <2> DEFINE ladders == {LadderBodies(s, r) : b \in {f \in first : FallsShort(s, f)}}
  <2>3. \A l \in ladders : l = LadderBodies(s, r) OBVIOUS
  <2>4. Deliveries(s, r) = first \cup UNION ladders BY <2>2
  <2> HIDE DEF first, ladders
  <2> QED BY <2>1, <2>3, <2>4, LadderMade
<1> QED BY <1>1, <1>2

(* A call that ended by itself, is counted, and leaves no trace of its     *)
(* running.                                                                *)
LEMMA EndFits ==
  ASSUME NEW c \in PipelineCalls, PipelineInv, NEW k \in PipelineRuns, End(c, k),
         RunCounted([k EXCEPT !.step = "done"])
  PROVE  run' \in [PipelineCalls -> PipelineRuns] /\ RunsInv'
<1> DEFINE s0 == CHOOSE s \in PipelineSettings : TRUE
<1> DEFINE e == EndedCall(k)
<1>1. s0 \in PipelineSettings BY PipelineAssumption
<1>2. /\ e.step = "done" /\ e.set = s0 /\ e.hit = k.hit /\ e.missed = k.missed
      /\ e.unstorable = k.unstorable /\ e.stored = k.stored /\ e.rows = k.rows /\ e.left = k.left
      /\ e \in PipelineRuns
  <2> HIDE DEF s0
  <2>1. Body("none", {}) \in Deliverables BY DEF Body, Deliverables
  <2>2. Fresh(s0) \in PipelineRuns BY <1>1, <2>1 DEF Fresh, PipelineRuns, PipelineSteps, Ends
  <2>3. e = [Fresh(s0) EXCEPT !.hit = k.hit, !.missed = k.missed, !.unstorable = k.unstorable,
                              !.stored = k.stored, !.rows = k.rows, !.left = k.left]
    BY DEF EndedCall, s0
  <2>4. Fresh(s0).step = "done" /\ Fresh(s0).set = s0 BY DEF Fresh
  <2> DEFINE f == Fresh(s0)
  <2> HIDE DEF f, e
  <2>5. f \in PipelineRuns /\ f.step = "done" /\ f.set = s0 BY <2>2, <2>4 DEF f
  <2>6. e = [f EXCEPT !.hit = k.hit, !.missed = k.missed, !.unstorable = k.unstorable,
                      !.stored = k.stored, !.rows = k.rows, !.left = k.left]
    BY <2>3 DEF f
  <2>7. e \in PipelineRuns BY <2>5, <2>6 DEF PipelineRuns
  <2>8. /\ e.step = "done" /\ e.set = s0 /\ e.hit = k.hit /\ e.missed = k.missed
        /\ e.unstorable = k.unstorable /\ e.stored = k.stored /\ e.rows = k.rows /\ e.left = k.left
    BY <2>5, <2>6 DEF PipelineRuns
  <2> QED BY <2>7, <2>8
<1> HIDE DEF e
<1>3. run' = [run EXCEPT ![c] = e] BY DEF End, e
<1>4. RunFits(e) BY <1>2 DEF RunFits
<1>5. RunCounted(e) BY <1>2 DEF RunCounted, PipelineRuns
<1> QED BY <1>2, <1>3, <1>4, <1>5 DEF PipelineInv, RunsInv

LEMMA MoveFits ==
  ASSUME NEW c \in PipelineCalls, PipelineInv, NEW k \in PipelineRuns, run' = [run EXCEPT ![c] = k],
         RunFits(k), RunCounted(k)
  PROVE  run' \in [PipelineCalls -> PipelineRuns] /\ RunsInv'
BY DEF PipelineInv, RunsInv

(* What a call that runs has computed.                                     *)
LEMMA RunFacts ==
  ASSUME PipelineInv, NEW c \in PipelineCalls
  PROVE  run[c] \in PipelineRuns /\ RunFits(run[c]) /\ RunCounted(run[c])
BY DEF PipelineInv, RunsInv

LEMMA CountedOnce ==
  ASSUME NEW k \in PipelineRuns, Uncounted(k), ~k.hit
  PROVE  /\ Counted(k) \in PipelineRuns /\ RunCounted([Counted(k) EXCEPT !.step = "done"])
         /\ [k EXCEPT !.rows = @ + 1] \in PipelineRuns
         /\ RunCounted([[k EXCEPT !.rows = @ + 1] EXCEPT !.step = "done"])
         /\ k.set.caching = "on" =>
              /\ [k EXCEPT !.rows = @ + 1, !.stored = TRUE] \in PipelineRuns
              /\ RunCounted([[k EXCEPT !.rows = @ + 1, !.stored = TRUE] EXCEPT !.step = "done"])
<1> DEFINE m == [k EXCEPT !.rows = @ + 1]
<1>1. /\ m.rows = 1 /\ m.left = k.left /\ m.hit = k.hit /\ m.unstorable = k.unstorable
      /\ m.missed = k.missed /\ m.stored = k.stored /\ m.set = k.set
      /\ m \in PipelineRuns
  <2>1. k.rows + 1 = 1 BY DEF Uncounted
  <2> QED BY <2>1 DEF PipelineRuns
<1>2. Counted(k) = [m EXCEPT !.unstorable = (k.set.caching = "on")] BY DEF Counted
<1>3. [k EXCEPT !.rows = @ + 1, !.stored = TRUE] = [m EXCEPT !.stored = TRUE] OBVIOUS
<1> HIDE DEF m
<1>4. \A v \in BOOLEAN : /\ [m EXCEPT !.unstorable = v] \in PipelineRuns
                         /\ [m EXCEPT !.stored = v] \in PipelineRuns
  BY <1>1 DEF PipelineRuns
<1>5. RunCounted([m EXCEPT !.step = "done"]) BY <1>1 DEF PipelineRuns, RunCounted, Uncounted
<1>6. RunCounted([Counted(k) EXCEPT !.step = "done"])
  <2> DEFINE v == (k.set.caching = "on")
             e == [[m EXCEPT !.unstorable = v] EXCEPT !.step = "done"]
  <2>1. v \in BOOLEAN /\ (v => m.missed)  BY <1>1 DEF Uncounted
  <2> HIDE DEF v
  <2>2. /\ e.rows = 1 /\ e.left = m.left /\ e.hit = m.hit /\ e.unstorable = v
        /\ e.missed = m.missed /\ e.step = "done" /\ e.stored = m.stored
    BY <1>1 DEF PipelineRuns
  <2>3. [Counted(k) EXCEPT !.step = "done"] = e BY <1>2 DEF v
  <2> HIDE DEF e
  <2> QED BY <1>1, <2>1, <2>2, <2>3 DEF RunCounted, Uncounted
<1>7. ASSUME k.set.caching = "on"
      PROVE  RunCounted([[m EXCEPT !.stored = TRUE] EXCEPT !.step = "done"])
  BY <1>1, <1>7 DEF PipelineRuns, RunCounted, Uncounted
<1>8. m = [k EXCEPT !.rows = @ + 1] BY DEF m
<1> QED
  <2>1. Counted(k) \in PipelineRuns BY <1>2, <1>4
  <2>2. [k EXCEPT !.rows = @ + 1, !.stored = TRUE] \in PipelineRuns BY <1>3, <1>4
  <2>3. m \in PipelineRuns BY <1>1
  <2> QED BY <2>1, <2>2, <2>3, <1>3, <1>5, <1>6, <1>7, <1>8

-----------------------------------------------------------------------------
(* _store_cache keeps only what may stand for the whole body.              *)
Whole(r) ==
  r # NoRow =>
    /\ r.form \in {"full", "cut"} /\ ~r.mixed /\ r.met \subseteq {"ladderFailed"}
    /\ r.index \in {"off", "done"} /\ r.extract \in {"off", "done"}

LEMMA StorableIsWhole ==
  ASSUME NEW k \in PipelineRuns, Delivered(k), Storable(k), ~RetryRequired(k), ~k.mixed
  PROVE  Whole(Row(k))
<1>1. k.body \in Deliverables /\ k.index \in Ends /\ k.extract \in Ends BY DEF PipelineRuns
<1>2. k.body.form \in {"full", "cut"} BY DEF Delivered, Storable, CarriesKey, Forms
<1>3. k.body.met \subseteq {"ladderFailed"}
  BY <1>1 DEF Storable, CredentialRefused, Degraded, Deliverables, Refusals, Failures
<1>4. k.index \in {"off", "done"} /\ k.extract \in {"off", "done"} BY <1>1 DEF RetryRequired, Ends
<1> QED BY <1>2, <1>3, <1>4 DEF Whole, Row

LEMMA RowAfterIsWhole == ASSUME NEW s, RowIsWhole PROVE Whole(RowAfter(s))
BY DEF RowAfter, RowIsWhole, Whole

LEMMA WholeRows == (row' = row \/ Whole(row')) /\ RowIsWhole => RowIsWhole'
BY DEF Whole, RowIsWhole

LEMMA StoresKeep ==
  ASSUME NEW c \in PipelineCalls, PipelineInv, NEW k \in PipelineRuns, Uncounted(k), ~k.hit,
         Delivered(k), Stores(c, k)
  PROVE  run' \in [PipelineCalls -> PipelineRuns] /\ RunsInv' /\ RowIsWhole'
<1>0. RowIsWhole BY DEF PipelineInv
<1>1. CASE End(c, Counted(k)) /\ row' = RowAfter(k.set)
  BY <1>0, <1>1, CountedOnce, EndFits, RowAfterIsWhole, WholeRows
<1>2. CASE End(c, Counted(k)) /\ UNCHANGED row
  BY <1>0, <1>2, CountedOnce, EndFits, WholeRows
<1>3. CASE End(c, [k EXCEPT !.rows = @ + 1]) /\ (row' = RowAfter(k.set) \/ UNCHANGED row)
  BY <1>0, <1>3, CountedOnce, EndFits, RowAfterIsWhole, WholeRows
<1>4. CASE /\ ~RetryRequired(k) /\ ~k.mixed /\ k.set.caching = "on" /\ Storable(k)
           /\ End(c, [k EXCEPT !.rows = @ + 1, !.stored = TRUE]) /\ row' = Row(k)
  BY <1>0, <1>4, CountedOnce, EndFits, StorableIsWhole, WholeRows
<1> QED BY <1>1, <1>2, <1>3, <1>4 DEF Stores

LEMMA Spawns ==
  ASSUME JobsInv, NEW j \in [{"index", "extract"} -> Nat], j["index"] + j["extract"] <= MaxJobs,
         NEW stage \in {"index", "extract"}
  PROVE  /\ Spawned(j, stage) \in [{"index", "extract"} -> Nat]
         /\ Spawned(j, stage)["index"] + Spawned(j, stage)["extract"] <= MaxJobs
         /\ Started(j) \in Ends
<1>0. MaxJobs \in Nat BY PipelineAssumption
<1>1. CASE Sheds(j) BY <1>1 DEF Spawned, Started, Ends
<1>2. CASE ~Sheds(j)
  <2>1. Started(j) \in Ends /\ Spawned(j, stage) = [j EXCEPT ![stage] = @ + 1]
    BY <1>2 DEF Spawned, Started, Ends
  <2>2. j["index"] + j["extract"] < MaxJobs BY <1>0, <1>2 DEF Sheds
  <2>3. CASE stage = "index" BY <1>0, <2>1, <2>2, <2>3
  <2>4. CASE stage = "extract" BY <1>0, <2>1, <2>2, <2>4
  <2> QED BY <2>3, <2>4
<1> QED BY <1>1, <1>2

Within(j) == j \in [{"index", "extract"} -> Nat] /\ j["index"] + j["extract"] <= MaxJobs

(* A call on its way past surfacing, with nothing counted yet.             *)
Passing(k) == k \in PipelineRuns /\ Uncounted(k) /\ ~k.hit /\ Delivered(k)

LEMMA StageKnown ==
  ASSUME NEW k, Passing(k), NEW e \in Ends
  PROVE  Passing([k EXCEPT !.index = e]) /\ Passing([k EXCEPT !.extract = e])
BY DEF Passing, PipelineRuns, Uncounted, Delivered

LEMMA ExtractsKeep ==
  ASSUME NEW c \in PipelineCalls, PipelineInv, NEW k, Passing(k), NEW j, Within(j), Extracts(c, k, j)
  PROVE  PipelineInv'
<1>0. RowIsWhole /\ closing' = closing /\ closing \in BOOLEAN BY DEF PipelineInv, JobsInv, Extracts
<1>1. CASE k.set.extract = "off" /\ Stores(c, k) /\ jobs' = j
  BY <1>0, <1>1, StoresKeep DEF PipelineInv, JobsInv, Within, Passing
<1>2. CASE Stores(c, [k EXCEPT !.extract = Started(j)]) /\ jobs' = Spawned(j, "extract")
  <2>1. /\ Spawned(j, "extract") \in [{"index", "extract"} -> Nat]
        /\ Spawned(j, "extract")["index"] + Spawned(j, "extract")["extract"] <= MaxJobs
        /\ Started(j) \in Ends
    BY Spawns DEF PipelineInv, Within
  <2> DEFINE m == [k EXCEPT !.extract = Started(j)]
  <2>2. Passing(m) BY <2>1, StageKnown
  <2>3. Stores(c, m) BY <1>2
  <2> HIDE DEF m
  <2>4. run' \in [PipelineCalls -> PipelineRuns] /\ RunsInv' /\ RowIsWhole'
    BY <2>2, <2>3, StoresKeep DEF Passing
  <2>5. JobsInv' BY <1>0, <1>2, <2>1 DEF JobsInv
  <2> QED BY <2>4, <2>5 DEF PipelineInv
<1>3. CASE jobs' = j /\ UNCHANGED row /\ run' = [run EXCEPT ![c] = [k EXCEPT !.step = "extracting"]]
  <2> DEFINE m == [k EXCEPT !.step = "extracting"]
  <2>1. /\ m \in PipelineRuns /\ m.step = "extracting" /\ Uncounted(m) /\ ~m.hit /\ Delivered(m)
    BY DEF Passing, PipelineRuns, PipelineSteps, Uncounted, Delivered
  <2>2. run' = [run EXCEPT ![c] = m] BY <1>3
  <2> HIDE DEF m
  <2>3. RunFits(m) /\ RunCounted(m) BY <2>1 DEF RunFits, RunCounted, Uncounted
  <2>4. run' \in [PipelineCalls -> PipelineRuns] /\ RunsInv' BY <2>1, <2>2, <2>3, MoveFits
  <2>5. RowIsWhole' /\ JobsInv' BY <1>0, <1>3 DEF RowIsWhole, JobsInv, Within
  <2> QED BY <2>4, <2>5 DEF PipelineInv
<1> QED BY <1>1, <1>2, <1>3 DEF Extracts

-----------------------------------------------------------------------------
(* A call that ends before it is counted: by itself, and then once.        *)
LEMMA EndsKeep ==
  ASSUME NEW c \in PipelineCalls, PipelineInv, run[c].step # "done", ~run[c].hit,
         UNCHANGED <<jobs, closing>>,
         EndsRecorded(c) \/ EndsUnstorable(c)
  PROVE  PipelineInv'
<1> DEFINE k == run[c]
<1>1. k \in PipelineRuns /\ Uncounted(k) BY RunFacts DEF RunFits
<1>2. RowIsWhole BY DEF PipelineInv
<1>3. row' = RowAfter(k.set) BY DEF EndsRecorded, EndsUnstorable
<1>4. End(c, [k EXCEPT !.rows = @ + 1]) \/ End(c, Counted(k)) BY DEF EndsRecorded, EndsUnstorable
<1> HIDE DEF k
<1>5. ~k.hit BY DEF k
<1>6. run' \in [PipelineCalls -> PipelineRuns] /\ RunsInv' BY <1>1, <1>4, <1>5, CountedOnce, EndFits
<1>7. RowIsWhole' BY <1>2, <1>3, RowAfterIsWhole, WholeRows
<1>8. JobsInv' BY DEF JobsInv, PipelineInv
<1> QED BY <1>6, <1>7, <1>8 DEF PipelineInv

LEMMA EnterKeeps ==
  ASSUME NEW c \in PipelineCalls, PipelineInv, NEW s \in PipelineSettings, CallEnters(c, s)
  PROVE  PipelineInv'
<1> DEFINE k == [Fresh(s) EXCEPT !.left = FALSE]
<1>1. /\ k \in PipelineRuns /\ k.rows = 0 /\ ~k.left /\ ~k.unstorable /\ ~k.stored /\ ~k.hit
      /\ k.set = s /\ ~k.missed
  <2>1. Body("none", {}) \in Deliverables BY DEF Body, Deliverables
  <2> QED BY <2>1 DEF Fresh, PipelineRuns, PipelineSteps, Ends
<1>2. UNCHANGED <<row, jobs, closing>> BY DEF CallEnters
<1>3. \/ run' = [run EXCEPT ![c] = [k EXCEPT !.step = "surfacing", !.hit = TRUE]]
      \/ run' = [run EXCEPT ![c] = [k EXCEPT !.step = "fetching", !.missed = TRUE]]
      \/ s.caching # "on" /\ run' = [run EXCEPT ![c] = [k EXCEPT !.step = "fetching"]]
  BY DEF CallEnters
<1> HIDE DEF k
<1>4. CASE run' = [run EXCEPT ![c] = [k EXCEPT !.step = "surfacing", !.hit = TRUE]]
  <2> DEFINE m == [k EXCEPT !.step = "surfacing", !.hit = TRUE]
  <2>1. m \in PipelineRuns /\ m.step = "surfacing" /\ m.hit /\ m.rows = 0 /\ ~m.left
        /\ ~m.unstorable /\ ~m.stored
    BY <1>1 DEF PipelineRuns, PipelineSteps
  <2>2. run' = [run EXCEPT ![c] = m] BY <1>4
  <2> HIDE DEF m
  <2>3. RunFits(m) /\ RunCounted(m) BY <2>1 DEF RunFits, RunCounted, Uncounted
  <2> QED BY <2>1, <2>2, <2>3, MoveFits, <1>2 DEF PipelineInv, JobsInv, RowIsWhole
<1>5. CASE run' = [run EXCEPT ![c] = [k EXCEPT !.step = "fetching", !.missed = TRUE]]
  <2> DEFINE m == [k EXCEPT !.step = "fetching", !.missed = TRUE]
  <2>1. m \in PipelineRuns /\ m.step = "fetching" /\ ~m.hit /\ m.missed /\ m.rows = 0 /\ ~m.left
        /\ ~m.unstorable /\ ~m.stored
    BY <1>1 DEF PipelineRuns, PipelineSteps
  <2>2. run' = [run EXCEPT ![c] = m] BY <1>5
  <2> HIDE DEF m
  <2>3. RunFits(m) /\ RunCounted(m) BY <2>1 DEF RunFits, RunCounted, Uncounted
  <2> QED BY <2>1, <2>2, <2>3, MoveFits, <1>2 DEF PipelineInv, JobsInv, RowIsWhole
<1>6. CASE s.caching # "on" /\ run' = [run EXCEPT ![c] = [k EXCEPT !.step = "fetching"]]
  <2> DEFINE m == [k EXCEPT !.step = "fetching"]
  <2>1. m \in PipelineRuns /\ m.step = "fetching" /\ ~m.hit /\ m.set = s /\ m.rows = 0 /\ ~m.left
        /\ ~m.unstorable /\ ~m.stored
    BY <1>1 DEF PipelineRuns, PipelineSteps
  <2>2. run' = [run EXCEPT ![c] = m] BY <1>6
  <2> HIDE DEF m
  <2>3. RunFits(m) /\ RunCounted(m) BY <1>6, <2>1 DEF RunFits, RunCounted, Uncounted
  <2> QED BY <2>1, <2>2, <2>3, MoveFits, <1>2 DEF PipelineInv, JobsInv, RowIsWhole
<1> QED BY <1>3, <1>4, <1>5, <1>6

LEMMA FetchKeeps ==
  ASSUME NEW c \in PipelineCalls, PipelineInv, NEW r \in Replies, FetchReturns(c, r)
  PROVE  PipelineInv'
<1>1. run[c].step = "fetching" /\ ~run[c].hit /\ run[c] \in PipelineRuns /\ Uncounted(run[c])
  BY RunFacts DEF RunFits, FetchReturns
<1>2. CASE EndsRecorded(c) \/ EndsUnstorable(c)
  BY <1>1, <1>2, EndsKeep DEF EndsRecorded, EndsUnstorable
<1>3. ASSUME NEW b \in Deliveries(run[c].set, r), UNCHANGED <<row, jobs, closing>>,
             run' = [run EXCEPT ![c] = [@ EXCEPT !.step = "compressing", !.secret = r.secret,
                                                 !.mixed = r.kind = "mixed", !.body = b]]
      PROVE  PipelineInv'
  <2> DEFINE k == run[c]
             q == r.secret
             v == (r.kind = "mixed")
             m == [k EXCEPT !.step = "compressing", !.secret = q, !.mixed = v, !.body = b]
  <2>1. b \in Deliverables BY <1>3, DeliveriesMade DEF Made
  <2>2. q \in BOOLEAN /\ v \in BOOLEAN BY PipelineAssumption
  <2>3. run' = [run EXCEPT ![c] = m] BY <1>3
  <2>4. k \in PipelineRuns /\ Uncounted(k) /\ ~k.hit BY <1>1
  <2> HIDE DEF k, q, v
  <2>5. m \in PipelineRuns BY <2>1, <2>2, <2>4 DEF PipelineRuns, PipelineSteps
  <2>6. /\ m.step = "compressing" /\ m.body = b /\ m.hit = k.hit /\ m.rows = k.rows /\ m.left = k.left
        /\ m.unstorable = k.unstorable /\ m.stored = k.stored /\ m.set = k.set /\ m.missed = k.missed
    BY <2>4 DEF PipelineRuns
  <2> HIDE DEF m
  <2>8. Made(b) BY <1>3, DeliveriesMade
  <2>7. RunFits(m) /\ RunCounted(m) BY <2>4, <2>6, <2>8 DEF RunFits, RunCounted, Uncounted
  <2> QED BY <1>3, <2>3, <2>5, <2>7, MoveFits DEF PipelineInv, JobsInv, RowIsWhole
<1> QED BY <1>2, <1>3 DEF FetchReturns

LEMMA HitKeeps ==
  ASSUME NEW c \in PipelineCalls, PipelineInv, HitReturns(c) PROVE PipelineInv'
<1>1. run[c].step = "surfacing" /\ run[c].hit /\ run[c] \in PipelineRuns /\ Uncounted(run[c])
  BY RunFacts DEF RunFits, HitReturns
<1>2. RunCounted([run[c] EXCEPT !.step = "done"]) BY <1>1 DEF RunCounted, PipelineRuns, Uncounted
<1> QED BY <1>1, <1>2, EndFits DEF HitReturns, PipelineInv, JobsInv, RowIsWhole

LEMMA CancelKeeps ==
  ASSUME NEW c \in PipelineCalls, PipelineInv, CallCancelled(c) PROVE PipelineInv'
<1> DEFINE k == run[c]
           m == [k EXCEPT !.left = TRUE]
<1>1. k \in PipelineRuns /\ Uncounted(k) BY RunFacts DEF RunFits, CallCancelled
<1>2. End(c, m) /\ UNCHANGED <<row, jobs, closing>> BY DEF CallCancelled
<1> HIDE DEF k
<1>3. /\ m \in PipelineRuns /\ m.left /\ m.rows = 0 /\ m.unstorable = k.unstorable
      /\ m.stored = k.stored
  BY <1>1 DEF PipelineRuns, Uncounted
<1> HIDE DEF m
<1>4. RunCounted([m EXCEPT !.step = "done"])
  BY <1>1, <1>3 DEF RunCounted, PipelineRuns, Uncounted
<1> QED BY <1>2, <1>3, <1>4, EndFits DEF PipelineInv, JobsInv, RowIsWhole

LEMMA RaiseKeeps ==
  ASSUME NEW c \in PipelineCalls, PipelineInv,
         run[c].step \in {"fetching", "compressing", "extracting"}, EndsRecorded(c)
  PROVE  PipelineInv'
<1>1. ~run[c].hit BY RunFacts DEF RunFits
<1> QED BY <1>1, EndsKeep DEF EndsRecorded

LEMMA CompressedKeeps ==
  ASSUME NEW c \in PipelineCalls, PipelineInv, Compressed(c) PROVE PipelineInv'
<1> DEFINE k == run[c]
           m == [k EXCEPT !.step = "surfacing"]
<1>1. k \in PipelineRuns /\ Uncounted(k) /\ ~k.hit /\ Made(k.body)
  BY RunFacts DEF RunFits, Compressed
<1>2. k.body.form \in Forms BY <1>1 DEF Made, Compressed, Deliverables
<1>3. run' = [run EXCEPT ![c] = m] /\ UNCHANGED <<row, jobs, closing>> BY DEF Compressed
<1> HIDE DEF k
<1>4. m \in PipelineRuns BY <1>1 DEF PipelineRuns, PipelineSteps
<1>5. /\ m.step = "surfacing" /\ m.body = k.body /\ m.hit = k.hit /\ m.rows = k.rows
      /\ m.left = k.left /\ m.unstorable = k.unstorable /\ m.stored = k.stored /\ m.set = k.set
      /\ m.missed = k.missed
  BY <1>1 DEF PipelineRuns
<1> HIDE DEF m
<1>6. RunFits(m) /\ RunCounted(m) BY <1>1, <1>2, <1>5 DEF RunFits, RunCounted, Uncounted, Delivered
<1> QED BY <1>3, <1>4, <1>6, MoveFits DEF PipelineInv, JobsInv, RowIsWhole

(* What is past surfacing, with how its indexing ended or began.           *)
LEMMA PassingFacts ==
  ASSUME NEW c \in PipelineCalls, PipelineInv, run[c].step \in {"surfacing", "indexing", "extracting"},
         ~run[c].hit
  PROVE  Passing(run[c])
BY RunFacts DEF RunFits, Passing

LEMMA SurfacedKeeps ==
  ASSUME NEW c \in PipelineCalls, PipelineInv, Surfaced(c) PROVE PipelineInv'
<1> DEFINE k == run[c]
<1>1. Passing(k) /\ k.step = "surfacing" BY PassingFacts DEF Surfaced
<1>2. Within(jobs) BY DEF PipelineInv, JobsInv, Within
<1>3. CASE Extracts(c, k, jobs) BY <1>1, <1>2, <1>3, ExtractsKeep
<1>4. CASE Extracts(c, [k EXCEPT !.index = "done"], jobs)
  <2>1. Passing([k EXCEPT !.index = "done"]) BY <1>1, StageKnown DEF Ends
  <2> QED BY <1>2, <1>4, <2>1, ExtractsKeep
<1>5. CASE Extracts(c, [k EXCEPT !.index = Started(jobs)], Spawned(jobs, "index"))
  <2>1. Started(jobs) \in Ends /\ Within(Spawned(jobs, "index"))
    BY <1>2, Spawns DEF Within, PipelineInv
  <2>2. Passing([k EXCEPT !.index = Started(jobs)]) BY <1>1, <2>1, StageKnown
  <2> QED BY <1>5, <2>1, <2>2, ExtractsKeep
<1>6. CASE UNCHANGED <<row, jobs, closing>> /\ run' = [run EXCEPT ![c].step = "indexing"]
  <2> DEFINE m == [k EXCEPT !.step = "indexing"]
  <2>1. run' = [run EXCEPT ![c] = m] BY <1>6
  <2> HIDE DEF k
  <2>2. m \in PipelineRuns /\ m.step = "indexing" /\ Uncounted(m) /\ ~m.hit /\ Delivered(m)
    BY <1>1 DEF Passing, PipelineRuns, PipelineSteps, Uncounted, Delivered
  <2> HIDE DEF m
  <2>3. RunFits(m) /\ RunCounted(m) BY <2>2 DEF RunFits, RunCounted, Uncounted
  <2> QED BY <1>6, <2>1, <2>2, <2>3, MoveFits DEF PipelineInv, JobsInv, RowIsWhole
<1> QED BY <1>3, <1>4, <1>5, <1>6 DEF Surfaced

LEMMA IndexedKeeps ==
  ASSUME NEW c \in PipelineCalls, PipelineInv, Indexed(c) PROVE PipelineInv'
<1>1. run[c].step = "indexing" /\ ~run[c].hit BY RunFacts DEF RunFits, Indexed
<1>2. Passing(run[c]) BY <1>1, PassingFacts
<1>3. PICK end \in {"done", "lost"} : Extracts(c, [run[c] EXCEPT !.index = end], jobs) BY DEF Indexed
<1>4. Passing([run[c] EXCEPT !.index = end]) BY <1>2, StageKnown DEF Ends
<1> QED BY <1>3, <1>4, ExtractsKeep DEF PipelineInv, JobsInv, Within

LEMMA ExtractedKeeps ==
  ASSUME NEW c \in PipelineCalls, PipelineInv, Extracted(c) PROVE PipelineInv'
<1>1. run[c].step = "extracting" /\ ~run[c].hit BY RunFacts DEF RunFits, Extracted
<1>2. Passing(run[c]) BY <1>1, PassingFacts
<1>3. PICK end \in {"done", "lost"} : Stores(c, [run[c] EXCEPT !.extract = end]) BY DEF Extracted
<1>4. Passing([run[c] EXCEPT !.extract = end]) BY <1>2, StageKnown DEF Ends
<1> DEFINE m == [run[c] EXCEPT !.extract = end]
<1>5. Passing(m) /\ Stores(c, m) BY <1>3, <1>4
<1> HIDE DEF m
<1>6. run' \in [PipelineCalls -> PipelineRuns] /\ RunsInv' /\ RowIsWhole'
  BY <1>5, StoresKeep DEF Passing
<1> QED BY <1>6 DEF Extracted, PipelineInv, JobsInv

LEMMA RestKeeps ==
  ASSUME PipelineInv, TtlEnds \/ Stopping \/ \E stage \in {"index", "extract"} : JobEnds(stage)
  PROVE  PipelineInv'
<1>1. CASE TtlEnds BY <1>1 DEF TtlEnds, PipelineInv, JobsInv, RunsInv, RowIsWhole
<1>2. CASE Stopping BY <1>2 DEF Stopping, PipelineInv, JobsInv, RunsInv, RowIsWhole
<1>3. ASSUME NEW stage \in {"index", "extract"}, JobEnds(stage) PROVE PipelineInv'
  <2>1. jobs' = [jobs EXCEPT ![stage] = @ - 1] /\ jobs[stage] > 0 BY <1>3 DEF JobEnds
  <2>2. jobs \in [{"index", "extract"} -> Nat] /\ jobs["index"] + jobs["extract"] <= MaxJobs
    BY DEF PipelineInv, JobsInv
  <2>3. jobs[stage] - 1 \in Nat BY <2>1, <2>2
  <2>4. jobs' \in [{"index", "extract"} -> Nat] BY <2>1, <2>2, <2>3
  <2>5. jobs'["index"] + jobs'["extract"] <= MaxJobs
    <3>0. MaxJobs \in Nat BY PipelineAssumption
    <3>1. CASE stage = "index" BY <2>1, <2>2, <3>0, <3>1
    <3>2. CASE stage = "extract" BY <2>1, <2>2, <3>0, <3>2
    <3> QED BY <3>1, <3>2
  <2> QED BY <1>3, <2>4, <2>5 DEF JobEnds, PipelineInv, JobsInv, RunsInv, RowIsWhole
<1> QED BY <1>1, <1>2, <1>3

LEMMA PipelineStarts == PipelineInit => PipelineInv
<1> SUFFICES ASSUME PipelineInit PROVE PipelineInv
  OBVIOUS
<1> DEFINE s0 == CHOOSE s \in PipelineSettings : TRUE
           e == Fresh(s0)
<1>1. s0 \in PipelineSettings BY PipelineAssumption
<1>2. run = [c \in PipelineCalls |-> e] BY DEF PipelineInit
<1> HIDE DEF s0
<1>3. /\ e \in PipelineRuns /\ e.step = "done" /\ e.rows = 0 /\ e.left /\ ~e.hit /\ ~e.unstorable
      /\ ~e.stored
  <2>1. Body("none", {}) \in Deliverables BY DEF Body, Deliverables
  <2> QED BY <1>1, <2>1 DEF Fresh, PipelineRuns, PipelineSteps, Ends
<1> HIDE DEF e
<1>4. RunFits(e) /\ RunCounted(e) BY <1>3 DEF RunFits, RunCounted
<1>5. run \in [PipelineCalls -> PipelineRuns] /\ RunsInv BY <1>2, <1>3, <1>4 DEF RunsInv
<1>6. JobsInv
  <2>1. jobs = [s \in {"index", "extract"} |-> 0] /\ closing = FALSE BY DEF PipelineInit
  <2>2. jobs["index"] = 0 /\ jobs["extract"] = 0 BY <2>1
  <2>3. MaxJobs \in Nat BY PipelineAssumption
  <2>4. jobs \in [{"index", "extract"} -> Nat] BY <2>1
  <2>5. jobs["index"] + jobs["extract"] <= MaxJobs BY <2>2, <2>3
  <2>6. closing \in BOOLEAN BY <2>1
  <2> QED BY <2>4, <2>5, <2>6 DEF JobsInv
<1>7. RowIsWhole BY DEF PipelineInit, RowIsWhole
<1> QED BY <1>5, <1>6, <1>7 DEF PipelineInv

LEMMA PipelineSteady == PipelineInv /\ [PipelineNext]_pipelineVars => PipelineInv'
<1> SUFFICES ASSUME PipelineInv, [PipelineNext]_pipelineVars PROVE PipelineInv'
  OBVIOUS
<1>1. CASE UNCHANGED pipelineVars
  BY <1>1 DEF pipelineVars, PipelineInv, RunsInv, JobsInv, RowIsWhole
<1>2. ASSUME NEW c \in PipelineCalls, NEW s \in PipelineSettings, CallEnters(c, s) PROVE PipelineInv'
  BY <1>2, EnterKeeps
<1>3. ASSUME NEW c \in PipelineCalls, NEW r \in Replies, FetchReturns(c, r) PROVE PipelineInv'
  BY <1>3, FetchKeeps
<1>4. ASSUME NEW c \in PipelineCalls, HitReturns(c) PROVE PipelineInv' BY <1>4, HitKeeps
<1>5. ASSUME NEW c \in PipelineCalls, FetchRaises(c) \/ CompressionRaises(c) \/ ExtractionRaises(c)
                                         \/ CompressionUndeliverable(c)
      PROVE  PipelineInv'
  BY <1>5, RaiseKeeps
  DEF FetchRaises, CompressionRaises, ExtractionRaises, CompressionUndeliverable, Raises
<1>6. ASSUME NEW c \in PipelineCalls, Compressed(c) PROVE PipelineInv' BY <1>6, CompressedKeeps
<1>7. ASSUME NEW c \in PipelineCalls, Surfaced(c) PROVE PipelineInv' BY <1>7, SurfacedKeeps
<1>8. ASSUME NEW c \in PipelineCalls, Indexed(c) PROVE PipelineInv' BY <1>8, IndexedKeeps
<1>9. ASSUME NEW c \in PipelineCalls, Extracted(c) PROVE PipelineInv' BY <1>9, ExtractedKeeps
<1>10. ASSUME NEW c \in PipelineCalls, CallCancelled(c) PROVE PipelineInv' BY <1>10, CancelKeeps
<1>11. CASE TtlEnds \/ Stopping \/ \E stage \in {"index", "extract"} : JobEnds(stage)
  BY <1>11, RestKeeps
<1> QED BY <1>1, <1>2, <1>3, <1>4, <1>5, <1>6, <1>7, <1>8, <1>9, <1>10, <1>11 DEF PipelineNext

LEMMA PipelineInvSound == PipelineInv => PipelineIsSound
BY DEF PipelineInv, RunsInv, RunCounted, JobsInv, PipelineIsSound, OneRowPerCall, MissesConvert

(* A row stands only for a body that lost nothing, every call that ends by *)
(* itself is counted once, the misses counted as unstorable are misses,    *)
(* and no more background stages run than the cap (_fetch_upstream from    *)
(* its reply on, _apply_compression, _store_cache, _spawn_background).     *)
THEOREM PipelineStaysSound == PipelineSpec => []PipelineIsSound
BY PipelineStarts, PipelineSteady, PipelineInvSound, PTL DEF PipelineSpec
=============================================================================
