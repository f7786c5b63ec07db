--------------------------- MODULE CommandsProofs ---------------------------
(***************************************************************************)
(* Proofs about the commands that write files and the sweep of leaked      *)
(* children, for every set of hosts, servers, names, launches and sweeps   *)
(* and every bound: no command saves over what it has not read or loses    *)
(* what a host's file said, no entry of the registry leaves or changes     *)
(* without its evidence, and no sweep signals what is not a leak.          *)
(***************************************************************************)
EXTENDS FileCommands, TLAPS, FiniteSetTheorems, SequenceTheorems, WellFoundedInduction
-----------------------------------------------------------------------------
(* The sweep of leaked children, for any launches, servers and sweeps.     *)

SpawnPlaces == {"idle", "locked", "launched", "claimed", "reaped", "released", "failed"}
ReaperClaims == [serial : Spawns \cup {NoOne}, retired : BOOLEAN, within : SUBSET Sweeps]

ReaperTypeOK ==
  /\ bearer \in [Pids -> Children \cup {NoOne}]
  /\ dead \subseteq Children /\ struck \subseteq Children
  /\ claims \in [Pids -> ReaperClaims]
  /\ holder \in Spawns \cup {NoOne}
  /\ spawn \in [Spawns -> [at : SpawnPlaces, pid : Pids \cup {NoOne}, within : SUBSET Sweeps]]
  /\ server \in [StdioServers -> BOOLEAN]
  /\ sweep \in [Sweeps -> [at : {"idle", "opened", "probed", "skipped", "signals", "done"},
                           saw : SUBSET (Pids \X Children), answer : SUBSET Pids]]

(* The launch that runs holds the lock, and a pid names the daemon that    *)
(* was launched under it and is not reaped.                                *)
LaunchInv ==
  /\ \A d \in Spawns : holder = d <=> spawn[d].at \in {"locked", "launched"}
  /\ \A d \in Spawns, p \in Pids :
       bearer[p] = d <=> spawn[d].at \in {"launched", "claimed"} /\ spawn[d].pid = p
  /\ \A d \in Spawns : spawn[d].at \in {"launched", "claimed", "reaped", "released"} => spawn[d].pid \in Pids

(* A claim is of a daemon launched under its pid, retired when its waiter  *)
(* released it, for the sweeps that looked then; a daemon that is not      *)
(* reaped has its claim.                                                   *)
ClaimsInv ==
  \A p \in Pids :
    /\ Claimed(claims[p]) =>
         LET d == claims[p].serial IN
         /\ spawn[d].pid = p /\ spawn[d].at \in {"claimed", "reaped", "released"}
         /\ claims[p].retired <=> spawn[d].at = "released"
         /\ claims[p].retired => claims[p].within = spawn[d].within
    /\ \A d \in Spawns : bearer[p] = d /\ spawn[d].at = "claimed" => claims[p].serial = d

(* What a probe saw is no child of the host, and a daemon among it is      *)
(* still being launched or exempt.                                         *)
SeenInv ==
  \A s \in Sweeps : sweep[s].at \in {"probed", "signals"} => \A seen \in sweep[s].saw :
    /\ seen[2] # Host /\ bearer[seen[1]] # Host
    /\ sweep[s].at = "probed" /\ seen[2] \in Spawns =>
         \/ spawn[seen[2]].at = "launched" /\ spawn[seen[2]].pid = seen[1]
         \/ seen[1] \in Spared(s)

(* An answer names servers, and so it does while it is acted upon.         *)
AnswerInv ==
  \A s \in Sweeps : sweep[s].at = "signals" =>
    /\ \A p \in sweep[s].answer : bearer[p] \in StdioServers \cup {NoOne}
    /\ \A seen \in sweep[s].saw : seen[1] \in sweep[s].answer => seen[2] \in StdioServers

ReaperInv ==
  /\ ReaperTypeOK /\ LaunchInv /\ ClaimsInv /\ SeenInv /\ AnswerInv
  /\ struck \subseteq StdioServers

LEMMA ReaperStarts == ReaperInit => ReaperInv
<1> SUFFICES ASSUME ReaperInit PROVE ReaperInv
  OBVIOUS
<1>1. PICK h \in Pids : bearer = [q \in Pids |-> IF q = h THEN Host ELSE NoOne] BY DEF ReaperInit
<1>2. /\ dead = {} /\ struck = {} /\ claims = [p \in Pids |-> Unclaimed] /\ holder = NoOne
      /\ spawn = [d \in Spawns |-> [at |-> "idle", pid |-> NoOne, within |-> {}]]
      /\ server = [c \in StdioServers |-> FALSE]
      /\ sweep = [s \in Sweeps |-> [at |-> "idle", saw |-> {}, answer |-> {}]]
  BY DEF ReaperInit
<1>3. ReaperTypeOK
  <2>1. bearer \in [Pids -> Children \cup {NoOne}] BY <1>1 DEF Children
  <2>2. claims \in [Pids -> ReaperClaims] BY <1>2 DEF Unclaimed, ReaperClaims
  <2>3. spawn \in [Spawns -> [at : SpawnPlaces, pid : Pids \cup {NoOne}, within : SUBSET Sweeps]]
    BY <1>2 DEF SpawnPlaces
  <2>4. sweep \in [Sweeps -> [at : {"idle", "opened", "probed", "skipped", "signals", "done"},
                              saw : SUBSET (Pids \X Children), answer : SUBSET Pids]]
    BY <1>2
  <2> QED BY <1>2, <2>1, <2>2, <2>3, <2>4 DEF ReaperTypeOK
<1>4. \A d \in Spawns : spawn[d].at = "idle" /\ d # NoOne /\ d # Host BY <1>2, ReaperAssumption
<1>5. \A p \in Pids : bearer[p] \in {Host, NoOne} BY <1>1
<1>6. LaunchInv BY <1>2, <1>4, <1>5 DEF LaunchInv
<1>7. \A p \in Pids : ~Claimed(claims[p]) BY <1>2 DEF Claimed, Unclaimed
<1>8. ClaimsInv BY <1>4, <1>5, <1>7 DEF ClaimsInv
<1>9. SeenInv /\ AnswerInv BY <1>2 DEF SeenInv, AnswerInv
<1> QED BY <1>2, <1>3, <1>6, <1>8, <1>9 DEF ReaperInv

-----------------------------------------------------------------------------
LEMMA SpawnFacts ==
  ASSUME ReaperInv, NEW d \in Spawns
  PROVE  /\ spawn[d].at \in SpawnPlaces /\ spawn[d].pid \in Pids \cup {NoOne}
         /\ spawn[d].within \subseteq Sweeps
         /\ d # NoOne /\ d # Host /\ d \notin StdioServers
         /\ spawn[d].at \in {"launched", "claimed", "reaped", "released"} => spawn[d].pid \in Pids
BY ReaperAssumption DEF ReaperInv, ReaperTypeOK, LaunchInv

(* A launch that takes the lock or fails: no pid and no claim changes.     *)
LEMMA LockMoves ==
  ASSUME ReaperInv, NEW d \in Spawns, TakeClaimLock(d) \/ LaunchFails(d) PROVE ReaperInv'
<1>1. /\ UNCHANGED <<bearer, dead, struck, claims, server, sweep>>
      /\ \E at \in {"locked", "failed"} : spawn' = [spawn EXCEPT ![d].at = at]
      /\ spawn[d].at \in {"idle", "locked"}
      /\ holder' \in Spawns \cup {NoOne}
  BY DEF TakeClaimLock, LaunchFails
<1>2. \A e \in Spawns : holder' = e <=> spawn'[e].at \in {"locked", "launched"}
  <2>1. CASE TakeClaimLock(d)
    <3>1. holder = NoOne /\ holder' = d /\ spawn' = [spawn EXCEPT ![d].at = "locked"]
      BY <2>1 DEF TakeClaimLock
    <3> QED BY <3>1, SpawnFacts, ReaperAssumption DEF ReaperInv, ReaperTypeOK, LaunchInv
  <2>2. CASE LaunchFails(d)
    <3>1. spawn[d].at = "locked" /\ holder' = NoOne /\ spawn' = [spawn EXCEPT ![d].at = "failed"]
      BY <2>2 DEF LaunchFails
    <3>2. holder = d BY <3>1 DEF ReaperInv, LaunchInv
    <3> QED BY <3>1, <3>2, SpawnFacts DEF ReaperInv, ReaperTypeOK, LaunchInv
  <2> QED BY <2>1, <2>2
<1>3. \A e \in Spawns : /\ spawn'[e].pid = spawn[e].pid /\ spawn'[e].within = spawn[e].within
                        /\ e # d => spawn'[e].at = spawn[e].at
                        /\ e = d => spawn'[e].at \in {"locked", "failed"}
  BY <1>1 DEF ReaperInv, ReaperTypeOK
<1>4. ReaperTypeOK'
  <2>1. PICK at \in {"locked", "failed"} : spawn' = [spawn EXCEPT ![d].at = at] BY <1>1
  <2>2. at \in SpawnPlaces BY DEF SpawnPlaces
  <2>3. spawn' \in [Spawns -> [at : SpawnPlaces, pid : Pids \cup {NoOne}, within : SUBSET Sweeps]]
    BY <2>1, <2>2 DEF ReaperInv, ReaperTypeOK
  <2> QED BY <1>1, <2>3 DEF ReaperInv, ReaperTypeOK
<1>5. LaunchInv' BY <1>1, <1>2, <1>3 DEF ReaperInv, LaunchInv
<1>6. ClaimsInv' BY <1>1, <1>3 DEF ReaperInv, ClaimsInv, ReaperTypeOK, ReaperClaims, Claimed
<1>7. SeenInv' BY <1>1, <1>3 DEF ReaperInv, SeenInv, Spared
<1>8. AnswerInv' BY <1>1 DEF ReaperInv, AnswerInv
<1> QED BY <1>1, <1>4, <1>5, <1>6, <1>7, <1>8 DEF ReaperInv

LEMMA LaunchKeeps == ASSUME ReaperInv, NEW d \in Spawns, Launch(d) PROVE ReaperInv'
<1>1. PICK p \in FreePids : /\ bearer' = [bearer EXCEPT ![p] = d]
                            /\ spawn' = [spawn EXCEPT ![d].at = "launched", ![d].pid = p]
  BY DEF Launch
<1>2. /\ spawn[d].at = "locked" /\ UNCHANGED <<dead, struck, claims, holder, server, sweep>>
      /\ p \in Pids /\ bearer[p] = NoOne /\ ~Answered(p)
  BY DEF Launch, FreePids
<1>3. \A e \in Spawns : /\ e # d => spawn'[e] = spawn[e]
                        /\ spawn'[e].within = spawn[e].within
      /\ spawn'[d].at = "launched" /\ spawn'[d].pid = p
  BY <1>1 DEF ReaperInv, ReaperTypeOK
<1>4. \A q \in Pids : bearer'[q] = IF q = p THEN d ELSE bearer[q]
  BY <1>1, <1>2 DEF ReaperInv, ReaperTypeOK
<1>5. ReaperTypeOK'
  <2>1. bearer' \in [Pids -> Children \cup {NoOne}] BY <1>1, <1>2 DEF ReaperInv, ReaperTypeOK, Children
  <2>2. spawn' \in [Spawns -> [at : SpawnPlaces, pid : Pids \cup {NoOne}, within : SUBSET Sweeps]]
    <3>1. "launched" \in SpawnPlaces BY DEF SpawnPlaces
    <3>2. spawn \in [Spawns -> [at : SpawnPlaces, pid : Pids \cup {NoOne}, within : SUBSET Sweeps]]
      BY DEF ReaperInv, ReaperTypeOK
    <3>3. p \in Pids \cup {NoOne} /\ spawn' = [spawn EXCEPT ![d].at = "launched", ![d].pid = p]
      BY <1>1, <1>2
    <3> QED BY <3>1, <3>2, <3>3
  <2> QED BY <1>2, <2>1, <2>2 DEF ReaperInv, ReaperTypeOK
<1>6. \A q \in Pids : bearer[q] # d BY <1>2 DEF ReaperInv, LaunchInv
<1>7. LaunchInv'
  <2>1. \A e \in Spawns : holder' = e <=> spawn'[e].at \in {"locked", "launched"}
    BY <1>2, <1>3 DEF ReaperInv, LaunchInv
  <2>2. ASSUME NEW e \in Spawns, NEW q \in Pids
        PROVE  bearer'[q] = e <=> spawn'[e].at \in {"launched", "claimed"} /\ spawn'[e].pid = q
    <3>1. CASE e = d BY <1>3, <1>4, <1>6, <3>1
    <3>2. CASE e # d
      <4>1. bearer[q] = e <=> spawn[e].at \in {"launched", "claimed"} /\ spawn[e].pid = q
        BY DEF ReaperInv, LaunchInv
      <4>2. bearer[p] # e BY <1>2, SpawnFacts
      <4>3. spawn'[e] = spawn[e] BY <1>3, <3>2
      <4> QED BY <1>4, <3>2, <4>1, <4>2, <4>3
    <3> QED BY <3>1, <3>2
  <2>3. \A e \in Spawns : spawn'[e].at \in {"launched", "claimed", "reaped", "released"} => spawn'[e].pid \in Pids
    BY <1>2, <1>3 DEF ReaperInv, LaunchInv
  <2> QED BY <2>1, <2>2, <2>3 DEF LaunchInv
<1>8. ClaimsInv'
  <2>1. \A q \in Pids : Claimed(claims[q]) => claims[q].serial # d
    BY <1>2 DEF ReaperInv, ClaimsInv
  <2>2. \A q \in Pids : Claimed(claims[q]) => claims[q].serial \in Spawns
    BY DEF ReaperInv, ReaperTypeOK, ReaperClaims, Claimed
  <2> QED BY <1>2, <1>3, <1>4, <2>1, <2>2 DEF ReaperInv, ClaimsInv
<1>9. SeenInv'
  <2>1. \A s \in Sweeps : \A seen \in sweep[s].saw : seen[1] \in Pids
    BY DEF ReaperInv, ReaperTypeOK
  <2>2. d # Host BY SpawnFacts
  <2> QED BY <1>2, <1>3, <1>4, <2>1, <2>2 DEF ReaperInv, SeenInv, Spared
<1>10. AnswerInv'
  <2>1. \A s \in Sweeps : sweep[s].at = "signals" => p \notin sweep[s].answer BY <1>2 DEF Answered
  <2>2. \A s \in Sweeps : sweep[s].answer \subseteq Pids BY DEF ReaperInv, ReaperTypeOK
  <2> QED BY <1>2, <1>4, <2>1, <2>2 DEF ReaperInv, AnswerInv
<1> QED BY <1>2, <1>5, <1>7, <1>8, <1>9, <1>10 DEF ReaperInv

(* The waiter's thread and the launch that claims.                         *)
LEMMA ClaimFacts ==
  ASSUME ReaperInv, NEW p \in Pids
  PROVE  /\ claims[p].serial \in Spawns \cup {NoOne} /\ claims[p].retired \in BOOLEAN
         /\ claims[p].within \subseteq Sweeps
         /\ Claimed(claims[p]) => claims[p].serial \in Spawns
BY DEF ReaperInv, ReaperTypeOK, ReaperClaims, Claimed

LEMMA ClaimKeeps == ASSUME ReaperInv, NEW d \in Spawns, Claim(d) PROVE ReaperInv'
<1> DEFINE p == spawn[d].pid
           c == [Unclaimed EXCEPT !.serial = d]
<1>1. /\ spawn[d].at = "launched" /\ claims' = [claims EXCEPT ![p] = c]
      /\ spawn' = [spawn EXCEPT ![d].at = "claimed"] /\ holder' = NoOne
      /\ UNCHANGED <<bearer, dead, struck, server, sweep>>
  BY DEF Claim
<1>2. p \in Pids /\ d # NoOne /\ bearer[p] = d /\ holder = d
  BY <1>1, SpawnFacts DEF ReaperInv, LaunchInv
<1>3. \A e \in Spawns : /\ spawn'[e].pid = spawn[e].pid /\ spawn'[e].within = spawn[e].within
                        /\ spawn'[e].at = IF e = d THEN "claimed" ELSE spawn[e].at
  BY <1>1 DEF ReaperInv, ReaperTypeOK
<1>4. \A q \in Pids : claims'[q] = IF q = p THEN c ELSE claims[q]
  BY <1>1, <1>2 DEF ReaperInv, ReaperTypeOK
<1>5. c.serial = d /\ c.retired = FALSE /\ c \in ReaperClaims
  <2>1. Unclaimed \in [serial : {NoOne}, retired : {FALSE}, within : {{}}] BY DEF Unclaimed
  <2>2. c \in [serial : {d}, retired : {FALSE}, within : {{}}] BY <2>1
  <2> QED BY <2>2 DEF ReaperClaims
<1>6. ReaperTypeOK'
  <2>1. claims' \in [Pids -> ReaperClaims] BY <1>1, <1>2, <1>5 DEF ReaperInv, ReaperTypeOK
  <2>2. "claimed" \in SpawnPlaces BY DEF SpawnPlaces
  <2>3. spawn \in [Spawns -> [at : SpawnPlaces, pid : Pids \cup {NoOne}, within : SUBSET Sweeps]]
    BY DEF ReaperInv, ReaperTypeOK
  <2>4. spawn' \in [Spawns -> [at : SpawnPlaces, pid : Pids \cup {NoOne}, within : SUBSET Sweeps]]
    BY <1>1, <2>2, <2>3
  <2> QED BY <1>1, <2>1, <2>4 DEF ReaperInv, ReaperTypeOK
<1> HIDE DEF p, c
<1>7. p = spawn[d].pid BY DEF p
<1>8. LaunchInv'
  <2>1. \A e \in Spawns : holder' = e <=> spawn'[e].at \in {"locked", "launched"}
    BY <1>1, <1>2, <1>3, SpawnFacts DEF ReaperInv, LaunchInv
  <2> QED BY <1>1, <1>2, <1>3, <2>1 DEF ReaperInv, LaunchInv
<1>9. ClaimsInv'
  <2>1. \A q \in Pids : Claimed(claims[q]) => claims[q].serial \in Spawns /\ claims[q].serial # d
    BY <1>1, ClaimFacts DEF ReaperInv, ClaimsInv
  <2>2. ASSUME NEW q \in Pids, Claimed(claims'[q])
        PROVE  LET e == claims'[q].serial IN
               /\ spawn'[e].pid = q /\ spawn'[e].at \in {"claimed", "reaped", "released"}
               /\ claims'[q].retired <=> spawn'[e].at = "released"
               /\ claims'[q].retired => claims'[q].within = spawn'[e].within
    <3>1. CASE q = p BY <1>3, <1>4, <1>5, <1>7, <3>1
    <3>2. CASE q # p BY <1>3, <1>4, <2>1, <2>2, <3>2 DEF ReaperInv, ClaimsInv
    <3> QED BY <3>1, <3>2
  <2>3. ASSUME NEW q \in Pids, NEW e \in Spawns, bearer'[q] = e, spawn'[e].at = "claimed"
        PROVE  claims'[q].serial = e
    <3>1. CASE e = d
      <4>1. q = p BY <1>1, <1>7, <2>3, <3>1 DEF ReaperInv, LaunchInv
      <4> QED BY <1>4, <1>5, <3>1, <4>1
    <3>2. CASE e # d
      <4>1. q # p BY <1>1, <1>2, <2>3, <3>2
      <4> QED BY <1>1, <1>3, <1>4, <2>3, <3>2, <4>1 DEF ReaperInv, ClaimsInv
    <3> QED BY <3>1, <3>2
  <2> QED BY <2>2, <2>3 DEF ClaimsInv
<1>10. \A s \in Sweeps : Spared(s) \subseteq Spared(s)' /\ p \in Spared(s)'
  BY <1>2, <1>4, <1>5 DEF Spared, Claimed
<1>11. SeenInv'
  BY <1>1, <1>3, <1>7, <1>10 DEF ReaperInv, SeenInv
<1>12. AnswerInv' /\ (struck \subseteq StdioServers)' BY <1>1 DEF ReaperInv, AnswerInv
<1> QED BY <1>6, <1>8, <1>9, <1>11, <1>12 DEF ReaperInv

LEMMA ReapKeeps == ASSUME ReaperInv, NEW d \in Spawns, Reap(d) PROVE ReaperInv'
<1> DEFINE p == spawn[d].pid
<1>1. /\ spawn[d].at = "claimed" /\ bearer' = [bearer EXCEPT ![p] = NoOne]
      /\ spawn' = [spawn EXCEPT ![d].at = "reaped"]
      /\ UNCHANGED <<dead, struck, claims, holder, server, sweep>>
  BY DEF Reap
<1>2. p \in Pids /\ bearer[p] = d BY <1>1, SpawnFacts DEF ReaperInv, LaunchInv
<1>3. \A e \in Spawns : /\ spawn'[e].pid = spawn[e].pid /\ spawn'[e].within = spawn[e].within
                        /\ spawn'[e].at = IF e = d THEN "reaped" ELSE spawn[e].at
  BY <1>1 DEF ReaperInv, ReaperTypeOK
<1>4. \A q \in Pids : bearer'[q] = IF q = p THEN NoOne ELSE bearer[q]
  BY <1>1, <1>2 DEF ReaperInv, ReaperTypeOK
<1>5. ReaperTypeOK'
  <2>1. bearer' \in [Pids -> Children \cup {NoOne}] BY <1>1, <1>2 DEF ReaperInv, ReaperTypeOK
  <2>2. "reaped" \in SpawnPlaces BY DEF SpawnPlaces
  <2>3. spawn' \in [Spawns -> [at : SpawnPlaces, pid : Pids \cup {NoOne}, within : SUBSET Sweeps]]
    BY <1>1, <2>2 DEF ReaperInv, ReaperTypeOK
  <2> QED BY <1>1, <2>1, <2>3 DEF ReaperInv, ReaperTypeOK
<1> HIDE DEF p
<1>6. LaunchInv'
  <2>1. \A e \in Spawns : holder' = e <=> spawn'[e].at \in {"locked", "launched"}
    BY <1>1, <1>3 DEF ReaperInv, LaunchInv
  <2>2. ASSUME NEW e \in Spawns, NEW q \in Pids
        PROVE  bearer'[q] = e <=> spawn'[e].at \in {"launched", "claimed"} /\ spawn'[e].pid = q
    <3>1. e # NoOne BY SpawnFacts
    <3>2. bearer[q] = e <=> spawn[e].at \in {"launched", "claimed"} /\ spawn[e].pid = q
      BY DEF ReaperInv, LaunchInv
    <3>3. CASE e = d BY <1>3, <1>4, <3>1, <3>2, <3>3 DEF p
    <3>4. CASE e # d
      <4>1. q = p => bearer[q] # e BY <1>2, <3>4
      <4> QED BY <1>3, <1>4, <3>1, <3>2, <3>4, <4>1
    <3> QED BY <3>3, <3>4
  <2>3. \A e \in Spawns : spawn'[e].at \in {"launched", "claimed", "reaped", "released"} => spawn'[e].pid \in Pids
    BY <1>2, <1>3 DEF ReaperInv, LaunchInv, p
  <2> QED BY <2>1, <2>2, <2>3 DEF LaunchInv
<1>7. ClaimsInv'
  <2>1. \A q \in Pids : Claimed(claims[q]) => claims[q].serial \in Spawns BY ClaimFacts
  <2>2. \A q \in Pids, e \in Spawns : bearer'[q] = e => bearer[q] = e BY <1>4, SpawnFacts
  <2> QED BY <1>1, <1>3, <2>1, <2>2 DEF ReaperInv, ClaimsInv
<1>8. NoOne # Host BY ReaperAssumption
<1>9. SeenInv'
  <2>1. \A s \in Sweeps : \A seen \in sweep[s].saw : seen[1] \in Pids BY DEF ReaperInv, ReaperTypeOK
  <2> QED BY <1>1, <1>3, <1>4, <1>8, <2>1 DEF ReaperInv, SeenInv, Spared
<1>10. AnswerInv'
  <2>1. \A s \in Sweeps : sweep[s].answer \subseteq Pids BY DEF ReaperInv, ReaperTypeOK
  <2> QED BY <1>1, <1>4, <2>1 DEF ReaperInv, AnswerInv
<1>11. (struck \subseteq StdioServers)' BY <1>1 DEF ReaperInv
<1> QED BY <1>5, <1>6, <1>7, <1>9, <1>10, <1>11 DEF ReaperInv

(* What the dropping of settled retirements leaves.                        *)
LEMMA SettledLeaves ==
  ASSUME NEW cs \in [Pids -> ReaperClaims], NEW p \in Pids
  PROVE  \/ Settled(cs)[p] = cs[p]
         \/ /\ Settled(cs)[p] = Unclaimed /\ cs[p].retired
            /\ \A s \in OpenWindows : s \notin cs[p].within
BY DEF Settled

LEMMA SettledIsTyped ==
  ASSUME NEW cs \in [Pids -> ReaperClaims] PROVE Settled(cs) \in [Pids -> ReaperClaims]
<1>1. Unclaimed \in ReaperClaims BY DEF Unclaimed, ReaperClaims
<1> QED BY <1>1 DEF Settled

(* A retirement that is dropped is of no sweep that still looks: what is   *)
(* exempt for such a sweep stays so.                                       *)
LEMMA SettledSpares ==
  ASSUME ReaperInv, NEW s \in OpenWindows, claims' = Settled(claims)
  PROVE  Spared(s) \subseteq Spared(s)'
<1> SUFFICES ASSUME NEW p \in Spared(s) PROVE p \in Spared(s)'
  OBVIOUS
<1>1. p \in Pids /\ Claimed(claims[p]) /\ (claims[p].retired => s \in claims[p].within) BY DEF Spared
<1>2. claims \in [Pids -> ReaperClaims] BY DEF ReaperInv, ReaperTypeOK
<1>3. Settled(claims)[p] = claims[p] BY <1>1, <1>2, SettledLeaves
<1> QED BY <1>1, <1>3 DEF Spared

LEMMA SettledClaims ==
  ASSUME ReaperInv, claims' = Settled(claims), UNCHANGED <<bearer, spawn>>
  PROVE  ClaimsInv'
<1>1. claims \in [Pids -> ReaperClaims] BY DEF ReaperInv, ReaperTypeOK
<1>2. ~Claimed(Unclaimed) BY DEF Claimed, Unclaimed
<1>3. ASSUME NEW p \in Pids, Claimed(claims'[p]) PROVE claims'[p] = claims[p]
  BY <1>1, <1>2, <1>3, SettledLeaves
<1>4. ASSUME NEW p \in Pids, NEW d \in Spawns, bearer[p] = d, spawn[d].at = "claimed"
      PROVE  claims'[p] = claims[p] /\ claims[p].serial = d
  <2>1. claims[p].serial = d BY <1>4 DEF ReaperInv, ClaimsInv
  <2>2. Claimed(claims[p]) BY <2>1, SpawnFacts DEF Claimed
  <2>3. ~claims[p].retired BY <1>4, <2>1, <2>2 DEF ReaperInv, ClaimsInv
  <2> QED BY <1>1, <2>1, <2>3, SettledLeaves
<1> QED BY <1>3, <1>4 DEF ReaperInv, ClaimsInv

LEMMA ClaimReleaseKeeps == ASSUME ReaperInv, NEW d \in Spawns, Release(d) PROVE ReaperInv'
<1> DEFINE p == spawn[d].pid
           cs == [claims EXCEPT ![p] = Retired(claims[p], d)]
<1>1. /\ spawn[d].at = "reaped" /\ holder = NoOne /\ claims' = Settled(cs)
      /\ spawn' = [spawn EXCEPT ![d].at = "released", ![d].within = OpenWindows]
      /\ UNCHANGED <<bearer, dead, struck, holder, server, sweep>>
  BY DEF Release
<1>2. p \in Pids /\ d # NoOne BY <1>1, SpawnFacts
<1>3. OpenWindows \subseteq Sweeps BY DEF OpenWindows
<1>4. \A e \in Spawns : /\ spawn'[e].pid = spawn[e].pid
                        /\ e # d => spawn'[e] = spawn[e]
                        /\ e = d => spawn'[e].at = "released" /\ spawn'[e].within = OpenWindows
  BY <1>1 DEF ReaperInv, ReaperTypeOK
<1>5. Retired(claims[p], d) \in ReaperClaims
  <2>1. claims[p] \in ReaperClaims BY <1>2 DEF ReaperInv, ReaperTypeOK
  <2>2. TRUE \in BOOLEAN /\ OpenWindows \in SUBSET Sweeps BY <1>3
  <2>3. [claims[p] EXCEPT !.retired = TRUE, !.within = OpenWindows] \in ReaperClaims
    BY <2>1, <2>2 DEF ReaperClaims
  <2> QED BY <2>1, <2>3 DEF Retired
<1>6. cs \in [Pids -> ReaperClaims] BY <1>2, <1>5 DEF ReaperInv, ReaperTypeOK
<1>7. \A q \in Pids : cs[q] = IF q = p THEN Retired(claims[p], d) ELSE claims[q]
  BY <1>2 DEF ReaperInv, ReaperTypeOK
<1>8. p = spawn[d].pid OBVIOUS
<1> HIDE DEF p, cs
<1>9. ReaperTypeOK'
  <2>1. claims' \in [Pids -> ReaperClaims] BY <1>1, <1>6, SettledIsTyped
  <2>2. "released" \in SpawnPlaces BY DEF SpawnPlaces
  <2>3. spawn \in [Spawns -> [at : SpawnPlaces, pid : Pids \cup {NoOne}, within : SUBSET Sweeps]]
    BY DEF ReaperInv, ReaperTypeOK
  <2>4. OpenWindows \in SUBSET Sweeps BY <1>3
  <2>5. spawn' \in [Spawns -> [at : SpawnPlaces, pid : Pids \cup {NoOne}, within : SUBSET Sweeps]]
    BY <1>1, <2>2, <2>3, <2>4
  <2> QED BY <1>1, <2>1, <2>5 DEF ReaperInv, ReaperTypeOK
<1>10. LaunchInv'
  <2>1. \A e \in Spawns : holder' = e <=> spawn'[e].at \in {"locked", "launched"}
    BY <1>1, <1>4 DEF ReaperInv, LaunchInv
  <2>2. ASSUME NEW e \in Spawns, NEW q \in Pids
        PROVE  bearer'[q] = e <=> spawn'[e].at \in {"launched", "claimed"} /\ spawn'[e].pid = q
    <3>1. bearer[q] = e <=> spawn[e].at \in {"launched", "claimed"} /\ spawn[e].pid = q
      BY DEF ReaperInv, LaunchInv
    <3>2. CASE e = d BY <1>1, <1>4, <3>1, <3>2
    <3>3. CASE e # d BY <1>1, <1>4, <3>1, <3>3
    <3> QED BY <3>2, <3>3
  <2>3. \A e \in Spawns : spawn'[e].at \in {"launched", "claimed", "reaped", "released"} => spawn'[e].pid \in Pids
    BY <1>2, <1>4, <1>8 DEF ReaperInv, LaunchInv
  <2> QED BY <2>1, <2>2, <2>3 DEF LaunchInv
\* What the waiter's retirement changes.
<1>11. ASSUME NEW q \in Pids
       PROVE  /\ cs[q].serial = claims[q].serial
              /\ claims[q].serial # d => cs[q] = claims[q]
              /\ claims[q].serial = d => q = p /\ cs[q].retired /\ cs[q].within = OpenWindows
  <2>1. claims[q].serial = d => Claimed(claims[q]) BY <1>2 DEF Claimed
  <2>2. claims[q].serial = d => q = p /\ ~claims[q].retired
    BY <1>1, <1>8, <2>1 DEF ReaperInv, ClaimsInv
  <2>3. claims[q] \in ReaperClaims BY DEF ReaperInv, ReaperTypeOK
  <2> QED BY <1>7, <2>2, <2>3 DEF Retired, ReaperClaims
<1>12. ASSUME NEW q \in Pids
       PROVE  \/ claims'[q] = cs[q]
              \/ /\ claims'[q] = Unclaimed /\ cs[q].retired
                 /\ \A s \in OpenWindows : s \notin cs[q].within
  BY <1>1, <1>6, SettledLeaves
<1>13. ~Claimed(Unclaimed) BY DEF Claimed, Unclaimed
<1>14. ClaimsInv'
  <2>1. ASSUME NEW q \in Pids, Claimed(claims'[q])
        PROVE  LET e == claims'[q].serial IN
               /\ spawn'[e].pid = q /\ spawn'[e].at \in {"claimed", "reaped", "released"}
               /\ claims'[q].retired <=> spawn'[e].at = "released"
               /\ claims'[q].retired => claims'[q].within = spawn'[e].within
    <3>1. claims'[q] = cs[q] BY <1>12, <1>13, <2>1
    <3>2. Claimed(claims[q]) BY <1>11, <2>1, <3>1 DEF Claimed
    <3>3. claims[q].serial \in Spawns BY <3>2, ClaimFacts
    <3>4. CASE claims[q].serial = d BY <1>4, <1>8, <1>11, <3>1, <3>4
    <3>5. CASE claims[q].serial # d
      <4>1. claims'[q] = claims[q] BY <1>11, <3>1, <3>5
      <4>2. spawn'[claims[q].serial] = spawn[claims[q].serial] BY <1>4, <3>3, <3>5
      <4> QED BY <3>2, <4>1, <4>2 DEF ReaperInv, ClaimsInv
    <3> QED BY <3>4, <3>5
  <2>2. ASSUME NEW q \in Pids, NEW e \in Spawns, bearer'[q] = e, spawn'[e].at = "claimed"
        PROVE  claims'[q].serial = e
    <3>1. e # d /\ spawn[e].at = "claimed" /\ bearer[q] = e BY <1>1, <1>4, <2>2
    <3>2. claims[q].serial = e BY <3>1 DEF ReaperInv, ClaimsInv
    <3>3. ~claims[q].retired
      <4>1. Claimed(claims[q]) BY <3>2, SpawnFacts DEF Claimed
      <4> QED BY <3>1, <3>2, <4>1 DEF ReaperInv, ClaimsInv
    <3> QED BY <1>11, <1>12, <3>1, <3>2, <3>3
  <2> QED BY <2>1, <2>2 DEF ClaimsInv
<1>15. ASSUME NEW s \in OpenWindows PROVE Spared(s) \subseteq Spared(s)'
  <2> SUFFICES ASSUME NEW q \in Spared(s) PROVE q \in Spared(s)'
    OBVIOUS
  <2>1. q \in Pids /\ Claimed(claims[q]) /\ (claims[q].retired => s \in claims[q].within) BY DEF Spared
  <2>2. Claimed(cs[q]) /\ (cs[q].retired => s \in cs[q].within)
    <3>1. CASE claims[q].serial = d BY <1>11, <2>1, <3>1 DEF Claimed
    <3>2. CASE claims[q].serial # d BY <1>11, <2>1, <3>2
    <3> QED BY <3>1, <3>2
  <2>3. claims'[q] = cs[q] BY <1>12, <2>1, <2>2
  <2> QED BY <2>1, <2>2, <2>3 DEF Spared
<1>16. SeenInv'
  <2>1. \A s \in Sweeps : sweep[s].at = "probed" => s \in OpenWindows BY DEF OpenWindows
  <2>2. ASSUME NEW s \in Sweeps, sweep[s].at \in {"probed", "signals"}, NEW seen \in sweep[s].saw
        PROVE  /\ seen[2] # Host /\ bearer[seen[1]] # Host
               /\ sweep[s].at = "probed" /\ seen[2] \in Spawns =>
                    \/ spawn'[seen[2]].at = "launched" /\ spawn'[seen[2]].pid = seen[1]
                    \/ seen[1] \in Spared(s)'
    <3>1. seen[2] # Host /\ bearer[seen[1]] # Host BY <2>2 DEF ReaperInv, SeenInv
    <3>2. ASSUME sweep[s].at = "probed", seen[2] \in Spawns
          PROVE  \/ spawn'[seen[2]].at = "launched" /\ spawn'[seen[2]].pid = seen[1]
                 \/ seen[1] \in Spared(s)'
      <4>1. \/ spawn[seen[2]].at = "launched" /\ spawn[seen[2]].pid = seen[1]
            \/ seen[1] \in Spared(s)
        BY <2>2, <3>2 DEF ReaperInv, SeenInv
      <4> QED BY <1>1, <1>4, <1>15, <2>1, <3>2, <4>1
    <3> QED BY <3>1, <3>2
  <2> QED BY <1>1, <2>2 DEF SeenInv
<1>17. AnswerInv' /\ (struck \subseteq StdioServers)' BY <1>1 DEF ReaperInv, AnswerInv
<1> QED BY <1>9, <1>10, <1>14, <1>16, <1>17 DEF ReaperInv

(* A stdio server is started under a free pid, or reaped.                  *)
LEMMA ServersMove ==
  ASSUME ReaperInv, NEW p \in Pids, NEW c \in StdioServers \cup {NoOne},
         bearer[p] \in StdioServers \cup {NoOne},
         bearer' = [bearer EXCEPT ![p] = c],
         server' \in [StdioServers -> BOOLEAN],
         UNCHANGED <<dead, struck, claims, holder, spawn, sweep>>
  PROVE  ReaperInv'
<1>1. \A q \in Pids : bearer'[q] = IF q = p THEN c ELSE bearer[q] BY DEF ReaperInv, ReaperTypeOK
<1>2. c # Host /\ \A d \in Spawns : c # d /\ bearer[p] # d BY ReaperAssumption
<1>3. ReaperTypeOK'
  <2>1. bearer' \in [Pids -> Children \cup {NoOne}] BY DEF ReaperInv, ReaperTypeOK, Children
  <2> QED BY <2>1 DEF ReaperInv, ReaperTypeOK
<1>4. \A q \in Pids, d \in Spawns : bearer'[q] = d <=> bearer[q] = d BY <1>1, <1>2
<1>5. LaunchInv' BY <1>4 DEF ReaperInv, LaunchInv
<1>6. ClaimsInv' BY <1>4 DEF ReaperInv, ClaimsInv
<1>7. \A s \in Sweeps : sweep[s].answer \subseteq Pids /\ \A seen \in sweep[s].saw : seen[1] \in Pids
  BY DEF ReaperInv, ReaperTypeOK
<1>8. SeenInv' BY <1>1, <1>2, <1>7 DEF ReaperInv, SeenInv, Spared
<1>9. AnswerInv' BY <1>1, <1>7 DEF ReaperInv, AnswerInv
<1> QED BY <1>3, <1>5, <1>6, <1>8, <1>9 DEF ReaperInv

LEMMA ServerSteps ==
  ASSUME ReaperInv, NEW c \in StdioServers, StartServer(c) \/ ReapServer(c) PROVE ReaperInv'
<1>1. CASE StartServer(c)
  <2>1. PICK p \in FreePids : bearer' = [bearer EXCEPT ![p] = c] BY <1>1 DEF StartServer
  <2>2. p \in Pids /\ bearer[p] = NoOne BY DEF FreePids
  <2>3. server' \in [StdioServers -> BOOLEAN] BY <1>1 DEF StartServer, ReaperInv, ReaperTypeOK
  <2> QED BY <1>1, <2>1, <2>2, <2>3, ServersMove DEF StartServer
<1>2. CASE ReapServer(c)
  <2>1. PICK p \in Pids : bearer[p] = c /\ bearer' = [bearer EXCEPT ![p] = NoOne] BY <1>2 DEF ReapServer
  <2>2. server' \in [StdioServers -> BOOLEAN] BY <1>2 DEF ReapServer, ReaperInv, ReaperTypeOK
  <2> QED BY <1>2, <2>1, <2>2, ServersMove DEF ReapServer
<1> QED BY <1>1, <1>2

LEMMA ExitKeeps == ASSUME ReaperInv, NEW c \in Children, Exits(c) PROVE ReaperInv'
<1>1. dead' \subseteq Children /\ UNCHANGED <<bearer, struck, claims, holder, spawn, server, sweep>>
  BY DEF Exits, ReaperInv, ReaperTypeOK
<1>2. ReaperTypeOK' BY <1>1 DEF ReaperInv, ReaperTypeOK
<1>3. LaunchInv' /\ ClaimsInv' BY <1>1 DEF ReaperInv, LaunchInv, ClaimsInv
<1>4. SeenInv' BY <1>1 DEF ReaperInv, SeenInv, Spared
<1>5. AnswerInv' BY <1>1 DEF ReaperInv, AnswerInv
<1> QED BY <1>1, <1>2, <1>3, <1>4, <1>5 DEF ReaperInv

-----------------------------------------------------------------------------
LEMMA SweepFacts ==
  ASSUME ReaperInv, NEW s \in Sweeps
  PROVE  /\ sweep[s].at \in {"idle", "opened", "probed", "skipped", "signals", "done"}
         /\ sweep[s].saw \subseteq Pids \X Children /\ sweep[s].answer \subseteq Pids
BY DEF ReaperInv, ReaperTypeOK

(* A sweep that opens its window or gives up shows nothing yet.            *)
LEMMA WindowMoves == ASSUME ReaperInv, NEW s \in Sweeps, OpenWindow(s) \/ Skip(s) PROVE ReaperInv'
<1>1. UNCHANGED <<bearer, dead, struck, claims, holder, spawn, server>> BY DEF OpenWindow, Skip
<1>2. sweep' \in [Sweeps -> [at : {"idle", "opened", "probed", "skipped", "signals", "done"},
                             saw : SUBSET (Pids \X Children), answer : SUBSET Pids]]
  <2>1. CASE OpenWindow(s) BY <2>1 DEF OpenWindow, ReaperInv, ReaperTypeOK
  <2>2. CASE Skip(s) BY <2>2 DEF Skip, ReaperInv, ReaperTypeOK
  <2> QED BY <2>1, <2>2
<1>3. \A t \in Sweeps : t # s => sweep'[t] = sweep[t]
  BY DEF OpenWindow, Skip, ReaperInv, ReaperTypeOK
<1>4. sweep'[s].at \in {"opened", "skipped"}
  <2>1. CASE OpenWindow(s) BY <2>1 DEF OpenWindow, ReaperInv, ReaperTypeOK
  <2>2. CASE Skip(s) BY <2>2 DEF Skip, ReaperInv, ReaperTypeOK
  <2> QED BY <2>1, <2>2
<1>5. ReaperTypeOK' BY <1>1, <1>2 DEF ReaperInv, ReaperTypeOK
<1>6. LaunchInv' /\ ClaimsInv' BY <1>1 DEF ReaperInv, LaunchInv, ClaimsInv
<1>7. SeenInv' BY <1>1, <1>3, <1>4 DEF ReaperInv, SeenInv, Spared
<1>8. AnswerInv' BY <1>1, <1>3, <1>4 DEF ReaperInv, AnswerInv
<1> QED BY <1>1, <1>5, <1>6, <1>7, <1>8 DEF ReaperInv

(* A daemon that has a pid and is launched already has its claim.          *)
LEMMA LaunchedIsSpared ==
  ASSUME ReaperInv, NEW s \in Sweeps, NEW p \in Pids, bearer[p] \in Spawns
  PROVE  \/ spawn[bearer[p]].at = "launched" /\ spawn[bearer[p]].pid = p
         \/ p \in Spared(s)
<1> DEFINE d == bearer[p]
<1>1. spawn[d].at \in {"launched", "claimed"} /\ spawn[d].pid = p BY DEF ReaperInv, LaunchInv
<1>2. CASE spawn[d].at = "claimed"
  <2>1. claims[p].serial = d BY <1>2 DEF ReaperInv, ClaimsInv
  <2>2. Claimed(claims[p]) BY <2>1, SpawnFacts DEF Claimed
  <2>3. ~claims[p].retired BY <1>2, <2>1, <2>2 DEF ReaperInv, ClaimsInv
  <2> QED BY <2>2, <2>3 DEF Spared
<1> QED BY <1>1, <1>2

LEMMA ProbeKeeps == ASSUME ReaperInv, NEW s \in Sweeps, Probe(s) PROVE ReaperInv'
<1> DEFINE found == {<<p, bearer[p]>> : p \in {q \in Pids \ Baseline : bearer[q] # NoOne}}
<1>1. /\ UNCHANGED <<bearer, dead, struck, claims, holder, spawn, server>>
      /\ sweep' = [sweep EXCEPT ![s].at = "probed", ![s].saw = found]
  BY DEF Probe
<1>2. \A seen \in found : seen[1] \in Pids /\ seen[2] = bearer[seen[1]] /\ seen[2] # Host /\ seen[2] # NoOne
  BY DEF Baseline
<1>3. found \subseteq Pids \X Children BY DEF ReaperInv, ReaperTypeOK
<1> HIDE DEF found
<1>4. /\ \A t \in Sweeps : t # s => sweep'[t] = sweep[t]
      /\ sweep'[s].at = "probed" /\ sweep'[s].saw = found
  BY <1>1 DEF ReaperInv, ReaperTypeOK
<1>5. ReaperTypeOK'
  <2>1. sweep \in [Sweeps -> [at : {"idle", "opened", "probed", "skipped", "signals", "done"},
                              saw : SUBSET (Pids \X Children), answer : SUBSET Pids]]
    BY DEF ReaperInv, ReaperTypeOK
  <2>2. sweep' \in [Sweeps -> [at : {"idle", "opened", "probed", "skipped", "signals", "done"},
                               saw : SUBSET (Pids \X Children), answer : SUBSET Pids]]
    BY <1>1, <1>3, <2>1
  <2> QED BY <1>1, <2>2 DEF ReaperInv, ReaperTypeOK
<1>6. LaunchInv' /\ ClaimsInv' BY <1>1 DEF ReaperInv, LaunchInv, ClaimsInv
<1>7. SeenInv'
  <2>1. \A t \in Sweeps : Spared(t)' = Spared(t) BY <1>1 DEF Spared
  <2>2. ASSUME NEW seen \in found
        PROVE  /\ seen[2] # Host /\ bearer[seen[1]] # Host
               /\ seen[2] \in Spawns =>
                    \/ spawn[seen[2]].at = "launched" /\ spawn[seen[2]].pid = seen[1]
                    \/ seen[1] \in Spared(s)
    BY <1>2, LaunchedIsSpared
  <2>3. \A t \in Sweeps : t # s /\ sweep'[t].at \in {"probed", "signals"} => \A seen \in sweep'[t].saw :
          /\ seen[2] # Host /\ bearer[seen[1]] # Host
          /\ sweep'[t].at = "probed" /\ seen[2] \in Spawns =>
               \/ spawn[seen[2]].at = "launched" /\ spawn[seen[2]].pid = seen[1]
               \/ seen[1] \in Spared(t)
    BY <1>4 DEF ReaperInv, SeenInv
  <2>4. bearer' = bearer /\ spawn' = spawn BY <1>1
  <2>5. sweep'[s].at = "probed" /\ sweep'[s].saw = found BY <1>4
  <2>6. \A t \in Sweeps : t = s \/ t # s OBVIOUS
  <2> QED BY <2>1, <2>2, <2>3, <2>4, <2>5, <2>6 DEF SeenInv
<1>8. AnswerInv' BY <1>1, <1>4 DEF ReaperInv, AnswerInv
<1> QED BY <1>1, <1>5, <1>6, <1>7, <1>8 DEF ReaperInv

LEMMA ReadClaimsKeeps == ASSUME ReaperInv, NEW s \in Sweeps, ReadClaims(s) PROVE ReaperInv'
<1> DEFINE answer == {seen[1] : seen \in sweep[s].saw} \ Spared(s)
<1>1. /\ sweep[s].at = "probed" /\ holder = NoOne /\ claims' = Settled(claims)
      /\ sweep' = [sweep EXCEPT ![s].at = "signals", ![s].answer = answer]
      /\ UNCHANGED <<bearer, dead, struck, holder, spawn, server>>
  BY DEF ReadClaims
<1>2. /\ answer \subseteq Pids /\ \A p \in answer : p \notin Spared(s)
      /\ \A p \in answer : \E seen \in sweep[s].saw : p = seen[1]
  BY SweepFacts
<1> HIDE DEF answer
<1>3. /\ \A t \in Sweeps : t # s => sweep'[t] = sweep[t]
      /\ sweep'[s].at = "signals" /\ sweep'[s].saw = sweep[s].saw /\ sweep'[s].answer = answer
  BY <1>1 DEF ReaperInv, ReaperTypeOK
<1>4. ReaperTypeOK'
  <2>1. claims' \in [Pids -> ReaperClaims] BY <1>1, SettledIsTyped DEF ReaperInv, ReaperTypeOK
  <2>2. sweep \in [Sweeps -> [at : {"idle", "opened", "probed", "skipped", "signals", "done"},
                              saw : SUBSET (Pids \X Children), answer : SUBSET Pids]]
    BY DEF ReaperInv, ReaperTypeOK
  <2>3. sweep' \in [Sweeps -> [at : {"idle", "opened", "probed", "skipped", "signals", "done"},
                               saw : SUBSET (Pids \X Children), answer : SUBSET Pids]]
    <3>1. answer \in SUBSET Pids BY <1>2
    <3> QED BY <1>1, <2>2, <3>1
  <2> QED BY <1>1, <2>1, <2>3 DEF ReaperInv, ReaperTypeOK
<1>5. LaunchInv' BY <1>1 DEF ReaperInv, LaunchInv
<1>6. ClaimsInv' BY <1>1, SettledClaims
\* Nobody launches while the lock is free.
<1>7. \A d \in Spawns : spawn[d].at # "launched" BY <1>1, SpawnFacts DEF ReaperInv, LaunchInv
<1>8. SeenInv'
  <2>1. \A t \in Sweeps : sweep[t].at = "probed" => t \in OpenWindows BY DEF OpenWindows
  <2>2. ASSUME NEW t \in Sweeps, sweep'[t].at \in {"probed", "signals"}, NEW seen \in sweep'[t].saw
        PROVE  /\ seen[2] # Host /\ bearer[seen[1]] # Host
               /\ sweep'[t].at = "probed" /\ seen[2] \in Spawns => seen[1] \in Spared(t)'
    <3>1. seen \in sweep[t].saw /\ sweep[t].at \in {"probed", "signals"} BY <1>1, <1>3, <2>2
    <3>2. seen[2] # Host /\ bearer[seen[1]] # Host BY <3>1 DEF ReaperInv, SeenInv
    <3>3. ASSUME sweep'[t].at = "probed", seen[2] \in Spawns PROVE seen[1] \in Spared(t)'
      <4>1. t # s /\ sweep[t].at = "probed" BY <1>3, <3>3
      <4>2. seen[1] \in Spared(t) BY <1>7, <3>1, <3>3, <4>1 DEF ReaperInv, SeenInv
      <4> QED BY <1>1, <2>1, <4>1, <4>2, SettledSpares
    <3> QED BY <3>2, <3>3
  <2> QED BY <1>1, <2>2 DEF SeenInv
<1>9. AnswerInv'
  <2>1. ASSUME NEW p \in answer PROVE bearer[p] \in StdioServers \cup {NoOne}
    <3>1. PICK seen \in sweep[s].saw : p = seen[1] BY <1>2
    <3>2. p \in Pids /\ bearer[p] # Host BY <1>1, <1>2, <3>1 DEF ReaperInv, SeenInv
    <3>3. bearer[p] \notin Spawns BY <1>2, <1>7, <3>2, LaunchedIsSpared
    <3> QED BY <3>2, <3>3 DEF ReaperInv, ReaperTypeOK, Children
  <2>2. ASSUME NEW seen \in sweep[s].saw, seen[1] \in answer PROVE seen[2] \in StdioServers
    <3>1. seen[2] \in Children BY SweepFacts
    <3>2. seen[2] # Host BY <1>1 DEF ReaperInv, SeenInv
    <3>3. seen[2] \notin Spawns BY <1>1, <1>2, <1>7, <2>2 DEF ReaperInv, SeenInv
    <3> QED BY <3>1, <3>2, <3>3 DEF Children
  <2> QED BY <1>1, <1>3, <2>1, <2>2 DEF ReaperInv, AnswerInv
<1> QED BY <1>1, <1>4, <1>5, <1>6, <1>8, <1>9 DEF ReaperInv

LEMMA SignalKeeps == ASSUME ReaperInv, NEW s \in Sweeps, Signal(s) PROVE ReaperInv'
<1> DEFINE hit == {bearer[p] : p \in sweep[s].answer} \ {NoOne}
<1>1. /\ sweep[s].at = "signals" /\ struck' = struck \cup hit /\ dead' = dead \cup hit
      /\ sweep' = [sweep EXCEPT ![s].at = "done"]
      /\ UNCHANGED <<bearer, claims, holder, spawn, server>>
  BY DEF Signal
<1>2. hit \subseteq StdioServers BY <1>1 DEF ReaperInv, AnswerInv
<1> HIDE DEF hit
<1>3. \A t \in Sweeps : (t # s => sweep'[t] = sweep[t]) /\ sweep'[s].at = "done"
  BY <1>1 DEF ReaperInv, ReaperTypeOK
<1>4. ReaperTypeOK'
  <2>1. sweep' \in [Sweeps -> [at : {"idle", "opened", "probed", "skipped", "signals", "done"},
                               saw : SUBSET (Pids \X Children), answer : SUBSET Pids]]
    BY <1>1 DEF ReaperInv, ReaperTypeOK
  <2>2. struck' \subseteq Children /\ dead' \subseteq Children
    BY <1>1, <1>2 DEF ReaperInv, ReaperTypeOK, Children
  <2> QED BY <1>1, <2>1, <2>2 DEF ReaperInv, ReaperTypeOK
<1>5. LaunchInv' /\ ClaimsInv' BY <1>1 DEF ReaperInv, LaunchInv, ClaimsInv
<1>6. SeenInv' BY <1>1, <1>3 DEF ReaperInv, SeenInv, Spared
<1>7. AnswerInv' BY <1>1, <1>3 DEF ReaperInv, AnswerInv
<1>8. struck' \subseteq StdioServers BY <1>1, <1>2 DEF ReaperInv
<1> QED BY <1>4, <1>5, <1>6, <1>7, <1>8 DEF ReaperInv

LEMMA ReaperSteps == ReaperInv /\ [ReaperNext]_reaperVars => ReaperInv'
<1> SUFFICES ASSUME ReaperInv, [ReaperNext]_reaperVars PROVE ReaperInv'
  OBVIOUS
<1>1. CASE \E d \in Spawns : TakeClaimLock(d) \/ LaunchFails(d) BY <1>1, LockMoves
<1>2. CASE \E d \in Spawns : Launch(d) BY <1>2, LaunchKeeps
<1>3. CASE \E d \in Spawns : Claim(d) BY <1>3, ClaimKeeps
<1>4. CASE \E d \in Spawns : Reap(d) BY <1>4, ReapKeeps
<1>5. CASE \E d \in Spawns : Release(d) BY <1>5, ClaimReleaseKeeps
<1>6. CASE \E c \in StdioServers : StartServer(c) \/ ReapServer(c) BY <1>6, ServerSteps
<1>7. CASE \E c \in Children : Exits(c) BY <1>7, ExitKeeps
<1>8. CASE \E s \in Sweeps : OpenWindow(s) \/ Skip(s) BY <1>8, WindowMoves
<1>9. CASE \E s \in Sweeps : Probe(s) BY <1>9, ProbeKeeps
<1>10. CASE \E s \in Sweeps : ReadClaims(s) BY <1>10, ReadClaimsKeeps
<1>11. CASE \E s \in Sweeps : Signal(s) BY <1>11, SignalKeeps
<1>12. CASE UNCHANGED reaperVars
  <2>1. UNCHANGED <<bearer, dead, struck, claims, holder, spawn, server, sweep>> BY <1>12 DEF reaperVars
  <2>2. ReaperTypeOK' BY <2>1 DEF ReaperInv, ReaperTypeOK
  <2>3. LaunchInv' /\ ClaimsInv' BY <2>1 DEF ReaperInv, LaunchInv, ClaimsInv
  <2>4. SeenInv' BY <2>1 DEF ReaperInv, SeenInv, Spared
  <2>5. AnswerInv' BY <2>1 DEF ReaperInv, AnswerInv
  <2> QED BY <2>1, <2>2, <2>3, <2>4, <2>5 DEF ReaperInv
<1> QED BY <1>1, <1>2, <1>3, <1>4, <1>5, <1>6, <1>7, <1>8, <1>9, <1>10, <1>11, <1>12 DEF ReaperNext

(* A server that an answer spares was given the pid of a daemon whose      *)
(* claim still holds: it was reaped, and if its waiter said so, this sweep *)
(* was looking.                                                            *)
LEMMA ReaperSoundness == ReaperInv => ReaperIsSound
<1> SUFFICES ASSUME ReaperInv PROVE ReaperIsSound
  OBVIOUS
<1>1. OnlyLeaksAreSignalled BY DEF OnlyLeaksAreSignalled, ReaperInv, AnswerInv
<1>2. ASSUME NEW s \in Sweeps, sweep[s].at = "probed", NEW seen \in sweep[s].saw,
             seen[2] \in StdioServers, bearer[seen[1]] = seen[2], seen[1] \in Spared(s)
      PROVE  JustReaped(seen[1], s)
  <2> DEFINE p == seen[1]
             d == claims[p].serial
  <2>1. p \in Pids /\ Claimed(claims[p]) /\ (claims[p].retired => s \in claims[p].within)
    BY <1>2 DEF Spared
  <2>2. /\ d \in Spawns /\ spawn[d].pid = p /\ spawn[d].at \in {"claimed", "reaped", "released"}
        /\ claims[p].retired <=> spawn[d].at = "released"
        /\ claims[p].retired => claims[p].within = spawn[d].within
    BY <2>1, ClaimFacts DEF ReaperInv, ClaimsInv
  <2>3. spawn[d].at # "claimed"
    <3>1. spawn[d].at = "claimed" => bearer[p] = d BY <2>1, <2>2 DEF ReaperInv, LaunchInv
    <3> QED BY <1>2, <2>2, <3>1, SpawnFacts
  <2> HIDE DEF d
  <2> QED BY <2>1, <2>2, <2>3 DEF JustReaped
<1>3. LeaksAreAnswered BY <1>2 DEF LeaksAreAnswered
<1> QED BY <1>1, <1>3 DEF ReaperIsSound
-----------------------------------------------------------------------------
(* The commands on the configuration, for any sources, hosts and servers.  *)

MovesRuns ==
  [op : {"none", "import", "prune", "eject", "remove", "tune", "add"},
   at : {"idle", "picked", "prunes", "deletes", "writes", "adds", "verifies", "drops"},
   data : Rows \cup {Absent}, seen : [Sources -> Slots], todo : SUBSET Managed, done : SUBSET Managed,
   target : Managed \cup {Absent}, payload : Slots, plan : {"none", "write", "skip", "over"},
   loss : BOOLEAN]

(* What a command is about, by where it is.                                *)
RunFits(run) ==
  /\ run.at = "picked" => run.op \in {"import", "remove", "tune", "add"}
  /\ run.at = "picked" /\ run.op = "import" =>
       /\ run.data = Absent /\ Scanned(run.seen) # {}
       /\ \A g, h \in Scanned(run.seen) : run.seen[g].id = run.seen[h].id
  /\ run.at = "picked" /\ run.op \in {"remove", "tune"} => run.data # Absent
  /\ run.at = "picked" /\ run.op = "add" => run.data = Absent /\ run.payload # Absent
  /\ run.at \in {"prunes", "deletes"} =>
       /\ run.op \in {"import", "prune"} /\ run.data # Absent /\ run.todo \subseteq Scanned(run.seen)
       /\ \A h \in Scanned(run.seen) : run.seen[h].id = run.data.id
  /\ run.at = "deletes" => run.todo # {}
  /\ run.at \in {"writes", "adds", "verifies", "drops"} =>
       /\ run.op = "eject" /\ run.data # Absent /\ run.target # Absent
       /\ run.payload # Absent /\ run.payload.id = run.data.id
  /\ run.at = "writes" => run.plan \in {"write", "over"}
  /\ run.at = "adds" => run.plan = "over"

(* It has what STM's file says; what it pruned is backed up, and so is     *)
(* what it is about to prune; and while no host has edited its file the    *)
(* hosts still have what it read or wrote.                                 *)
RunStands(run) ==
  /\ run.data = stm
  /\ \A h \in run.done : \E row \in backups : row.source = h
  /\ run.at = "deletes" =>
       [source |-> First(run.todo), original |-> run.seen[First(run.todo)]] \in backups
  /\ run.at = "picked" /\ run.op = "import" /\ ~edited =>
       \A h \in Scanned(run.seen) : host[h] = run.seen[h]
  /\ run.at \in {"prunes", "deletes"} /\ ~edited => \A h \in run.todo : host[h] = run.seen[h]
  /\ run.at = "writes" /\ run.plan = "write" /\ ~edited => host[run.target] = Absent
  /\ run.at \in {"verifies", "drops"} /\ ~edited =>
       host[run.target] # Absent /\ host[run.target].id = run.payload.id
  /\ run.at = "drops" /\ ~run.loss /\ ~edited => host[run.target] = run.payload

(* STM's row: what it marks as pruned is backed up, and the entry it came  *)
(* from is of the same server.                                             *)
RowStands ==
  stm # Absent =>
    /\ \A h \in stm.origin.pruned : \E row \in backups : row.source = h
    /\ stm.origin.original # Absent => stm.origin.original.id = stm.id

MovesInv ==
  /\ MovesTypeOK /\ cmd \in [Commands -> MovesRuns] /\ RowStands
  /\ \A p \in Commands :
       \/ cmd[p] = NoCommand
       \/ lock = p /\ cmd[p].at # "idle" /\ RunFits(cmd[p]) /\ RunStands(cmd[p])

LEMMA LeastIndex ==
  ASSUME NEW T \in SUBSET Nat, T # {} PROVE \E i \in T : \A j \in T : i <= j
<1> DEFINE R == OpToRel(<, Nat)
<1>1. IsWellFoundedOn(R, Nat) BY NatLessThanWellFounded
<1>2. \A i, j \in Nat : j < i => <<j, i>> \in R BY Zenon DEF OpToRel
<1> HIDE DEF R
<1>3. PICK i \in T : \A j \in T : ~(<<j, i>> \in R) BY <1>1, WFMin
<1>4. ASSUME NEW j \in T PROVE i <= j
  <2>1. i \in Nat /\ j \in Nat /\ ~(j < i) BY <1>2, <1>3
  <2> QED BY <2>1
<1> QED BY <1>4

LEMMA FirstIsIn == ASSUME NEW S \in SUBSET Sources, S # {} PROVE First(S) \in S
<1> DEFINE T == {i \in 1..Len(Order) : Order[i] \in S}
<1>1. T \in SUBSET Nat /\ T # {} BY MovesAssumption DEF Sources
<1>2. PICK i \in T : \A j \in T : i <= j BY <1>1, LeastIndex
<1>3. \E k \in 1..Len(Order) : Order[k] \in S /\ \A j \in 1..Len(Order) : Order[j] \in S => k <= j
  BY <1>2
<1> QED BY <1>3 DEF First

LEMMA PrimaryIsFound ==
  ASSUME Registered # {} PROVE Primary \in Sources /\ host[Primary] # Absent
<1>1. Registered \in SUBSET Nat BY MovesAssumption DEF Registered
<1>2. PICK i \in Registered : \A j \in Registered : i <= j BY <1>1, LeastIndex
<1>3. \E k \in Registered : Primary = Order[k] BY <1>2 DEF Primary
<1> QED BY <1>3 DEF Registered, Sources

LEMMA ScanFinds ==
  ASSUME MovesTypeOK, Registered # {}
  PROVE  /\ Scan \in [Sources -> Slots] /\ Primary \in Scanned(Scan)
         /\ \A h \in Scanned(Scan) : /\ h \in Sources /\ Scan[h] = host[h] /\ host[h] # Absent
                                     /\ host[h].id = host[Primary].id
<1>1. Absent \in Slots BY DEF Slots
<1>2. \A h \in Sources : host[h] \in Slots BY DEF MovesTypeOK
<1>3. Scan \in [Sources -> Slots] BY <1>1, <1>2 DEF Scan
<1>4. \A h \in Sources :
        Scan[h] = IF host[h] # Absent /\ host[h].id = host[Primary].id THEN host[h] ELSE Absent
  BY DEF Scan
<1> QED BY <1>3, <1>4, PrimaryIsFound DEF Scanned

LEMMA EntryFacts ==
  ASSUME NEW e \in Slots, e # Absent PROVE e \in Entries /\ e.id \in Servers
BY DEF Slots, Entries

LEMMA SourceFacts == Managed \subseteq Sources /\ Absent \notin Sources /\ Shell \subseteq Managed
BY MovesAssumption DEF Managed

LEMMA NoCommandIsTyped ==
  /\ NoCommand \in MovesRuns /\ NoCommand.at = "idle" /\ NoCommand.op = "none"
  /\ NoCommand.data = Absent /\ NoCommand.done = {} /\ NoCommand.todo = {} /\ NoCommand.plan = "none"
  /\ NoCommand.payload = Absent /\ NoCommand.target = Absent /\ NoCommand.loss = FALSE
<1>1. NoCommand \in MovesRuns BY DEF NoCommand, MovesRuns, Slots
<1> QED BY <1>1 DEF NoCommand

LEMMA RunFacts ==
  ASSUME MovesInv, NEW p \in Commands
  PROVE  /\ cmd[p] \in MovesRuns
         /\ cmd[p].at # "idle" =>
              /\ lock = p /\ RunFits(cmd[p]) /\ RunStands(cmd[p])
              /\ \A q \in Commands : q # p => cmd[q] = NoCommand
BY NoCommandIsTyped DEF MovesInv

(* A command moves: the others have none, and it is to be what it should.  *)
LEMMA CommandMoves ==
  ASSUME MovesInv, NEW p \in Commands, cmd' \in [Commands -> MovesRuns],
         \A q \in Commands : q # p => cmd[q] = NoCommand /\ cmd'[q] = cmd[q],
         MovesTypeOK', RowStands',
         \/ cmd'[p] = NoCommand
         \/ (lock = p /\ cmd[p].at # "idle" /\ RunFits(cmd[p]) /\ RunStands(cmd[p]))'
  PROVE  MovesInv'
<1>1. \A q \in Commands : q # p => cmd'[q] = NoCommand' BY DEF NoCommand
<1>2. NoCommand' = NoCommand BY DEF NoCommand
<1> QED BY <1>1, <1>2 DEF MovesInv

(* A command that ends, whatever it saved.                                 *)
LEMMA EndKeeps ==
  ASSUME MovesInv, NEW p \in Commands, cmd[p].at # "idle", End(p),
         host' \in [Sources -> Slots], stm' \in Rows \cup {Absent},
         backups' = backups, RowStands'
  PROVE  MovesInv'
<1>1. /\ cmd' = [cmd EXCEPT ![p] = NoCommand] /\ lock' \in Commands \cup {Absent}
      /\ UNCHANGED <<ran, edits, edited>>
  BY DEF End, MovesInv, MovesTypeOK
<1>2. cmd' \in [Commands -> MovesRuns] /\ cmd'[p] = NoCommand
  BY <1>1, NoCommandIsTyped DEF MovesInv
<1>3. \A q \in Commands : q # p => cmd[q] = NoCommand /\ cmd'[q] = cmd[q]
  BY <1>1, RunFacts DEF MovesInv
<1>4. MovesTypeOK' BY <1>1 DEF MovesInv, MovesTypeOK
<1> QED BY <1>2, <1>3, <1>4, CommandMoves

(* A command that goes on, holding the lock.                               *)
LEMMA StepKeeps ==
  ASSUME MovesInv, NEW p \in Commands, NEW run \in MovesRuns, cmd[p].at # "idle", Step(p, run),
         host' \in [Sources -> Slots], stm' \in Rows \cup {Absent},
         backups' \subseteq [source : Managed, original : Entries],
         RowStands', run.at # "idle", RunFits(run),
         (cmd[p] = run)' => RunStands(cmd[p])'
  PROVE  MovesInv'
<1>1. cmd' = [cmd EXCEPT ![p] = run] /\ UNCHANGED <<lock, ran, edits, edited>> BY DEF Step
<1>2. cmd' \in [Commands -> MovesRuns] /\ cmd'[p] = run BY <1>1 DEF MovesInv
<1>3. \A q \in Commands : q # p => cmd[q] = NoCommand /\ cmd'[q] = cmd[q]
  BY <1>1, RunFacts DEF MovesInv
<1>4. MovesTypeOK' BY <1>1 DEF MovesInv, MovesTypeOK
<1>5. lock' = p BY <1>1, RunFacts
<1>6. RunFits(cmd[p])' BY <1>2 DEF RunFits, Scanned
<1> QED BY <1>2, <1>3, <1>4, <1>5, <1>6, CommandMoves

LEMMA BeginKeeps ==
  ASSUME MovesInv, NEW p \in Commands, NEW run \in MovesRuns, BeginCommand(p, run),
         UNCHANGED <<host, stm, backups>>, run.at # "idle", RunFits(run),
         (cmd[p] = run /\ edited = FALSE)' => RunStands(cmd[p])'
  PROVE  MovesInv'
<1>1. /\ lock = Absent /\ cmd[p] = NoCommand /\ lock' = p /\ ran' = ran + 1 /\ ran < MaxCommands
      /\ edited' = FALSE /\ cmd' = [cmd EXCEPT ![p] = run]
      /\ UNCHANGED <<host, stm, backups, edits>>
  BY DEF BeginCommand, Locked
<1>2. cmd' \in [Commands -> MovesRuns] /\ cmd'[p] = run BY <1>1 DEF MovesInv
<1>3. \A q \in Commands : q # p => cmd[q] = NoCommand /\ cmd'[q] = cmd[q]
  BY <1>1, MovesAssumption DEF MovesInv
<1>4. ran' \in 0..MaxCommands BY <1>1, MovesAssumption DEF MovesInv, MovesTypeOK
<1>5. MovesTypeOK' BY <1>1, <1>4 DEF MovesInv, MovesTypeOK
<1>6. RowStands' BY <1>1 DEF MovesInv, RowStands
<1>7. RunFits(cmd[p])' BY <1>2 DEF RunFits, Scanned
<1> QED BY <1>1, <1>2, <1>3, <1>5, <1>6, <1>7, CommandMoves

LEMMA RowFacts ==
  ASSUME NEW r \in Rows
  PROVE  /\ r # Absent /\ r.id \in Servers /\ r.tuned \in BOOLEAN
         /\ r.origin.kind \in Sources \cup {Absent} /\ r.origin.original \in Slots
         /\ r.origin.rows \subseteq Sources /\ r.origin.pruned \subseteq Sources
BY MovesAssumption DEF Rows

LEMMA ImportStartsKeeps == ASSUME MovesInv, NEW p \in Commands, ImportStarts(p) PROVE MovesInv'
<1>1. /\ stm = Absent /\ Registered # {}
      /\ BeginCommand(p, [NoCommand EXCEPT !.op = "import", !.at = "picked", !.seen = Scan])
  BY DEF ImportStarts
<1>2. Scan \in [Sources -> Slots] BY <1>1, ScanFinds DEF MovesInv
<1>3. [NoCommand EXCEPT !.op = "import", !.at = "picked", !.seen = Scan] \in MovesRuns
  BY <1>2, NoCommandIsTyped DEF MovesRuns
<1>4. PICK run \in MovesRuns : run = [NoCommand EXCEPT !.op = "import", !.at = "picked", !.seen = Scan]
  BY <1>3
<1>5. /\ run.op = "import" /\ run.at = "picked" /\ run.seen = Scan
      /\ run.data = Absent /\ run.done = {}
  BY <1>4, NoCommandIsTyped DEF MovesRuns
<1>6. UNCHANGED <<host, stm, backups>> BY <1>1 DEF BeginCommand
<1>7. RunFits(run) BY <1>1, <1>5, ScanFinds DEF RunFits, MovesInv
<1>8. \A h \in Scanned(run.seen) : host[h] = run.seen[h] BY <1>1, <1>5, ScanFinds DEF MovesInv
<1>9. (cmd[p] = run /\ edited = FALSE)' => RunStands(cmd[p])'
  BY <1>1, <1>5, <1>6, <1>8 DEF RunStands, Scanned
<1> QED BY <1>1, <1>4, <1>5, <1>6, <1>7, <1>9, BeginKeeps

LEMMA PruneStartsKeeps == ASSUME MovesInv, NEW p \in Commands, PruneStarts(p) PROVE MovesInv'
<1> DEFINE r == [NoCommand EXCEPT !.op = "prune", !.at = "prunes", !.data = stm, !.seen = Scan,
                                  !.todo = Scanned(Scan) \ Unmanaged]
<1>1. stm # Absent /\ Registered # {} /\ host[Primary].id = stm.id /\ BeginCommand(p, r)
  BY DEF PruneStarts
<1>2. /\ Scan \in [Sources -> Slots] /\ stm \in Rows \cup {Absent}
      /\ Scanned(Scan) \ Unmanaged \in SUBSET Managed
  BY <1>1, ScanFinds DEF MovesInv, MovesTypeOK, Managed
<1>3. r \in MovesRuns BY <1>2, NoCommandIsTyped DEF MovesRuns
<1>4. PICK run \in MovesRuns : run = r BY <1>3
<1>5. /\ run.op = "prune" /\ run.at = "prunes" /\ run.data = stm /\ run.seen = Scan
      /\ run.todo = Scanned(Scan) \ Unmanaged /\ run.done = {}
  BY <1>4, NoCommandIsTyped DEF MovesRuns
<1> HIDE DEF r
<1>6. UNCHANGED <<host, stm, backups>> BY <1>1 DEF BeginCommand
<1>7. RunFits(run) BY <1>1, <1>5, ScanFinds DEF RunFits, MovesInv
<1>8. \A h \in run.todo : host[h] = run.seen[h] BY <1>1, <1>5, ScanFinds DEF MovesInv
<1>9. (cmd[p] = run /\ edited = FALSE)' => RunStands(cmd[p])' BY <1>5, <1>6, <1>8 DEF RunStands
<1> QED BY <1>1, <1>4, <1>5, <1>6, <1>7, <1>9, BeginKeeps

LEMMA ImportSavesKeeps == ASSUME MovesInv, NEW p \in Commands, ImportSaves(p) PROVE MovesInv'
<1> DEFINE old == cmd[p]
           seen == cmd[p].seen
           f == First(Scanned(seen))
           row == Row(seen[f].id, Origin(seen))
           r == [old EXCEPT !.at = "prunes", !.data = row, !.todo = Scanned(seen) \ Unmanaged]
<1>1. /\ old.at = "picked" /\ old.op = "import" /\ stm' = row /\ Step(p, r)
      /\ UNCHANGED <<host, backups>>
  BY DEF ImportSaves, Reached, Save
<1>2. old \in MovesRuns /\ RunFits(old) /\ RunStands(old) BY <1>1, RunFacts
<1>3. /\ seen \in [Sources -> Slots] /\ Scanned(seen) # {} /\ Scanned(seen) \subseteq Sources
      /\ \A g, h \in Scanned(seen) : seen[g].id = seen[h].id
  BY <1>1, <1>2 DEF MovesRuns, RunFits, Scanned
<1>4. f \in Scanned(seen) BY <1>3, FirstIsIn
<1>5. seen[f] \in Entries /\ seen[f].id \in Servers /\ seen[f] # Absent
  BY <1>3, <1>4, EntryFacts DEF Scanned
<1>6. row = [id |-> seen[f].id, tuned |-> FALSE,
             origin |-> [kind |-> f, original |-> seen[f], rows |-> Scanned(seen), pruned |-> {}]]
  BY DEF Row, Origin
<1> HIDE DEF row
<1>7. row \in Rows /\ row.id = seen[f].id /\ row.origin.pruned = {} /\ row.origin.original = seen[f]
  BY <1>3, <1>4, <1>5, <1>6 DEF Rows, Slots
<1>8. Scanned(seen) \ Unmanaged \in SUBSET Managed BY <1>3 DEF Managed
<1>9. r \in MovesRuns BY <1>2, <1>7, <1>8 DEF MovesRuns
<1>10. PICK run \in MovesRuns : run = r BY <1>9
<1>11. /\ run.op = "import" /\ run.at = "prunes" /\ run.data = row /\ run.seen = seen
       /\ run.todo = Scanned(seen) \ Unmanaged /\ run.done = old.done
  BY <1>1, <1>2, <1>10 DEF MovesRuns
<1> HIDE DEF r
<1>12. RunFits(run)
  <2>1. row # Absent BY <1>7, RowFacts
  <2>2. \A h \in Scanned(seen) : seen[h].id = row.id BY <1>3, <1>4, <1>7
  <2> HIDE DEF seen
  <2> QED BY <1>11, <2>1, <2>2 DEF RunFits
<1>13. RowStands' BY <1>1, <1>5, <1>7 DEF RowStands
<1>14. (cmd[p] = run)' => RunStands(cmd[p])'
  <2>1. ~edited => \A h \in Scanned(seen) : host[h] = seen[h] BY <1>1, <1>2 DEF RunStands
  <2>2. \A h \in old.done : \E b \in backups : b.source = h BY <1>2 DEF RunStands
  <2>3. edited' = edited BY <1>1 DEF Step
  <2> QED BY <1>1, <1>11, <2>1, <2>2, <2>3 DEF RunStands
<1>15. /\ host' \in [Sources -> Slots] /\ stm' \in Rows \cup {Absent}
       /\ backups' \subseteq [source : Managed, original : Entries]
  BY <1>1, <1>7 DEF MovesInv, MovesTypeOK
<1>16. Step(p, run) /\ cmd[p].at # "idle" BY <1>1, <1>10
<1> QED BY <1>11, <1>12, <1>13, <1>14, <1>15, <1>16, StepKeeps

LEMMA BacksUpKeeps == ASSUME MovesInv, NEW p \in Commands, BacksUp(p) PROVE MovesInv'
<1> DEFINE old == cmd[p]
           h == First(cmd[p].todo)
           b == [source |-> h, original |-> cmd[p].seen[h]]
<1>1. old.at = "prunes" /\ old.todo # {} /\ UNCHANGED <<host, stm>> BY DEF BacksUp, Reached
<1>2. old \in MovesRuns /\ RunFits(old) /\ RunStands(old) BY <1>1, RunFacts
<1>3. old.todo \subseteq Managed /\ old.seen \in [Sources -> Slots] BY <1>2 DEF MovesRuns
<1>4. h \in old.todo BY <1>1, <1>3, SourceFacts, FirstIsIn
<1>5. b \in [source : Managed, original : Entries]
  <2>1. h \in Scanned(old.seen) BY <1>1, <1>2, <1>4 DEF RunFits
  <2>2. old.seen[h] \in Entries BY <1>3, <2>1, EntryFacts DEF Scanned
  <2> QED BY <1>3, <1>4, <2>2
<1>6. host' \in [Sources -> Slots] /\ stm' \in Rows \cup {Absent}
  BY <1>1 DEF MovesInv, MovesTypeOK
<1>7. CASE backups' = backups \cup {b} /\ Step(p, [old EXCEPT !.at = "deletes"])
  <2>1. [old EXCEPT !.at = "deletes"] \in MovesRuns BY <1>2 DEF MovesRuns
  <2>2. PICK run \in MovesRuns : run = [old EXCEPT !.at = "deletes"] BY <2>1
  <2>3. /\ run.op = old.op /\ run.at = "deletes" /\ run.data = old.data /\ run.seen = old.seen
        /\ run.todo = old.todo /\ run.done = old.done
    BY <1>2, <2>2 DEF MovesRuns
  <2>4. RunFits(run) BY <1>1, <1>2, <2>3 DEF RunFits
  <2>5. RowStands' BY <1>1, <1>7 DEF MovesInv, RowStands
  <2>6. (cmd[p] = run)' => RunStands(cmd[p])'
    <3>1. b \in backups' BY <1>7
    <3>2. edited' = edited BY <1>7 DEF Step
    <3>3. \A g \in old.done : \E c \in backups' : c.source = g BY <1>2, <1>7 DEF RunStands
    <3>4. First(run.todo)' = First(run.todo) BY DEF First
    <3> QED BY <1>1, <1>2, <2>3, <3>1, <3>2, <3>3, <3>4 DEF RunStands
  <2>7. backups' \subseteq [source : Managed, original : Entries]
    BY <1>5, <1>7 DEF MovesInv, MovesTypeOK
  <2> QED BY <1>1, <1>6, <1>7, <2>2, <2>3, <2>4, <2>5, <2>6, <2>7, StepKeeps
<1>8. CASE Step(p, Skipped(old, h)) /\ UNCHANGED backups
  <2> DEFINE r == [old EXCEPT !.todo = old.todo \ {h}]
  <2>1. Skipped(old, h) = r BY DEF Skipped
  <2>2. old.todo \ {h} \in SUBSET Managed BY <1>3
  <2>3. r \in MovesRuns BY <1>2, <2>2 DEF MovesRuns
  <2>4. PICK run \in MovesRuns : run = r BY <2>3
  <2>5. /\ run.op = old.op /\ run.at = "prunes" /\ run.data = old.data /\ run.seen = old.seen
        /\ run.todo = old.todo \ {h} /\ run.done = old.done
    BY <1>1, <1>2, <2>4 DEF MovesRuns
  <2> HIDE DEF r
  <2>6. RunFits(run) BY <1>1, <1>2, <2>5 DEF RunFits
  <2>7. RowStands' BY <1>1, <1>8 DEF MovesInv, RowStands
  <2>8. (cmd[p] = run)' => RunStands(cmd[p])'
    <3>1. edited' = edited BY <1>8 DEF Step
    <3>2. \A g \in old.done : \E c \in backups' : c.source = g BY <1>2, <1>8 DEF RunStands
    <3>3. ~edited => \A g \in old.todo : host[g] = old.seen[g] BY <1>1, <1>2 DEF RunStands
    <3>4. old.data = stm BY <1>2 DEF RunStands
    <3> QED BY <1>1, <1>8, <2>5, <3>1, <3>2, <3>3, <3>4 DEF RunStands
  <2>9. backups' \subseteq [source : Managed, original : Entries]
    BY <1>8 DEF MovesInv, MovesTypeOK
  <2> QED BY <1>1, <1>6, <1>8, <2>1, <2>4, <2>5, <2>6, <2>7, <2>8, <2>9, StepKeeps
<1> QED BY <1>7, <1>8 DEF BacksUp

(* A delete that went through, or did not, or that was killed after it.    *)
LEMMA DeletesShape ==
  ASSUME MovesInv, NEW p \in Commands, Deletes(p)
  PROVE  LET h == First(cmd[p].todo) IN
         /\ cmd[p].at = "deletes" /\ h \in cmd[p].todo /\ UNCHANGED <<stm, backups>>
         /\ host' = host \/ host' = [host EXCEPT ![h] = Absent]
         /\ \E done \in {cmd[p].done, cmd[p].done \cup {h}} :
              Step(p, [cmd[p] EXCEPT !.at = "prunes", !.todo = cmd[p].todo \ {h}, !.done = done])
<1> DEFINE old == cmd[p]
           h == First(cmd[p].todo)
           tried == [old EXCEPT !.at = "prunes", !.todo = old.todo \ {h}]
<1>1. old.at = "deletes" /\ UNCHANGED <<stm, backups>> BY DEF Deletes, Reached
<1>2. old \in MovesRuns /\ RunFits(old) BY <1>1, RunFacts
<1>3. old.todo \subseteq Managed /\ old.todo # {} BY <1>1, <1>2 DEF MovesRuns, RunFits
<1>4. h \in old.todo BY <1>3, SourceFacts, FirstIsIn
<1>5. tried = [old EXCEPT !.at = "prunes", !.todo = old.todo \ {h}, !.done = old.done]
  BY <1>2 DEF MovesRuns
<1>6. [tried EXCEPT !.done = tried.done \cup {h}]
        = [old EXCEPT !.at = "prunes", !.todo = old.todo \ {h}, !.done = old.done \cup {h}]
  BY <1>2 DEF MovesRuns
<1>7. \/ Step(p, tried) /\ (host' = host \/ host' = [host EXCEPT ![h] = Absent])
      \/ Step(p, [tried EXCEPT !.done = tried.done \cup {h}]) /\ host' = [host EXCEPT ![h] = Absent]
  BY DEF Deletes
<1> HIDE DEF tried
<1>8. CASE Step(p, tried) BY <1>1, <1>4, <1>5, <1>7, <1>8
<1>9. CASE Step(p, [tried EXCEPT !.done = tried.done \cup {h}]) BY <1>1, <1>4, <1>6, <1>7, <1>9
<1> QED BY <1>7, <1>8, <1>9

LEMMA DeletesKeeps == ASSUME MovesInv, NEW p \in Commands, Deletes(p) PROVE MovesInv'
<1> DEFINE old == cmd[p]
           h == First(cmd[p].todo)
<1>1. /\ old.at = "deletes" /\ h \in old.todo /\ UNCHANGED <<stm, backups>>
      /\ host' = host \/ host' = [host EXCEPT ![h] = Absent]
  BY DeletesShape
<1>2. PICK done \in {old.done, old.done \cup {h}} :
        Step(p, [old EXCEPT !.at = "prunes", !.todo = old.todo \ {h}, !.done = done])
  BY DeletesShape
<1>3. old \in MovesRuns /\ RunFits(old) /\ RunStands(old) BY <1>1, RunFacts
<1>4. old.todo \subseteq Managed /\ old.done \subseteq Managed BY <1>3 DEF MovesRuns
<1> DEFINE r == [old EXCEPT !.at = "prunes", !.todo = old.todo \ {h}, !.done = done]
<1>5. r \in MovesRuns
  <2>1. old.todo \ {h} \in SUBSET Managed /\ done \in SUBSET Managed BY <1>1, <1>2, <1>4
  <2> QED BY <1>3, <2>1 DEF MovesRuns
<1>6. PICK run \in MovesRuns : run = r BY <1>5
<1>7. /\ run.op = old.op /\ run.at = "prunes" /\ run.data = old.data /\ run.seen = old.seen
      /\ run.todo = old.todo \ {h} /\ run.done = done
  BY <1>3, <1>6 DEF MovesRuns
<1> HIDE DEF r, h, old
<1>8. RunFits(run) BY <1>1, <1>3, <1>7 DEF RunFits
<1>9. RowStands' BY <1>1 DEF MovesInv, RowStands
<1>10. (cmd[p] = run)' => RunStands(cmd[p])'
  <2>1. edited' = edited BY <1>2 DEF Step
  <2>2. \A g \in done : \E b \in backups : b.source = g
    <3>1. [source |-> h, original |-> old.seen[h]] \in backups BY <1>1, <1>3 DEF RunStands, h, old
    <3>2. \E b \in backups : b.source = h BY <3>1
    <3>3. \A g \in old.done : \E b \in backups : b.source = g BY <1>3 DEF RunStands
    <3> QED BY <1>2, <3>2, <3>3
  <2>3. ~edited => \A g \in old.todo \ {h} : host'[g] = old.seen[g]
    <3>1. ~edited => \A g \in old.todo : host[g] = old.seen[g] BY <1>1, <1>3 DEF RunStands
    <3>2. \A g \in old.todo \ {h} : host'[g] = host[g]
      BY <1>1, <1>4, SourceFacts DEF MovesInv, MovesTypeOK
    <3> QED BY <3>1, <3>2
  <2>4. old.data = stm BY <1>3 DEF RunStands
  <2> QED BY <1>1, <1>7, <2>1, <2>2, <2>3, <2>4 DEF RunStands
<1>11. /\ host' \in [Sources -> Slots] /\ stm' \in Rows \cup {Absent}
       /\ backups' \subseteq [source : Managed, original : Entries]
  BY <1>1 DEF MovesInv, MovesTypeOK, Slots
<1>12. Step(p, run) /\ cmd[p].at # "idle" BY <1>1, <1>2, <1>6 DEF r, old
<1> QED BY <1>7, <1>8, <1>9, <1>10, <1>11, <1>12, StepKeeps

LEMMA PruneEndsKeeps == ASSUME MovesInv, NEW p \in Commands, PruneEnds(p) PROVE MovesInv'
<1> DEFINE old == cmd[p]
           row == [cmd[p].data EXCEPT !.origin.pruned = Marked(cmd[p])]
<1>1. old.at = "prunes" /\ stm' = row /\ End(p) /\ UNCHANGED <<host, backups>>
  BY DEF PruneEnds, Reached, Save
<1>2. old \in MovesRuns /\ RunFits(old) /\ RunStands(old) BY <1>1, RunFacts
<1>3. old.data \in Rows /\ old.data = stm BY <1>1, <1>2 DEF RunFits, RunStands, MovesRuns
<1>4. Marked(old) = stm.origin.pruned \cup (old.done \cap stm.origin.rows) BY <1>3 DEF Marked
<1>5. Marked(old) \in SUBSET Sources BY <1>3, <1>4, RowFacts
<1>6. row \in Rows BY <1>3, <1>5 DEF Rows
<1>7. row.id = stm.id /\ row.origin.original = stm.origin.original /\ row.origin.pruned = Marked(old)
  BY <1>3 DEF Rows
<1> HIDE DEF row
<1>8. RowStands'
  <2>1. stm # Absent BY <1>3, RowFacts
  <2>2. \A g \in old.done : \E b \in backups : b.source = g BY <1>2 DEF RunStands
  <2> QED BY <1>1, <1>4, <1>7, <2>1, <2>2 DEF MovesInv, RowStands
<1>9. host' \in [Sources -> Slots] /\ stm' \in Rows \cup {Absent} /\ cmd[p].at # "idle"
  BY <1>1, <1>6 DEF MovesInv, MovesTypeOK
<1> QED BY <1>1, <1>8, <1>9, EndKeeps

LEMMA PayloadFacts ==
  ASSUME MovesInv, stm # Absent
  PROVE  Payload \in Entries /\ Payload \in Slots /\ Payload # Absent /\ Payload.id = stm.id
<1>1. stm \in Rows BY DEF MovesInv, MovesTypeOK
<1>2. CASE stm.origin.original # Absent
  BY <1>1, <1>2, RowFacts, EntryFacts DEF Payload, MovesInv, RowStands
<1>3. CASE stm.origin.original = Absent
  <2>1. Payload = [id |-> stm.id, extra |-> FALSE] BY <1>3 DEF Payload
  <2>2. Payload \in Entries BY <1>1, <2>1, RowFacts DEF Entries
  <2> QED BY <2>1, <2>2, MovesAssumption DEF Slots
<1> QED BY <1>2, <1>3

LEMMA EjectStartsKeeps == ASSUME MovesInv, NEW p \in Commands, EjectStarts(p) PROVE MovesInv'
<1>1. stm # Absent /\ stm \in Rows BY DEF EjectStarts, MovesInv, MovesTypeOK
<1> DEFINE R(target, plan) ==
             [NoCommand EXCEPT !.op = "eject", !.at = IF plan = "skip" THEN "verifies" ELSE "writes",
                               !.data = stm, !.target = target, !.payload = Payload, !.plan = plan]
<1>2. PICK target \in EjectTargets, plan \in {"write", "skip", "over"} :
        /\ (plan = "write") <=> (host[target] = Absent)
        /\ host[target] # Absent => ((plan = "skip") <=> (host[target].id = Payload.id))
        /\ BeginCommand(p, R(target, plan))
  BY DEF EjectStarts
<1>3. target \in Managed BY DEF EjectTargets
<1>4. R(target, plan) \in MovesRuns
  <2>1. (IF plan = "skip" THEN "verifies" ELSE "writes") \in {"verifies", "writes"} OBVIOUS
  <2> QED BY <1>1, <1>2, <1>3, <2>1, NoCommandIsTyped, PayloadFacts DEF MovesRuns
<1>5. PICK run \in MovesRuns : run = R(target, plan) BY <1>4
<1>6. /\ run.op = "eject" /\ run.at = IF plan = "skip" THEN "verifies" ELSE "writes"
      /\ run.data = stm /\ run.target = target /\ run.payload = Payload /\ run.plan = plan
      /\ run.done = {}
  BY <1>5, NoCommandIsTyped DEF MovesRuns
<1> HIDE DEF R
<1>7. UNCHANGED <<host, stm, backups>> BY <1>2 DEF BeginCommand
<1>8. target # Absent BY <1>3, SourceFacts
<1>9. RunFits(run) BY <1>1, <1>2, <1>6, <1>8, PayloadFacts DEF RunFits
<1>10. (cmd[p] = run /\ edited = FALSE)' => RunStands(cmd[p])' BY <1>2, <1>6, <1>7 DEF RunStands
<1>11. run.at # "idle" BY <1>6
<1> QED BY <1>2, <1>5, <1>7, <1>9, <1>10, <1>11, BeginKeeps

(* eject writes or checks: it stays about the same entry.                  *)
LEMMA EjectGoesOn ==
  ASSUME MovesInv, NEW p \in Commands, cmd[p].at \in {"writes", "adds", "verifies"},
         NEW at \in {"adds", "verifies", "drops"}, NEW loss \in BOOLEAN,
         Step(p, [cmd[p] EXCEPT !.at = at, !.loss = loss]),
         host' \in [Sources -> Slots], UNCHANGED <<stm, backups>>,
         at = "adds" => cmd[p].plan = "over",
         at \in {"verifies", "drops"} /\ ~edited =>
           host'[cmd[p].target] # Absent /\ host'[cmd[p].target].id = cmd[p].payload.id,
         at = "drops" /\ ~loss /\ ~edited => host'[cmd[p].target] = cmd[p].payload
  PROVE  MovesInv'
<1> DEFINE old == cmd[p]
           r == [old EXCEPT !.at = at, !.loss = loss]
<1>1. old \in MovesRuns /\ RunFits(old) /\ RunStands(old) BY RunFacts
<1>2. r \in MovesRuns BY <1>1 DEF MovesRuns
<1>3. PICK run \in MovesRuns : run = r BY <1>2
<1>4. /\ run.op = old.op /\ run.at = at /\ run.data = old.data /\ run.target = old.target
      /\ run.payload = old.payload /\ run.plan = old.plan /\ run.done = old.done /\ run.loss = loss
  BY <1>1, <1>3 DEF MovesRuns
<1>5. Step(p, run) BY <1>3
<1> HIDE DEF r, old
<1>6. RunFits(run) BY <1>1, <1>4 DEF RunFits, old
<1>7. RowStands' BY DEF MovesInv, RowStands
<1>8. (cmd[p] = run)' => RunStands(cmd[p])'
  <2>1. edited' = edited BY <1>5 DEF Step
  <2>2. \A g \in old.done : \E b \in backups : b.source = g BY <1>1 DEF RunStands
  <2>3. old.data = stm BY <1>1 DEF RunStands
  <2> QED BY <1>4, <2>1, <2>2, <2>3 DEF RunStands, old
<1>9. stm' \in Rows \cup {Absent} /\ backups' \subseteq [source : Managed, original : Entries]
  BY DEF MovesInv, MovesTypeOK
<1> QED BY <1>4, <1>5, <1>6, <1>7, <1>8, <1>9, StepKeeps

LEMMA EndQuietly ==
  ASSUME MovesInv, NEW p \in Commands, cmd[p].at # "idle", End(p), host' \in [Sources -> Slots],
         UNCHANGED <<stm, backups>>
  PROVE  MovesInv'
<1>1. RowStands' /\ stm' \in Rows \cup {Absent} BY DEF MovesInv, RowStands, MovesTypeOK
<1> QED BY <1>1, EndKeeps

(* What an eject is about.                                                 *)
LEMMA EjectFacts ==
  ASSUME MovesInv, NEW p \in Commands, cmd[p].at \in {"writes", "adds", "verifies", "drops"}
  PROVE  /\ cmd[p] \in MovesRuns /\ cmd[p].op = "eject" /\ RunStands(cmd[p])
         /\ cmd[p].target \in Managed /\ cmd[p].target \in Sources
         /\ cmd[p].payload \in Entries /\ cmd[p].payload # Absent
         /\ cmd[p].data = stm /\ stm \in Rows /\ stm # Absent /\ cmd[p].payload.id = stm.id
         /\ cmd[p].at = "writes" => cmd[p].plan \in {"write", "over"}
         /\ cmd[p].at = "adds" => cmd[p].plan = "over"
<1>1. cmd[p] \in MovesRuns /\ RunFits(cmd[p]) /\ RunStands(cmd[p]) BY RunFacts
<1>2. cmd[p].target \in Managed \cup {Absent} /\ cmd[p].payload \in Slots BY <1>1 DEF MovesRuns
<1>3. stm \in Rows \cup {Absent} BY DEF MovesInv, MovesTypeOK
<1> QED BY <1>1, <1>2, <1>3, SourceFacts, EntryFacts DEF RunFits, RunStands

LEMMA HostWritten ==
  ASSUME MovesInv, NEW h \in Sources, NEW e \in Slots, host' = [host EXCEPT ![h] = e]
  PROVE  host' \in [Sources -> Slots] /\ host'[h] = e /\ \A g \in Sources : g # h => host'[g] = host[g]
BY DEF MovesInv, MovesTypeOK

LEMMA StrippedFacts ==
  ASSUME NEW e \in Entries PROVE Stripped(e) \in Entries /\ Stripped(e) \in Slots /\ Stripped(e) # Absent
                                 /\ Stripped(e).id = e.id
<1>1. Stripped(e) \in Entries /\ Stripped(e).id = e.id BY DEF Stripped, Entries
<1> QED BY <1>1, MovesAssumption DEF Slots

(* A step of a command that changes where it is only.                      *)
LEMMA AtOnly ==
  ASSUME NEW r \in MovesRuns, NEW at PROVE [r EXCEPT !.at = at] = [r EXCEPT !.at = at, !.loss = r.loss]
                                           /\ r.loss \in BOOLEAN
BY DEF MovesRuns

LEMMA EjectRemovesKeeps == ASSUME MovesInv, NEW p \in Commands, EjectRemoves(p) PROVE MovesInv'
<1> DEFINE h == cmd[p].target
<1>1. /\ cmd[p].at = "writes" /\ cmd[p].plan = "over" /\ host' = [host EXCEPT ![h] = Absent]
      /\ Step(p, [cmd[p] EXCEPT !.at = "adds"]) \/ End(p)
      /\ UNCHANGED <<stm, backups>>
  BY DEF EjectRemoves, Reached
<1>2. h \in Sources /\ Absent \in Slots /\ cmd[p] \in MovesRuns BY <1>1, EjectFacts DEF Slots
<1>3. host' \in [Sources -> Slots] BY <1>1, <1>2, HostWritten
<1>4. CASE Step(p, [cmd[p] EXCEPT !.at = "adds"])
  <2>1. Step(p, [cmd[p] EXCEPT !.at = "adds", !.loss = cmd[p].loss]) /\ cmd[p].loss \in BOOLEAN
    BY <1>2, <1>4, AtOnly
  <2> QED BY <1>1, <1>3, <2>1, EjectGoesOn
<1>5. CASE End(p) BY <1>1, <1>3, <1>5, EndQuietly
<1> QED BY <1>1, <1>4, <1>5

LEMMA EjectAddsKeeps == ASSUME MovesInv, NEW p \in Commands, EjectAdds(p) PROVE MovesInv'
<1> DEFINE h == cmd[p].target
           e == Stripped(cmd[p].payload)
<1>1. /\ cmd[p].at \in {"writes", "adds"} /\ host' = [host EXCEPT ![h] = e]
      /\ Step(p, [cmd[p] EXCEPT !.at = "verifies"]) \/ End(p)
      /\ UNCHANGED <<stm, backups>>
  BY DEF EjectAdds, Reached
<1>2. h \in Sources /\ cmd[p] \in MovesRuns /\ e \in Slots /\ e # Absent /\ e.id = cmd[p].payload.id
  BY <1>1, EjectFacts, StrippedFacts
<1> HIDE DEF e
<1>3. host' \in [Sources -> Slots] /\ host'[h] = e BY <1>1, <1>2, HostWritten
<1>4. CASE Step(p, [cmd[p] EXCEPT !.at = "verifies"])
  <2>1. Step(p, [cmd[p] EXCEPT !.at = "verifies", !.loss = cmd[p].loss]) /\ cmd[p].loss \in BOOLEAN
    BY <1>2, <1>4, AtOnly
  <2> QED BY <1>1, <1>2, <1>3, <2>1, EjectGoesOn
<1>5. CASE End(p) BY <1>1, <1>3, <1>5, EndQuietly
<1> QED BY <1>1, <1>4, <1>5

LEMMA EjectSetsKeeps == ASSUME MovesInv, NEW p \in Commands, EjectSets(p) PROVE MovesInv'
<1> DEFINE h == cmd[p].target
           e == cmd[p].payload
<1>1. /\ cmd[p].at = "writes" /\ host' = [host EXCEPT ![h] = e]
      /\ Step(p, [cmd[p] EXCEPT !.at = "verifies"])
      /\ UNCHANGED <<stm, backups>>
  BY DEF EjectSets, Reached
<1>2. h \in Sources /\ cmd[p] \in MovesRuns /\ e \in Slots /\ e # Absent
  BY <1>1, EjectFacts DEF Slots
<1>3. host' \in [Sources -> Slots] /\ host'[h] = e BY <1>1, <1>2, HostWritten
<1>4. Step(p, [cmd[p] EXCEPT !.at = "verifies", !.loss = cmd[p].loss]) /\ cmd[p].loss \in BOOLEAN
  BY <1>1, <1>2, AtOnly
<1> QED BY <1>1, <1>2, <1>3, <1>4, EjectGoesOn

LEMMA EjectVerifiesKeeps == ASSUME MovesInv, NEW p \in Commands, EjectVerifies(p) PROVE MovesInv'
<1>1. PICK accepted \in BOOLEAN :
        /\ Verbatim(cmd[p]) \/ accepted
        /\ Step(p, [cmd[p] EXCEPT !.at = "drops", !.loss = accepted])
  BY DEF EjectVerifies
<1>2. cmd[p].at = "verifies" /\ UNCHANGED <<host, stm, backups>> BY DEF EjectVerifies, Reached
<1>3. host' \in [Sources -> Slots] BY <1>2 DEF MovesInv, MovesTypeOK
<1>4. RunStands(cmd[p]) BY <1>2, EjectFacts
<1>5. ~edited => host[cmd[p].target] # Absent /\ host[cmd[p].target].id = cmd[p].payload.id
  BY <1>2, <1>4 DEF RunStands
<1>6. ~accepted => host[cmd[p].target] = cmd[p].payload BY <1>1 DEF Verbatim
<1> QED BY <1>1, <1>2, <1>3, <1>5, <1>6, EjectGoesOn

LEMMA EjectSavesKeeps == ASSUME MovesInv, NEW p \in Commands, EjectSaves(p) PROVE MovesInv'
<1>1. cmd[p].at = "drops" /\ stm' = Absent /\ End(p) /\ UNCHANGED <<host, backups>>
  BY DEF EjectSaves, Reached, Save
<1>2. RowStands' BY <1>1 DEF RowStands
<1>3. host' \in [Sources -> Slots] BY <1>1 DEF MovesInv, MovesTypeOK
<1> QED BY <1>1, <1>2, <1>3, EndKeeps

LEMMA OwnSideStarts ==
  ASSUME MovesInv, NEW p \in Commands, RemoveStarts(p) \/ TuneStarts(p) PROVE MovesInv'
<1>1. stm # Absent /\ stm \in Rows BY DEF RemoveStarts, TuneStarts, MovesInv, MovesTypeOK
<1>2. PICK op \in {"remove", "tune"} :
        BeginCommand(p, [NoCommand EXCEPT !.op = op, !.at = "picked", !.data = stm])
  BY DEF RemoveStarts, TuneStarts
<1> DEFINE r == [NoCommand EXCEPT !.op = op, !.at = "picked", !.data = stm]
<1>3. r \in MovesRuns BY <1>1, <1>2, NoCommandIsTyped DEF MovesRuns
<1>4. PICK run \in MovesRuns : run = r BY <1>3
<1>5. run.op = op /\ run.at = "picked" /\ run.data = stm /\ run.done = {}
  BY <1>4, NoCommandIsTyped DEF MovesRuns
<1> HIDE DEF r
<1>6. UNCHANGED <<host, stm, backups>> BY <1>2 DEF BeginCommand
<1>7. RunFits(run) BY <1>1, <1>2, <1>5 DEF RunFits
<1>8. (cmd[p] = run /\ edited = FALSE)' => RunStands(cmd[p])' BY <1>2, <1>5, <1>6 DEF RunStands
<1> QED BY <1>2, <1>4, <1>5, <1>6, <1>7, <1>8, BeginKeeps DEF r

LEMMA AddStartsKeeps == ASSUME MovesInv, NEW p \in Commands, AddStarts(p) PROVE MovesInv'
<1>1. PICK id \in Servers :
        BeginCommand(p, [NoCommand EXCEPT !.op = "add", !.at = "picked",
                                          !.payload = [id |-> id, extra |-> FALSE]])
  BY DEF AddStarts
<1>2. stm = Absent BY DEF AddStarts
<1> DEFINE e == [id |-> id, extra |-> FALSE]
           r == [NoCommand EXCEPT !.op = "add", !.at = "picked", !.payload = e]
<1>3. e \in Entries /\ e \in Slots /\ e # Absent
  <2>1. e \in Entries BY DEF Entries
  <2> QED BY <2>1, MovesAssumption DEF Slots
<1>4. BeginCommand(p, r) BY <1>1
<1> HIDE DEF e
<1>5. r \in MovesRuns BY <1>3, NoCommandIsTyped DEF MovesRuns
<1>6. PICK run \in MovesRuns : run = r BY <1>5
<1>7. run.op = "add" /\ run.at = "picked" /\ run.data = Absent /\ run.done = {} /\ run.payload = e
  BY <1>6, NoCommandIsTyped DEF MovesRuns
<1> HIDE DEF r
<1>8. UNCHANGED <<host, stm, backups>> BY <1>4 DEF BeginCommand
<1>9. RunFits(run) BY <1>3, <1>7 DEF RunFits
<1>10. (cmd[p] = run /\ edited = FALSE)' => RunStands(cmd[p])' BY <1>2, <1>7, <1>8 DEF RunStands
<1> QED BY <1>4, <1>6, <1>7, <1>8, <1>9, <1>10, BeginKeeps

LEMMA EditSavesWhat ==
  ASSUME MovesInv, NEW p \in Commands, EditSaves(p)
  PROVE  /\ cmd[p].at = "picked" /\ End(p) /\ UNCHANGED <<host, backups>>
         /\ \/ cmd[p].op = "remove" /\ stm' = Absent
            \/ cmd[p].op = "tune" /\ stm \in Rows /\ stm' = [stm EXCEPT !.tuned = TRUE]
            \/ /\ cmd[p].op = "add" /\ stm = Absent /\ cmd[p].payload \in Entries
               /\ stm' = Row(cmd[p].payload.id, NoOrigin)
<1> DEFINE old == cmd[p]
<1>1. /\ old.at = "picked" /\ old.op \in {"remove", "tune", "add"} /\ End(p) /\ UNCHANGED <<host, backups>>
      /\ stm' = CASE old.op = "remove" -> Absent
                  [] old.op = "tune" -> [old.data EXCEPT !.tuned = TRUE]
                  [] old.op = "add" -> Row(old.payload.id, NoOrigin)
  BY DEF EditSaves, Reached, Save
<1>2. old \in MovesRuns /\ RunFits(old) /\ RunStands(old) BY <1>1, RunFacts
<1>3. CASE old.op = "remove" BY <1>1, <1>3
<1>4. CASE old.op = "tune"
  <2>1. old.data \in Rows BY <1>1, <1>2, <1>4 DEF RunFits, MovesRuns
  <2>2. old.data = stm BY <1>2 DEF RunStands
  <2>3. stm' = [old.data EXCEPT !.tuned = TRUE] BY <1>1, <1>4
  <2> QED BY <1>1, <1>4, <2>1, <2>2, <2>3
<1>5. CASE old.op = "add"
  <2>1. old.payload \in Entries BY <1>1, <1>2, <1>5, EntryFacts DEF RunFits, MovesRuns
  <2>2. stm = Absent BY <1>1, <1>2, <1>5 DEF RunFits, RunStands
  <2>3. stm' = Row(old.payload.id, NoOrigin) BY <1>1, <1>5
  <2> QED BY <1>1, <1>5, <2>1, <2>2, <2>3
<1> QED BY <1>1, <1>3, <1>4, <1>5

LEMMA EditSavesKeeps == ASSUME MovesInv, NEW p \in Commands, EditSaves(p) PROVE MovesInv'
<1>1. cmd[p].at = "picked" /\ End(p) /\ UNCHANGED <<host, backups>> BY EditSavesWhat
<1>2. stm' \in Rows \cup {Absent} /\ RowStands'
  <2>1. CASE stm' = Absent BY <2>1 DEF RowStands
  <2>2. CASE stm \in Rows /\ stm' = [stm EXCEPT !.tuned = TRUE]
    <3>1. /\ stm' \in Rows /\ stm'.id = stm.id /\ stm'.origin = stm.origin
      BY <2>2 DEF Rows
    <3>2. stm # Absent BY <2>2, RowFacts
    <3> QED BY <1>1, <3>1, <3>2 DEF MovesInv, RowStands
  <2>3. CASE cmd[p].payload \in Entries /\ stm' = Row(cmd[p].payload.id, NoOrigin)
    <3>1. cmd[p].payload.id \in Servers BY <2>3 DEF Entries
    <3>2. /\ stm' \in Rows /\ stm'.origin.pruned = {} /\ stm'.origin.original = Absent
      BY <2>3, <3>1 DEF Row, NoOrigin, Rows, Slots
    <3> QED BY <3>2 DEF RowStands
  <2> QED BY <2>1, <2>2, <2>3, EditSavesWhat
<1>3. host' \in [Sources -> Slots] BY <1>1 DEF MovesInv, MovesTypeOK
<1> QED BY <1>1, <1>2, <1>3, EndKeeps

LEMMA GivesUpKeeps == ASSUME MovesInv, NEW p \in Commands, GivesUp(p) PROVE MovesInv'
<1>1. cmd[p].at # "idle" /\ End(p) /\ UNCHANGED <<host, stm, backups>> BY DEF GivesUp, Reached
<1>2. host' \in [Sources -> Slots] BY <1>1 DEF MovesInv, MovesTypeOK
<1> QED BY <1>1, <1>2, EndQuietly

LEMMA HostEditsKeeps == ASSUME MovesInv, NEW h \in Sources, HostEdits(h) PROVE MovesInv'
<1>1. /\ edits < MaxEdits /\ edits' = edits + 1 /\ edited' = TRUE
      /\ UNCHANGED <<stm, backups, lock, cmd, ran>>
  BY DEF HostEdits
<1>2. PICK e \in Slots : host' = [host EXCEPT ![h] = e] BY DEF HostEdits
<1>3. edits' \in 0..MaxEdits BY <1>1, MovesAssumption DEF MovesInv, MovesTypeOK
<1>4. MovesTypeOK' BY <1>1, <1>2, <1>3 DEF MovesInv, MovesTypeOK
<1>5. RowStands' BY <1>1 DEF MovesInv, RowStands
<1>6. \A p \in Commands : RunStands(cmd[p]) => RunStands(cmd[p])' BY <1>1 DEF RunStands, First
<1>7. \A p \in Commands : RunFits(cmd[p]) => RunFits(cmd[p])' BY <1>1 DEF RunFits, Scanned
<1>8. NoCommand' = NoCommand BY DEF NoCommand
<1> QED BY <1>1, <1>4, <1>5, <1>6, <1>7, <1>8 DEF MovesInv

LEMMA MovesStart == MovesInit => MovesInv
<1> SUFFICES ASSUME MovesInit PROVE MovesInv
  OBVIOUS
<1>1. MovesTypeOK
  <2>1. 0 \in 0..MaxCommands /\ 0 \in 0..MaxEdits BY MovesAssumption
  <2>2. /\ host \in [Sources -> Slots] /\ stm = Absent /\ backups = {} /\ lock = Absent
        /\ ran = 0 /\ edits = 0 /\ edited \in BOOLEAN
    BY DEF MovesInit
  <2> QED BY <2>1, <2>2 DEF MovesTypeOK
<1>2. RowStands BY DEF MovesInit, RowStands
<1>3. cmd \in [Commands -> MovesRuns] /\ \A p \in Commands : cmd[p] = NoCommand
  BY NoCommandIsTyped DEF MovesInit
<1> QED BY <1>1, <1>2, <1>3 DEF MovesInv

LEMMA MovesSteps == MovesInv /\ [MovesNext]_movesVars => MovesInv'
<1> SUFFICES ASSUME MovesInv, [MovesNext]_movesVars PROVE MovesInv'
  OBVIOUS
<1>1. ASSUME NEW p \in Commands, CommandStep(p) PROVE MovesInv'
  BY <1>1, ImportStartsKeeps, ImportSavesKeeps, PruneStartsKeeps, BacksUpKeeps, DeletesKeeps, PruneEndsKeeps,
     EjectStartsKeeps, EjectRemovesKeeps, EjectAddsKeeps, EjectSetsKeeps, EjectVerifiesKeeps, EjectSavesKeeps,
     OwnSideStarts, AddStartsKeeps, EditSavesKeeps, GivesUpKeeps
  DEF CommandStep
<1>2. ASSUME NEW h \in Sources, HostEdits(h) PROVE MovesInv' BY <1>2, HostEditsKeeps
<1>3. CASE UNCHANGED movesVars
  <2>1. UNCHANGED <<host, stm, backups, lock, cmd, ran, edits, edited>> BY <1>3 DEF movesVars
  <2>2. MovesTypeOK' BY <2>1 DEF MovesInv, MovesTypeOK
  <2>3. RowStands' BY <2>1 DEF MovesInv, RowStands
  <2>4. \A p \in Commands : RunStands(cmd[p]) => RunStands(cmd[p])' BY <2>1 DEF RunStands, First
  <2>5. \A p \in Commands : RunFits(cmd[p]) => RunFits(cmd[p])' BY <2>1 DEF RunFits, Scanned
  <2>6. NoCommand' = NoCommand BY DEF NoCommand
  <2> QED BY <2>1, <2>2, <2>3, <2>4, <2>5, <2>6 DEF MovesInv
<1> QED BY <1>1, <1>2, <1>3 DEF MovesNext

LEMMA MovesSoundness == MovesInv => SavesAreCurrent
<1> SUFFICES ASSUME MovesInv PROVE SavesAreCurrent
  OBVIOUS
<1>1. \A p \in Commands : cmd[p].at = "idle" \/ cmd[p].data = stm
  BY NoCommandIsTyped DEF MovesInv, RunStands
<1> QED BY <1>1 DEF SavesAreCurrent, MovesInv, RowStands, Reached

(* Commands that leave the hosts' files and STM's row as they are.         *)
LEMMA QuietCommands ==
  ASSUME NEW p \in Commands,
         \/ ImportStarts(p) \/ PruneStarts(p) \/ BacksUp(p) \/ EjectStarts(p) \/ EjectVerifies(p)
         \/ RemoveStarts(p) \/ TuneStarts(p) \/ AddStarts(p) \/ GivesUp(p)
  PROVE  UNCHANGED <<host, stm>>
<1>1. \A run : BeginCommand(p, run) => UNCHANGED <<host, stm>> BY DEF BeginCommand
<1> QED BY <1>1 DEF ImportStarts, PruneStarts, BacksUp, EjectStarts, EjectVerifies, RemoveStarts, TuneStarts,
                    AddStarts, GivesUp

(* A host's file that is written anew is known by, or the only one to lose *)
(* what it said.                                                           *)
LEMMA LostFromHost ==
  ASSUME MovesInv, NEW h \in Sources, NEW e \in Slots, host' = [host EXCEPT ![h] = e], stm' = stm,
         NEW id \in Servers, Known(id), ~Known(id)'
  PROVE  host[h] # Absent /\ host[h].id = id /\ (stm = Absent \/ stm.id # id)
<1>1. \A g \in Sources : g # h => host'[g] = host[g] BY HostWritten
<1>2. stm = Absent \/ stm.id # id BY DEF Known
<1>3. PICK g \in Sources : host[g] # Absent /\ host[g].id = id BY <1>2 DEF Known
<1>4. g = h BY <1>1, <1>3 DEF Known
<1> QED BY <1>2, <1>3, <1>4

LEMMA SeenStands ==
  ASSUME MovesInv, NEW p \in Commands, cmd[p].at = "deletes"
  PROVE  LET h == First(cmd[p].todo) IN
         /\ stm \in Rows /\ stm # Absent /\ h \in Sources /\ cmd[p].seen[h].id = stm.id
         /\ [source |-> h, original |-> cmd[p].seen[h]] \in backups
         /\ ~edited => host[h] = cmd[p].seen[h]
<1> DEFINE old == cmd[p]
           h == First(cmd[p].todo)
<1>1. old \in MovesRuns /\ RunFits(old) /\ RunStands(old) BY RunFacts
<1>2. old.todo \subseteq Managed /\ old.todo # {} BY <1>1 DEF MovesRuns, RunFits
<1>3. h \in old.todo /\ h \in Sources BY <1>2, SourceFacts, FirstIsIn
<1>4. h \in Scanned(old.seen) BY <1>1, <1>3 DEF RunFits
<1>5. old.data # Absent /\ old.seen[h].id = old.data.id BY <1>1, <1>4 DEF RunFits
<1>6. stm \in Rows \cup {Absent} /\ old.data = stm BY <1>1 DEF MovesInv, MovesTypeOK, RunStands
<1>7. [source |-> h, original |-> old.seen[h]] \in backups BY <1>1 DEF RunStands
<1>8. ~edited => host[h] = old.seen[h] BY <1>1, <1>3 DEF RunStands
<1> QED BY <1>3, <1>5, <1>6, <1>7, <1>8

LEMMA NothingDisappears ==
  ASSUME MovesInv, MovesNext, NEW id \in Servers, Known(id), ~Known(id)'
  PROVE  \/ edited'
         \/ \E p \in Commands : Moved(p) /\ cmd[p].op = "remove"
         \/ \E p \in Commands : Moved(p) /\ cmd[p].plan = "over" /\ cmd[p].payload.id # id
<1>1. CASE \E h \in Sources : HostEdits(h) BY <1>1 DEF HostEdits
<1>2. ASSUME NEW p \in Commands, CommandStep(p)
      PROVE  \/ edited'
             \/ Moved(p) /\ cmd[p].op = "remove"
             \/ Moved(p) /\ cmd[p].plan = "over" /\ cmd[p].payload.id # id
  <2>1. ~(UNCHANGED <<host, stm>>) BY DEF Known
  <2>2. ~(host' = host /\ (stm = Absent \/ (stm' # Absent /\ stm'.id = stm.id))) BY DEF Known
  <2>3. CASE ImportSaves(p)
    <3>1. host' = host /\ cmd[p].at = "picked" /\ cmd[p].op = "import" BY <2>3 DEF ImportSaves, Reached
    <3>2. stm = Absent BY <3>1, RunFacts DEF RunFits, RunStands
    <3> QED BY <2>2, <3>1, <3>2
  <2>4. CASE Deletes(p)
    <3> DEFINE h == First(cmd[p].todo)
    <3>1. cmd[p].at = "deletes" /\ UNCHANGED <<stm, backups>> BY <2>4, DeletesShape
    <3>2. host' = [host EXCEPT ![h] = Absent] BY <2>1, <2>4, <3>1, DeletesShape
    <3>3. /\ stm # Absent /\ h \in Sources /\ cmd[p].seen[h].id = stm.id
          /\ ~edited => host[h] = cmd[p].seen[h]
      BY <3>1, SeenStands
    <3>4. Absent \in Slots BY DEF Slots
    <3> HIDE DEF h
    <3>5. host[h].id = id /\ (stm = Absent \/ stm.id # id) BY <3>1, <3>2, <3>3, <3>4, LostFromHost
    <3>6. edited' = edited BY <2>4 DEF Deletes, Step
    <3> QED BY <3>3, <3>5, <3>6 DEF MovesInv, MovesTypeOK
  <2>5. CASE PruneEnds(p)
    <3>1. host' = host /\ cmd[p].at = "prunes" /\ stm' = [cmd[p].data EXCEPT !.origin.pruned = Marked(cmd[p])]
      BY <2>5 DEF PruneEnds, Reached, Save
    <3>2. cmd[p] \in MovesRuns /\ cmd[p].data = stm /\ cmd[p].data # Absent
      BY <3>1, RunFacts DEF RunFits, RunStands
    <3>3. stm \in Rows BY <3>2 DEF MovesRuns
    <3>4. stm'.id = stm.id BY <3>1, <3>2, <3>3 DEF Rows
    <3>5. stm' # Absent
      <4>1. Marked(cmd[p]) \in SUBSET Sources BY <3>2, <3>3, RowFacts DEF Marked
      <4>2. stm' \in Rows BY <3>1, <3>2, <3>3, <4>1 DEF Rows
      <4> QED BY <4>2, RowFacts
    <3> QED BY <2>2, <3>1, <3>4, <3>5
  <2>6. CASE EjectRemoves(p)
    <3> DEFINE h == cmd[p].target
    <3>1. /\ cmd[p].at = "writes" /\ cmd[p].plan = "over" /\ host' = [host EXCEPT ![h] = Absent] /\ stm' = stm
          /\ Step(p, [cmd[p] EXCEPT !.at = "adds"]) \/ End(p)
      BY <2>6 DEF EjectRemoves, Reached
    <3>2. /\ h \in Sources /\ cmd[p] \in MovesRuns /\ stm # Absent /\ cmd[p].payload.id = stm.id
      BY <3>1, EjectFacts
    <3>3. Absent \in Slots BY DEF Slots
    <3>4. stm.id # id BY <3>1, <3>2, <3>3, LostFromHost
    <3>5. Moved(p)
      <4>1. NoCommand.at = "idle" BY NoCommandIsTyped
      <4>2. [cmd[p] EXCEPT !.at = "adds"].at = "adds" BY <3>2 DEF MovesRuns
      <4>3. cmd'[p].at \in {"adds", "idle"} BY <3>1, <4>1, <4>2 DEF Step, End, MovesInv
      <4> QED BY <3>1, <4>3 DEF Moved
    <3> QED BY <3>1, <3>2, <3>4, <3>5
  <2>7. CASE EjectAdds(p)
    <3> DEFINE h == cmd[p].target
               e == Stripped(cmd[p].payload)
    <3>1. /\ cmd[p].at \in {"writes", "adds"} /\ host[h] = Absent /\ host' = [host EXCEPT ![h] = e] /\ stm' = stm
      BY <2>7 DEF EjectAdds, Reached
    <3>2. h \in Sources /\ e \in Slots BY <3>1, EjectFacts, StrippedFacts
    <3> HIDE DEF e
    <3>3. host[h] # Absent BY <3>1, <3>2, LostFromHost
    <3> QED BY <3>1, <3>3
  <2>8. CASE EjectSets(p)
    <3> DEFINE h == cmd[p].target
    <3>1. /\ cmd[p].at = "writes" /\ host' = [host EXCEPT ![h] = cmd[p].payload] /\ stm' = stm
          /\ Step(p, [cmd[p] EXCEPT !.at = "verifies"])
      BY <2>8 DEF EjectSets, Reached
    <3>2. /\ h \in Sources /\ cmd[p] \in MovesRuns /\ stm # Absent /\ cmd[p].payload.id = stm.id
          /\ cmd[p].payload \in Slots /\ RunStands(cmd[p]) /\ cmd[p].plan \in {"write", "over"}
      BY <3>1, EjectFacts DEF Slots
    <3>3. host[h] # Absent /\ stm.id # id BY <3>1, <3>2, LostFromHost
    <3>4. edited \/ cmd[p].plan = "over" BY <3>1, <3>2, <3>3 DEF RunStands
    <3>5. edited' = edited BY <3>1 DEF Step
    <3>6. Moved(p)
      <4>1. [cmd[p] EXCEPT !.at = "verifies"].at = "verifies" BY <3>2 DEF MovesRuns
      <4>2. cmd'[p].at = "verifies" BY <3>1, <4>1 DEF Step, MovesInv
      <4> QED BY <3>1, <4>2 DEF Moved
    <3>7. CASE edited BY <3>5, <3>7
    <3>8. CASE cmd[p].plan = "over" BY <3>2, <3>3, <3>6, <3>8
    <3> QED BY <3>4, <3>7, <3>8
  <2>9. CASE EjectSaves(p)
    <3>1. cmd[p].at = "drops" /\ host' = host /\ End(p) BY <2>9 DEF EjectSaves, Reached
    <3>2. stm # Absent /\ cmd[p].payload.id = stm.id /\ cmd[p].target \in Sources /\ RunStands(cmd[p])
      BY <3>1, EjectFacts
    <3>3. ~edited => host[cmd[p].target] # Absent /\ host[cmd[p].target].id = stm.id
      BY <3>1, <3>2 DEF RunStands
    <3>4. edited' = edited BY <3>1 DEF End
    <3>5. edited
      <4>1. stm.id = id BY <3>1 DEF Known
      <4> QED BY <3>1, <3>2, <3>3, <4>1 DEF Known
    <3> QED BY <3>4, <3>5
  <2>10. CASE EditSaves(p)
    <3>1. cmd[p].at = "picked" /\ host' = host /\ End(p) BY <2>10, EditSavesWhat
    <3>2. CASE cmd[p].op = "remove"
      <4>1. cmd'[p].at = "idle" BY <3>1, NoCommandIsTyped DEF End, MovesInv
      <4> QED BY <3>1, <3>2, <4>1 DEF Moved
    <3>3. CASE stm \in Rows /\ stm' = [stm EXCEPT !.tuned = TRUE]
      <4>1. stm' \in Rows /\ stm'.id = stm.id BY <3>3 DEF Rows
      <4> QED BY <2>2, <3>1, <4>1, RowFacts
    <3>4. CASE stm = Absent BY <2>2, <3>1, <3>4
    <3> QED BY <2>10, <3>2, <3>3, <3>4, EditSavesWhat
  <2> QED BY <1>2, <2>1, <2>3, <2>4, <2>5, <2>6, <2>7, <2>8, <2>9, <2>10, QuietCommands DEF CommandStep
<1> QED BY <1>1, <1>2 DEF MovesNext

(* A command changes where it is itself, and no other's place.             *)
LEMMA OwnMoves ==
  ASSUME MovesInv, MovesNext, NEW p \in Commands, Moved(p) PROVE CommandStep(p)
<1>1. \A h \in Sources : ~HostEdits(h) BY DEF HostEdits, Moved
<1>2. ASSUME NEW q \in Commands, CommandStep(q), q # p PROVE FALSE
  <2>1. \A run : BeginCommand(q, run) => cmd'[p] = cmd[p] BY <1>2 DEF BeginCommand, MovesInv
  <2>2. \A run : Step(q, run) => cmd'[p] = cmd[p] BY <1>2 DEF Step, MovesInv
  <2>3. End(q) => cmd'[p] = cmd[p] BY <1>2 DEF End, MovesInv
  <2>4. cmd'[p] # cmd[p] BY DEF Moved
  <2>5. ~(\E run : BeginCommand(q, run)) /\ ~(\E run : Step(q, run)) /\ ~End(q) BY <2>1, <2>2, <2>3, <2>4
  <2>6. ~ImportStarts(q) /\ ~PruneStarts(q) /\ ~EjectStarts(q) /\ ~RemoveStarts(q) /\ ~TuneStarts(q) /\ ~AddStarts(q)
    BY <2>5 DEF ImportStarts, PruneStarts, EjectStarts, RemoveStarts, TuneStarts, AddStarts
  <2>7. ~ImportSaves(q) /\ ~BacksUp(q) /\ ~Deletes(q) /\ ~EjectSets(q) /\ ~EjectVerifies(q)
    BY <2>5 DEF ImportSaves, BacksUp, Deletes, EjectSets, EjectVerifies
  <2>8. ~PruneEnds(q) /\ ~EjectRemoves(q) /\ ~EjectAdds(q) /\ ~EjectSaves(q) /\ ~EditSaves(q) /\ ~GivesUp(q)
    BY <2>5 DEF PruneEnds, EjectRemoves, EjectAdds, EjectSaves, EditSaves, GivesUp
  <2> QED BY <1>2, <2>6, <2>7, <2>8 DEF CommandStep
<1> QED BY <1>1, <1>2 DEF MovesNext

(* A step of a command that has begun: nothing begins.                     *)
LEMMA Underway ==
  ASSUME NEW p \in Commands, cmd[p].at # "idle", CommandStep(p)
  PROVE  \/ ImportSaves(p) \/ BacksUp(p) \/ Deletes(p) \/ PruneEnds(p) \/ EjectRemoves(p) \/ EjectAdds(p)
         \/ EjectSets(p) \/ EjectVerifies(p) \/ EjectSaves(p) \/ EditSaves(p) \/ GivesUp(p)
<1>1. cmd[p] # NoCommand BY NoCommandIsTyped
<1>2. \A run : ~BeginCommand(p, run) BY <1>1 DEF BeginCommand
<1> QED BY <1>2 DEF CommandStep, ImportStarts, PruneStarts, EjectStarts, RemoveStarts, TuneStarts, AddStarts

LEMMA PrunedIsBackedUp ==
  ASSUME MovesInv, MovesNext, NEW p \in Commands, NEW h \in Sources, Prunes(p, h)
  PROVE  BackedUp(h) \/ edited
<1>1. Moved(p) /\ cmd[p].at = "deletes" /\ host[h] # Absent /\ host'[h] = Absent BY DEF Prunes
<1>2. Deletes(p)
  <2>1. ~GivesUp(p) BY <1>1 DEF GivesUp
  <2>2. ~ImportSaves(p) /\ ~BacksUp(p) /\ ~PruneEnds(p) /\ ~EditSaves(p)
    BY <1>1 DEF ImportSaves, BacksUp, PruneEnds, EditSaves, Reached
  <2>3. ~EjectRemoves(p) /\ ~EjectAdds(p) /\ ~EjectSets(p) /\ ~EjectVerifies(p) /\ ~EjectSaves(p)
    BY <1>1 DEF EjectRemoves, EjectAdds, EjectSets, EjectVerifies, EjectSaves, Reached
  <2> QED BY <1>1, <2>1, <2>2, <2>3, OwnMoves, Underway
<1>3. First(cmd[p].todo) = h
  <2> DEFINE g == First(cmd[p].todo)
  <2>1. host' = host \/ host' = [host EXCEPT ![g] = Absent] BY <1>2, DeletesShape
  <2>2. g \in Sources BY <1>1, SeenStands
  <2> HIDE DEF g
  <2>3. g # h => host'[h] = host[h] BY <2>1, <2>2 DEF MovesInv, MovesTypeOK
  <2> QED BY <1>1, <2>3 DEF g
<1>4. /\ [source |-> h, original |-> cmd[p].seen[h]] \in backups
      /\ ~edited => host[h] = cmd[p].seen[h]
  BY <1>1, <1>3, SeenStands
<1> QED BY <1>4 DEF BackedUp

LEMMA EjectRestores ==
  ASSUME MovesInv, MovesNext, NEW p \in Commands,
         Moved(p), cmd[p].op = "eject", stm # Absent, stm' = Absent
  PROVE  cmd[p].loss \/ edited \/ host[cmd[p].target] = cmd[p].payload
<1>1. CommandStep(p) BY OwnMoves
<1>2. cmd[p].at # "idle" BY NoCommandIsTyped DEF MovesInv
<1>3. cmd[p] \in MovesRuns /\ RunFits(cmd[p]) /\ RunStands(cmd[p]) BY <1>2, RunFacts
<1>4. EjectSaves(p)
  <2>1. ~(BacksUp(p) \/ EjectVerifies(p) \/ GivesUp(p)) BY QuietCommands
  <2>2. ~Deletes(p) BY DeletesShape
  <2>3. ~(EjectRemoves(p) \/ EjectAdds(p) \/ EjectSets(p)) BY DEF EjectRemoves, EjectAdds, EjectSets
  <2>4. ~(ImportSaves(p) \/ EditSaves(p)) BY DEF ImportSaves, EditSaves
  <2>5. ~PruneEnds(p) BY <1>3 DEF PruneEnds, Reached, RunFits
  <2> QED BY <1>1, <1>2, <2>1, <2>2, <2>3, <2>4, <2>5, Underway
<1>5. cmd[p].at = "drops" BY <1>4 DEF EjectSaves, Reached
<1> QED BY <1>3, <1>5 DEF RunStands

(* The three together, as one step of a command or a host.                 *)
LEMMA EntriesKept ==
  ASSUME MovesInv, [MovesNext]_movesVars
  PROVE  /\ [\A id \in Servers :
               Known(id) /\ ~Known(id)' =>
                 \/ edited'
                 \/ \E p \in Commands : Moved(p) /\ cmd[p].op = "remove"
                 \/ \E p \in Commands : Moved(p) /\ cmd[p].plan = "over" /\ cmd[p].payload.id # id]_movesVars
         /\ [\A p \in Commands, h \in Sources : Prunes(p, h) => BackedUp(h) \/ edited]_movesVars
         /\ [\A p \in Commands :
               Moved(p) /\ cmd[p].op = "eject" /\ stm # Absent /\ stm' = Absent
                 => cmd[p].loss \/ edited \/ host[cmd[p].target] = cmd[p].payload]_movesVars
BY NothingDisappears, PrunedIsBackedUp, EjectRestores
-----------------------------------------------------------------------------
(* The registry of servers, for any hosts' files, names and directories.   *)

RegistryJobs ==
  [op : {"none", "import", "sync"}, at : {"idle", "planned", "registry"},
   seen : [HostFiles -> [Names -> Shapes \cup {None}]], gaps : SUBSET Labels,
   forced : BOOLEAN, acknowledged : BOOLEAN,
   servers : [Names -> Shapes \cup {None}], baselines : [Names -> RegistryRows \cup {None}]]

(* A plan to remove an entry has its evidence; a plan to change one has    *)
(* the file it is from, and the user's word where it needs it.             *)
PlanInv ==
  job.at = "planned" => \A n \in Names :
    /\ servers[n] # None /\ job.servers[n] = None =>
         /\ job.op = "sync" /\ Holders(n, job.seen) = {}
         /\ Vouched(n) /\ baselines[n].source \notin job.gaps
    /\ job.servers[n] \notin {None, servers[n]} =>
         \E f \in Holders(n, job.seen) :
           /\ job.servers[n] = job.seen[f][n] /\ (Local(f) => job.acknowledged)
           /\ servers[n] # None => job.forced /\ Label[f] = baselines[n].source

(* A sync plans no row without an entry, and a row to trust for every      *)
(* entry that it found.                                                    *)
HealInv ==
  job.op = "sync" => \A n \in Names :
    /\ job.baselines[n] # None => job.servers[n] # None
    /\ job.servers[n] # None /\ Holders(n, job.seen) # {} =>
         job.baselines[n] # None /\ job.baselines[n].current

RegistryInv ==
  /\ RegistryTypeOK /\ job \in RegistryJobs
  /\ job.at = "idle" <=> job = NoJob
  /\ job.at = "registry" => servers = job.servers
  /\ PlanInv /\ HealInv

-----------------------------------------------------------------------------
LEMMA GreatestIndex ==
  ASSUME NEW n \in Nat, NEW T \in SUBSET (1..n), T # {} PROVE \E i \in T : \A j \in T : j <= i
<1> DEFINE U == {k \in 0..n : n - k \in T}
<1>1. PICK t \in T : TRUE OBVIOUS
<1>2. n - t \in 0..n /\ n - (n - t) = t
  <2>1. t \in 1..n BY <1>1
  <2> QED BY <2>1
<1>3. n - t \in U
  <2>1. n - (n - t) \in T BY <1>1, <1>2
  <2> QED BY <1>2, <2>1
<1>4. U \in SUBSET Nat /\ U # {}
  <2>1. U \subseteq 0..n /\ 0..n \subseteq Nat OBVIOUS
  <2>2. U # {} BY <1>3
  <2> QED BY <2>1, <2>2
<1>5. PICK k \in U : \A l \in U : k <= l BY <1>4, LeastIndex
<1>6. ASSUME NEW j \in T PROVE j <= n - k
  <2>0. j \in 1..n BY <1>6
  <2>1. n - j \in 0..n /\ n - (n - j) = j BY <2>0
  <2>2. n - j \in U BY <2>1
  <2>3. k <= n - j BY <1>5, <2>2
  <2>4. k \in Nat BY <1>5
  <2> QED BY <2>0, <2>3, <2>4
<1>7. n - k \in T BY <1>5
<1> QED BY <1>6, <1>7

LEMMA FirstOfIsIn == ASSUME NEW S \in SUBSET HostFiles, S # {} PROVE FirstOf(S) \in S
<1> DEFINE T == {i \in 1..Len(ScanOrder) : ScanOrder[i] \in S}
<1>1. T \in SUBSET Nat /\ T # {} BY RegistryAssumption DEF HostFiles
<1>2. PICK i \in T : \A j \in T : i <= j BY <1>1, LeastIndex
<1>3. \E k \in 1..Len(ScanOrder) : ScanOrder[k] \in S /\ \A j \in 1..(k - 1) : ScanOrder[j] \notin S
  <2>1. ASSUME NEW j \in 1..(i - 1) PROVE ScanOrder[j] \notin S
    <3>1. i \in Nat /\ Len(ScanOrder) \in Nat BY <1>1, <1>2, RegistryAssumption
    <3>2. j \in 1..Len(ScanOrder) /\ ~(i <= j) BY <1>2, <3>1
    <3> QED BY <1>2, <3>2
  <2> QED BY <1>2, <2>1
<1> QED BY <1>3 DEF FirstOf

LEMMA LastOfIsIn == ASSUME NEW S \in SUBSET HostFiles, S # {} PROVE LastOf(S) \in S
<1> DEFINE T == {i \in 1..Len(ScanOrder) : ScanOrder[i] \in S}
<1>1. Len(ScanOrder) \in Nat /\ T \in SUBSET (1..Len(ScanOrder)) /\ T # {}
  BY RegistryAssumption DEF HostFiles
<1>2. PICK i \in T : \A j \in T : j <= i BY <1>1, GreatestIndex
<1>3. \E k \in 1..Len(ScanOrder) :
        ScanOrder[k] \in S /\ \A j \in (k + 1)..Len(ScanOrder) : ScanOrder[j] \notin S
  <2>1. ASSUME NEW j \in (i + 1)..Len(ScanOrder) PROVE ScanOrder[j] \notin S
    <3>1. j \in 1..Len(ScanOrder) /\ ~(j <= i) BY <1>1, <1>2
    <3> QED BY <1>2, <3>1
  <2> QED BY <1>2, <2>1
<1> QED BY <1>3 DEF LastOf

(* What a scan saw, and what it makes of it.                               *)
LEMMA SeenIsTyped ==
  ASSUME RegistryTypeOK, NEW read PROVE Seen(read) \in [HostFiles -> [Names -> Shapes \cup {None}]]
<1>1. NoJob.seen \in [HostFiles -> [Names -> Shapes \cup {None}]] BY DEF NoJob
<1> HIDE DEF NoJob
<1> QED BY <1>1 DEF Seen, RegistryTypeOK

LEMMA HoldersHold ==
  ASSUME NEW seen \in [HostFiles -> [Names -> Shapes \cup {None}]], NEW n \in Names
  PROVE  /\ Holders(n, seen) \in SUBSET HostFiles
         /\ \A f \in Holders(n, seen) : /\ f \in HostFiles /\ Label[f] \in Labels
                                        /\ seen[f][n] \in Shapes /\ seen[f][n] # None
BY DEF Holders, Labels

LEMMA StampFacts ==
  ASSUME NEW v \in Shapes, NEW l \in Labels
  PROVE  /\ Stamp(v, l) \in RegistryRows /\ Stamp(v, l) # None
         /\ Stamp(v, l).hash = v /\ Stamp(v, l).source = l /\ Stamp(v, l).current
<1>1. Stamp(v, l) \in RegistryRows BY DEF Stamp, RegistryRows
<1> QED BY <1>1, RegistryAssumption DEF Stamp

(* A new entry is that of the first file that holds it.                    *)
LEMMA AdoptedFacts ==
  ASSUME NEW seen \in [HostFiles -> [Names -> Shapes \cup {None}]], NEW n \in Names, Holders(n, seen) # {}
  PROVE  LET f == FirstOf(Holders(n, seen)) IN
         /\ f \in Holders(n, seen) /\ Adopted(n, seen).hash = seen[f][n] /\ seen[f][n] \in Shapes
         /\ Adopted(n, seen) \in RegistryRows /\ Adopted(n, seen) # None /\ Adopted(n, seen).current
<1> DEFINE f == FirstOf(Holders(n, seen))
<1>1. f \in Holders(n, seen) BY HoldersHold, FirstOfIsIn
<1>2. seen[f][n] \in Shapes /\ Label[f] \in Labels BY <1>1, HoldersHold
<1>3. Adopted(n, seen) = Stamp(seen[f][n], Label[f]) BY DEF Adopted
<1> QED BY <1>1, <1>2, <1>3, StampFacts

LEMMA CandidateFacts ==
  ASSUME NEW seen \in [HostFiles -> [Names -> Shapes \cup {None}]], NEW n \in Names, Holders(n, seen) # {}
  PROVE  LET c == Candidate(n, seen) IN
         /\ c \in Holders(n, seen) /\ seen[c][n] \in Shapes /\ Label[c] \in Labels
         /\ AtHome(n, seen) # {} => baselines[n] # None /\ Label[c] = baselines[n].source
<1>1. Holders(n, seen) \in SUBSET HostFiles BY HoldersHold
<1>2. AtHome(n, seen) \in SUBSET HostFiles BY <1>1 DEF AtHome
<1>3. CASE AtHome(n, seen) # {}
  <2>1. Candidate(n, seen) \in AtHome(n, seen) BY <1>2, <1>3, FirstOfIsIn DEF Candidate
  <2> QED BY <2>1, HoldersHold DEF AtHome
<1>4. CASE AtHome(n, seen) = {}
  <2>1. Candidate(n, seen) \in Holders(n, seen) BY <1>1, <1>4, FirstOfIsIn DEF Candidate
  <2> QED BY <1>4, <2>1, HoldersHold
<1> QED BY <1>3, <1>4

LEMMA NoJobFacts ==
  /\ NoJob \in RegistryJobs /\ NoJob.at = "idle" /\ NoJob.op = "none"
BY DEF NoJob, RegistryJobs

LEMMA RegistryStart == RegistryInit => RegistryInv
<1> SUFFICES ASSUME RegistryInit PROVE RegistryInv
  OBVIOUS
<1>1. /\ hosts \in [HostFiles -> [Names -> Shapes \cup {None}]]
      /\ servers = [n \in Names |-> None] /\ baselines = [n \in Names |-> None]
      /\ job = NoJob /\ runs = 0 /\ hostEdits = 0 /\ handEdits = 0
  BY DEF RegistryInit
<1>2. 0 \in 0..MaxRuns /\ 0 \in 0..MaxHostEdits /\ 0 \in 0..MaxHandEdits BY RegistryAssumption
<1>3. RegistryTypeOK BY <1>1, <1>2, NoJobFacts DEF RegistryTypeOK
<1>4. PlanInv /\ HealInv BY <1>1, NoJobFacts DEF PlanInv, HealInv
<1> QED BY <1>1, <1>3, <1>4, NoJobFacts DEF RegistryInv

(* A command that has planned: its plan has the evidence it needs.         *)
LEMMA BeginsKeeps ==
  ASSUME RegistryInv, job' \in RegistryJobs, job'.at = "planned", PlanInv', HealInv',
         runs < MaxRuns, runs' = runs + 1, UNCHANGED <<hosts, servers, baselines, hostEdits, handEdits>>
  PROVE  RegistryInv'
<1>1. runs' \in 0..MaxRuns BY RegistryAssumption DEF RegistryInv, RegistryTypeOK
<1>2. job'.op \in {"none", "import", "sync"} BY DEF RegistryJobs
<1>3. RegistryTypeOK' BY <1>1, <1>2 DEF RegistryInv, RegistryTypeOK
<1>4. NoJob' = NoJob BY DEF NoJob
<1>5. job' # NoJob BY NoJobFacts
<1> QED BY <1>3, <1>4, <1>5 DEF RegistryInv

LEMMA ScansAreTyped ==
  ASSUME RegistryInv, NEW read, NEW unread
  PROVE  /\ Seen(read \ unread) \in [HostFiles -> [Names -> Shapes \cup {None}]]
         /\ Gaps(read \cap unread) \in SUBSET Labels
<1>1. Seen(read \ unread) \in [HostFiles -> [Names -> Shapes \cup {None}]]
  BY SeenIsTyped DEF RegistryInv
<1>2. Gaps(read \cap unread) \in SUBSET Labels BY RegistryAssumption DEF Gaps, Labels
<1> QED BY <1>1, <1>2

LEMMA ImportPlansKeeps == ASSUME RegistryInv, ImportPlans PROVE RegistryInv'
<1>1. PICK dir \in Directories, from \in {HostFiles} \cup {{f} : f \in HostFiles},
           unread \in Unread, ack \in BOOLEAN :
        LET read == Read(dir) \cap from
            seen == Seen(read \ unread) IN
        /\ Acknowledged({FirstOf(Holders(n, seen)) : n \in New(seen)}, ack)
        /\ Begins("import", read, unread, FALSE, ack,
             [n \in Names |-> IF n \in New(seen) THEN Adopted(n, seen).hash ELSE servers[n]],
             [n \in Names |-> IF n \in Backfills(seen) THEN Backfilled(n, seen)
                              ELSE IF n \in New(seen) THEN Adopted(n, seen) ELSE baselines[n]])
  BY DEF ImportPlans
<1> DEFINE read == Read(dir) \cap from
<1>2. PICK seen : seen = Seen(read \ unread) OBVIOUS
<1>3. seen \in [HostFiles -> [Names -> Shapes \cup {None}]] BY <1>2, SeenIsTyped DEF RegistryInv
<1> DEFINE ns == [n \in Names |-> IF n \in New(seen) THEN Adopted(n, seen).hash ELSE servers[n]]
           nb == [n \in Names |-> IF n \in Backfills(seen) THEN Backfilled(n, seen)
                                  ELSE IF n \in New(seen) THEN Adopted(n, seen) ELSE baselines[n]]
<1>4. /\ Acknowledged({FirstOf(Holders(n, seen)) : n \in New(seen)}, ack)
      /\ Begins("import", read, unread, FALSE, ack, ns, nb)
  BY <1>1, <1>2
<1>5. \A n \in Names : servers[n] \in Shapes \cup {None} /\ baselines[n] \in RegistryRows \cup {None}
  BY DEF RegistryInv, RegistryTypeOK
<1>6. \A n \in New(seen) : n \in Names /\ servers[n] = None /\ Holders(n, seen) # {} BY DEF New
<1>7. \A n \in New(seen) : /\ Adopted(n, seen).hash \in Shapes /\ Adopted(n, seen) \in RegistryRows
                           /\ FirstOf(Holders(n, seen)) \in Holders(n, seen)
                           /\ Adopted(n, seen).hash = seen[FirstOf(Holders(n, seen))][n]
  BY <1>3, <1>6, AdoptedFacts
<1>8. \A n \in Backfills(seen) : Backfilled(n, seen) \in RegistryRows
  <2> SUFFICES ASSUME NEW n \in Backfills(seen) PROVE Backfilled(n, seen) \in RegistryRows
    OBVIOUS
  <2>1. n \in Names /\ Holders(n, seen) # {} /\ Idempotent(n, seen) # {} BY DEF Backfills
  <2>2. Holders(n, seen) \in SUBSET HostFiles BY <1>3, <2>1, HoldersHold
  <2>3. FirstOf(Holders(n, seen)) \in Holders(n, seen) BY <2>1, <2>2, FirstOfIsIn
  <2>4. seen[FirstOf(Holders(n, seen))][n] \in Shapes BY <1>3, <2>1, <2>3, HoldersHold
  <2>5. Idempotent(n, seen) \in SUBSET HostFiles BY <2>2 DEF Idempotent
  <2>6. LastOf(Idempotent(n, seen)) \in HostFiles BY <2>1, <2>5, LastOfIsIn
  <2>7. Label[LastOf(Idempotent(n, seen))] \in Labels BY <2>6 DEF Labels
  <2> QED BY <2>4, <2>7, StampFacts DEF Backfilled
<1>9. ns \in [Names -> Shapes \cup {None}] /\ nb \in [Names -> RegistryRows \cup {None}]
  BY <1>5, <1>7, <1>8
<1>10. \A n \in Names : ns[n] = IF n \in New(seen) THEN Adopted(n, seen).hash ELSE servers[n] OBVIOUS
<1> HIDE DEF ns, nb, read
<1>11. ASSUME NEW n \in Names, servers[n] # None, ns[n] = None PROVE FALSE BY <1>6, <1>10, <1>11
<1>12. ASSUME NEW n \in Names, ns[n] \notin {None, servers[n]}
       PROVE  \E f \in Holders(n, seen) :
                /\ ns[n] = seen[f][n] /\ (Local(f) => ack)
                /\ servers[n] # None => FALSE /\ Label[f] = baselines[n].source
  <2>1. n \in New(seen) BY <1>10, <1>12
  <2> DEFINE f == FirstOf(Holders(n, seen))
  <2>2. f \in Holders(n, seen) /\ ns[n] = seen[f][n] /\ servers[n] = None BY <1>6, <1>7, <1>10, <2>1
  <2>3. Local(f) => ack BY <1>4, <2>1 DEF Acknowledged
  <2> QED BY <2>2, <2>3
<1>13. /\ job' = [op |-> "import", at |-> "planned", seen |-> seen, gaps |-> Gaps(read \cap unread),
                  forced |-> FALSE, acknowledged |-> ack, servers |-> ns, baselines |-> nb]
       /\ runs < MaxRuns /\ runs' = runs + 1 /\ UNCHANGED <<hosts, servers, baselines, hostEdits, handEdits>>
  BY <1>2, <1>4 DEF Begins
<1>14. Gaps(read \cap unread) \in SUBSET Labels BY ScansAreTyped
<1>15. /\ job' \in RegistryJobs /\ job'.op = "import" /\ job'.at = "planned" /\ job'.seen = seen
       /\ job'.acknowledged = ack /\ job'.servers = ns
  BY <1>3, <1>9, <1>13, <1>14 DEF RegistryJobs
<1>16. PlanInv'
  <2> SUFFICES ASSUME NEW n \in Names
               PROVE  /\ ~(servers[n] # None /\ ns[n] = None)
                      /\ ns[n] \notin {None, servers[n]} =>
                           \E f \in Holders(n, job'.seen) :
                             /\ ns[n] = job'.seen[f][n] /\ (Local(f) => job'.acknowledged)
                             /\ servers[n] # None => job'.forced /\ Label[f] = baselines[n].source
    BY <1>13, <1>15 DEF PlanInv, Holders, Vouched
  <2>1. ASSUME ns[n] \notin {None, servers[n]}
        PROVE  \E f \in Holders(n, job'.seen) :
                 /\ ns[n] = job'.seen[f][n] /\ (Local(f) => job'.acknowledged)
                 /\ servers[n] # None => job'.forced /\ Label[f] = baselines[n].source
    BY <1>12, <1>15, <2>1
  <2> QED BY <1>11, <2>1
<1>17. HealInv' BY <1>15 DEF HealInv
<1> QED BY <1>13, <1>15, <1>16, <1>17, BeginsKeeps

LEMMA SyncPlansKeeps == ASSUME RegistryInv, SyncPlans PROVE RegistryInv'
<1>1. PICK dir \in Directories, unread \in Unread, forced \in BOOLEAN, ack \in BOOLEAN :
        LET read == Read(dir)
            seen == Seen(read \ unread)
            gone == Removed(seen, Gaps(read \cap unread))
            adopts == IF forced THEN Restamped(seen) ELSE {}
            stamps == adopts \cup BaselinesMissing(seen)
            current(n) == seen[Candidate(n, seen)][n]
            keep == [n \in Names |->
                      IF n \in gone THEN None
                      ELSE IF n \in New(seen) THEN Adopted(n, seen).hash
                      ELSE IF n \in adopts THEN current(n) ELSE servers[n]] IN
        /\ unread \subseteq read
        /\ Acknowledged({FirstOf(Holders(n, seen)) : n \in New(seen)}
                        \cup {Candidate(n, seen) : n \in adopts}, ack)
        /\ Begins("sync", read, unread, forced, ack, keep,
             IF New(seen) \cup gone \cup stamps \cup Orphans = {} THEN baselines ELSE
             [n \in Names |-> IF keep[n] = None THEN None
                              ELSE IF n \in New(seen) THEN Adopted(n, seen)
                              ELSE IF n \in stamps THEN Stamp(current(n), Label[Candidate(n, seen)])
                              ELSE baselines[n]])
  BY DEF SyncPlans
<1> DEFINE read == Read(dir)
<1>2. PICK seen : seen = Seen(read \ unread) OBVIOUS
<1>3. PICK gaps : gaps = Gaps(read \cap unread) OBVIOUS
<1>4. /\ seen \in [HostFiles -> [Names -> Shapes \cup {None}]] /\ gaps \in SUBSET Labels
  BY <1>2, <1>3, ScansAreTyped
<1> DEFINE gone == Removed(seen, gaps)
           adopts == IF forced THEN Restamped(seen) ELSE {}
           stamps == adopts \cup BaselinesMissing(seen)
           current(n) == seen[Candidate(n, seen)][n]
           keep == [n \in Names |->
                     IF n \in gone THEN None
                     ELSE IF n \in New(seen) THEN Adopted(n, seen).hash
                     ELSE IF n \in adopts THEN current(n) ELSE servers[n]]
           rows == [n \in Names |-> IF keep[n] = None THEN None
                                    ELSE IF n \in New(seen) THEN Adopted(n, seen)
                                    ELSE IF n \in stamps THEN Stamp(current(n), Label[Candidate(n, seen)])
                                    ELSE baselines[n]]
           kept == IF New(seen) \cup gone \cup stamps \cup Orphans = {} THEN baselines ELSE rows
<1>5. /\ Acknowledged({FirstOf(Holders(n, seen)) : n \in New(seen)}
                      \cup {Candidate(n, seen) : n \in adopts}, ack)
      /\ Begins("sync", read, unread, forced, ack, keep, kept)
  BY <1>1, <1>2, <1>3
<1>6. /\ job' = [op |-> "sync", at |-> "planned", seen |-> seen, gaps |-> gaps,
                 forced |-> forced, acknowledged |-> ack, servers |-> keep, baselines |-> kept]
      /\ runs < MaxRuns /\ runs' = runs + 1 /\ UNCHANGED <<hosts, servers, baselines, hostEdits, handEdits>>
  BY <1>2, <1>3, <1>5 DEF Begins
\* What each of the sets says of a name in it.
<1>7. /\ servers \in [Names -> Shapes \cup {None}] /\ baselines \in [Names -> RegistryRows \cup {None}]
      /\ \A n \in Names : servers[n] \in Shapes \cup {None} /\ baselines[n] \in RegistryRows \cup {None}
  BY DEF RegistryInv, RegistryTypeOK
<1>8. \A n \in New(seen) : n \in Names /\ servers[n] = None /\ Holders(n, seen) # {} BY DEF New
<1>9. ASSUME NEW n \in New(seen)
      PROVE  /\ Adopted(n, seen).hash \in Shapes /\ Adopted(n, seen) \in RegistryRows
             /\ Adopted(n, seen) # None /\ Adopted(n, seen).current
             /\ FirstOf(Holders(n, seen)) \in Holders(n, seen)
             /\ Adopted(n, seen).hash = seen[FirstOf(Holders(n, seen))][n]
  BY <1>4, <1>8, AdoptedFacts
<1>10. \A n \in gone : /\ n \in Names /\ servers[n] # None /\ Vouched(n)
                       /\ Holders(n, seen) = {} /\ baselines[n].source \notin gaps
  BY DEF Removed, InRegistry, Missing
<1>11. \A n \in adopts : n \in Names /\ forced /\ servers[n] # None /\ Vouched(n) /\ AtHome(n, seen) # {}
  BY DEF Restamped, InRegistry
<1>12. \A n \in stamps : n \in Names /\ servers[n] # None /\ Holders(n, seen) # {}
  BY <1>11 DEF BaselinesMissing, InRegistry, AtHome
<1>13. \A n \in Names : servers[n] # None /\ ~Vouched(n) /\ Holders(n, seen) # {} => n \in stamps
  BY DEF BaselinesMissing, InRegistry
<1>14. ASSUME NEW n \in stamps
       PROVE  /\ Candidate(n, seen) \in Holders(n, seen) /\ current(n) \in Shapes
              /\ Stamp(current(n), Label[Candidate(n, seen)]) \in RegistryRows
              /\ Stamp(current(n), Label[Candidate(n, seen)]) # None
              /\ Stamp(current(n), Label[Candidate(n, seen)]).current
              /\ AtHome(n, seen) # {} => Label[Candidate(n, seen)] = baselines[n].source
  <2>1. n \in Names /\ Holders(n, seen) # {} BY <1>12
  <2>2. /\ Candidate(n, seen) \in Holders(n, seen) /\ current(n) \in Shapes /\ Label[Candidate(n, seen)] \in Labels
        /\ AtHome(n, seen) # {} => Label[Candidate(n, seen)] = baselines[n].source
    BY <1>4, <2>1, CandidateFacts
  <2> QED BY <2>2, StampFacts
<1>15. \A n \in Names : n \in Orphans <=> baselines[n] # None /\ servers[n] = None
  BY DEF Orphans, InRegistry
<1>16. adopts \subseteq stamps OBVIOUS
<1> HIDE DEF gone, adopts, stamps, current
<1>17. \A n \in Names : keep[n] = IF n \in gone THEN None
                                  ELSE IF n \in New(seen) THEN Adopted(n, seen).hash
                                  ELSE IF n \in adopts THEN current(n) ELSE servers[n]
  OBVIOUS
<1>18. keep \in [Names -> Shapes \cup {None}]
  <2>1. \A n \in Names : (IF n \in gone THEN None
                          ELSE IF n \in New(seen) THEN Adopted(n, seen).hash
                          ELSE IF n \in adopts THEN current(n) ELSE servers[n]) \in Shapes \cup {None}
    BY <1>7, <1>9, <1>14, <1>16
  <2> QED BY <2>1
<1> HIDE DEF keep
<1>19. \A n \in Names : rows[n] = IF keep[n] = None THEN None
                                  ELSE IF n \in New(seen) THEN Adopted(n, seen)
                                  ELSE IF n \in stamps THEN Stamp(current(n), Label[Candidate(n, seen)])
                                  ELSE baselines[n]
  OBVIOUS
<1>20. rows \in [Names -> RegistryRows \cup {None}]
  <2>1. \A n \in Names : (IF keep[n] = None THEN None
                          ELSE IF n \in New(seen) THEN Adopted(n, seen)
                          ELSE IF n \in stamps THEN Stamp(current(n), Label[Candidate(n, seen)])
                          ELSE baselines[n]) \in RegistryRows \cup {None}
    BY <1>7, <1>9, <1>14
  <2> QED BY <2>1
<1> HIDE DEF rows
<1>21. kept \in [Names -> RegistryRows \cup {None}] BY <1>7, <1>20
\* An entry that stays is kept as it is, or has a row to trust.
<1>22. ASSUME NEW n \in Names, servers[n] # None, keep[n] = None PROVE n \in gone
  <2>1. None \notin Shapes BY RegistryAssumption
  <2> QED BY <1>8, <1>14, <1>16, <1>17, <1>22, <2>1
<1>23. ASSUME NEW n \in Names, keep[n] # None, Holders(n, seen) # {}
       PROVE  kept[n] # None /\ kept[n].current
  <2>1. n \notin gone BY <1>10, <1>23
  <2>2. CASE n \in New(seen)
    <3>1. kept[n] = Adopted(n, seen) BY <1>19, <1>23, <2>2
    <3> QED BY <1>9, <2>2, <3>1
  <2>3. CASE n \notin New(seen) /\ n \in stamps
    <3>1. kept[n] = Stamp(current(n), Label[Candidate(n, seen)]) BY <1>19, <1>23, <2>3
    <3> QED BY <1>14, <2>3, <3>1
  <2>4. CASE n \notin New(seen) /\ n \notin stamps
    <3>1. keep[n] = servers[n] BY <1>16, <1>17, <2>1, <2>4
    <3>2. Vouched(n) BY <1>13, <1>23, <2>4, <3>1
    <3>3. kept[n] = baselines[n] BY <1>19, <1>23, <2>4
    <3> QED BY <3>2, <3>3 DEF Vouched
  <2> QED BY <2>2, <2>3, <2>4
<1>24. ASSUME NEW n \in Names, kept[n] # None PROVE keep[n] # None
  <2>1. CASE New(seen) \cup gone \cup stamps \cup Orphans = {}
    <3>1. baselines[n] # None BY <1>24, <2>1
    <3>2. n \notin Orphans /\ n \notin gone /\ n \notin New(seen) /\ n \notin adopts BY <1>16, <2>1
    <3> QED BY <1>15, <1>17, <3>1, <3>2
  <2>2. CASE New(seen) \cup gone \cup stamps \cup Orphans # {} BY <1>19, <1>24, <2>2
  <2> QED BY <2>1, <2>2
<1>25. ASSUME NEW n \in Names, keep[n] \notin {None, servers[n]}
       PROVE  \E f \in Holders(n, seen) :
                /\ keep[n] = seen[f][n] /\ (Local(f) => ack)
                /\ servers[n] # None => forced /\ Label[f] = baselines[n].source
  <2>1. n \in New(seen) \/ (n \notin New(seen) /\ n \in adopts) BY <1>17, <1>25
  <2>2. n \notin gone BY <1>17, <1>25
  <2>3. CASE n \in New(seen)
    <3> DEFINE f == FirstOf(Holders(n, seen))
    <3>1. f \in Holders(n, seen) /\ keep[n] = seen[f][n] /\ servers[n] = None
      BY <1>8, <1>9, <1>17, <2>2, <2>3
    <3>2. Local(f) => ack BY <1>5, <2>3 DEF Acknowledged
    <3> QED BY <3>1, <3>2
  <2>4. CASE n \notin New(seen) /\ n \in adopts
    <3> DEFINE f == Candidate(n, seen)
    <3>1. f \in Holders(n, seen) /\ forced /\ Label[f] = baselines[n].source
      BY <1>11, <1>14, <1>16, <2>4
    <3>2. keep[n] = seen[f][n] BY <1>17, <2>2, <2>4 DEF current
    <3>3. Local(f) => ack BY <1>5, <2>4 DEF Acknowledged
    <3> QED BY <3>1, <3>2, <3>3
  <2> QED BY <2>1, <2>3, <2>4
<1> HIDE DEF kept
<1>26. /\ job' \in RegistryJobs /\ job'.op = "sync" /\ job'.at = "planned" /\ job'.seen = seen
       /\ job'.gaps = gaps /\ job'.servers = keep /\ job'.baselines = kept
  BY <1>4, <1>6, <1>18, <1>21 DEF RegistryJobs
<1>27. (job'.forced <=> forced) /\ (job'.acknowledged <=> ack) BY <1>6
<1>28. PlanInv'
  <2>1. ASSUME NEW n \in Names, servers[n] # None, keep[n] = None
        PROVE  Holders(n, seen) = {} /\ Vouched(n) /\ baselines[n].source \notin gaps
    BY <1>10, <1>22, <2>1
  <2> QED BY <1>6, <1>25, <1>26, <1>27, <2>1 DEF PlanInv, Holders, Vouched
<1>29. HealInv' BY <1>23, <1>24, <1>26 DEF HealInv, Holders
<1> QED BY <1>6, <1>26, <1>28, <1>29, BeginsKeeps

(* What no command plans is left as it is; without a command, nothing is   *)
(* planned.                                                                *)
LEMMA IdleIsSound == ASSUME job' = NoJob, RegistryTypeOK' PROVE RegistryInv'
<1>1. NoJob' = NoJob BY DEF NoJob
<1>2. PlanInv' /\ HealInv' BY NoJobFacts DEF PlanInv, HealInv
<1>3. job' \in RegistryJobs /\ job'.at = "idle" BY NoJobFacts
<1>4. RegistryJobs' = RegistryJobs BY DEF RegistryJobs
<1> QED BY <1>1, <1>2, <1>3, <1>4 DEF RegistryInv

LEMMA WritesKeeps == ASSUME RegistryInv, WritesRegistry PROVE RegistryInv'
<1>1. /\ job \in RegistryJobs /\ job.at = "planned" /\ servers' = job.servers
      /\ job' = [job EXCEPT !.at = "registry"]
      /\ UNCHANGED <<hosts, baselines, runs, hostEdits, handEdits>>
  BY DEF RegistryInv, WritesRegistry
<1>2. /\ job' \in RegistryJobs /\ job'.at = "registry" /\ job'.servers = job.servers
      /\ job'.op = job.op /\ job'.seen = job.seen /\ job'.baselines = job.baselines
  BY <1>1 DEF RegistryJobs
<1>3. servers' \in [Names -> Shapes \cup {None}] BY <1>1 DEF RegistryJobs
<1>4. job'.op \in {"none", "import", "sync"} BY <1>2 DEF RegistryJobs
<1>5. RegistryTypeOK' BY <1>1, <1>2, <1>3, <1>4 DEF RegistryInv, RegistryTypeOK
<1>6. NoJob' = NoJob BY DEF NoJob
<1>7. job' # NoJob BY <1>2, NoJobFacts
<1>8. PlanInv' BY <1>2 DEF PlanInv
<1>9. HealInv' BY <1>2 DEF RegistryInv, HealInv, Holders
<1> QED BY <1>1, <1>2, <1>5, <1>6, <1>7, <1>8, <1>9 DEF RegistryInv, RegistryJobs

LEMMA CompletesKeeps == ASSUME RegistryInv, Completes PROVE RegistryInv'
<1>1. job \in RegistryJobs /\ job' = NoJob /\ baselines' = job.baselines
  BY DEF RegistryInv, Completes
<1>2. baselines' \in [Names -> RegistryRows \cup {None}] BY <1>1 DEF RegistryJobs
<1>3. RegistryTypeOK' BY <1>1, <1>2, NoJobFacts DEF RegistryInv, RegistryTypeOK, Completes
<1> QED BY <1>1, <1>3, IdleIsSound

LEMMA DeclinesKeeps == ASSUME RegistryInv, Declines PROVE RegistryInv'
<1>1. RegistryTypeOK' BY NoJobFacts DEF RegistryInv, RegistryTypeOK, Declines
<1> QED BY <1>1, IdleIsSound DEF Declines

LEMMA FileEditsKeep == ASSUME RegistryInv, FileEdits PROVE RegistryInv'
<1>1. /\ hostEdits < MaxHostEdits /\ hostEdits' = hostEdits + 1
      /\ UNCHANGED <<servers, baselines, job, runs, handEdits>>
  BY DEF FileEdits
<1>2. hosts' \in [HostFiles -> [Names -> Shapes \cup {None}]]
  <2>1. PICK f \in HostFiles, n \in Names, v \in Shapes \cup {None} : hosts' = [hosts EXCEPT ![f][n] = v]
    BY DEF FileEdits
  <2>2. hosts \in [HostFiles -> [Names -> Shapes \cup {None}]] BY DEF RegistryInv, RegistryTypeOK
  <2> QED BY <2>1, <2>2
<1>3. hostEdits' \in 0..MaxHostEdits BY <1>1, RegistryAssumption DEF RegistryInv, RegistryTypeOK
<1>4. RegistryTypeOK' BY <1>1, <1>2, <1>3 DEF RegistryInv, RegistryTypeOK
<1>5. NoJob' = NoJob /\ RegistryJobs' = RegistryJobs BY DEF NoJob, RegistryJobs
<1>6. PlanInv' /\ HealInv' BY <1>1 DEF RegistryInv, PlanInv, HealInv, Holders, Vouched
<1> QED BY <1>1, <1>4, <1>5, <1>6 DEF RegistryInv

LEMMA HandEditsKeep == ASSUME RegistryInv, HandEdits PROVE RegistryInv'
<1>1. /\ job = NoJob /\ handEdits < MaxHandEdits /\ handEdits' = handEdits + 1
      /\ UNCHANGED <<hosts, servers, job, runs, hostEdits>>
  BY DEF HandEdits
<1>2. baselines' \in [Names -> RegistryRows \cup {None}]
  <2>1. PICK n \in {m \in Names : baselines[m] # None} :
          \/ baselines' = [baselines EXCEPT ![n] = None]
          \/ baselines[n].current /\ baselines' = [baselines EXCEPT ![n].current = FALSE]
    BY DEF HandEdits
  <2>2. baselines \in [Names -> RegistryRows \cup {None}] BY DEF RegistryInv, RegistryTypeOK
  <2>3. CASE baselines' = [baselines EXCEPT ![n] = None] BY <2>2, <2>3
  <2>4. CASE baselines' = [baselines EXCEPT ![n].current = FALSE]
    <3>1. baselines[n] \in RegistryRows BY <2>1, <2>2
    <3>2. [baselines[n] EXCEPT !.current = FALSE] \in RegistryRows BY <3>1 DEF RegistryRows
    <3>3. baselines' = [baselines EXCEPT ![n] = [baselines[n] EXCEPT !.current = FALSE]] BY <2>2, <2>4
    <3> QED BY <2>2, <3>2, <3>3
  <2> QED BY <2>1, <2>3, <2>4
<1>3. handEdits' \in 0..MaxHandEdits BY <1>1, RegistryAssumption DEF RegistryInv, RegistryTypeOK
<1>4. RegistryTypeOK' BY <1>1, <1>2, <1>3 DEF RegistryInv, RegistryTypeOK
<1> QED BY <1>1, <1>4, IdleIsSound

(* Every command, and every edit of the files, leaves a plan its evidence. *)
LEMMA RegistrySteps == RegistryInv /\ [RegistryNext]_registryVars => RegistryInv'
<1> SUFFICES ASSUME RegistryInv, [RegistryNext]_registryVars PROVE RegistryInv'
  OBVIOUS
<1>1. CASE ImportPlans BY <1>1, ImportPlansKeeps
<1>2. CASE SyncPlans BY <1>2, SyncPlansKeeps
<1>3. CASE WritesRegistry BY <1>3, WritesKeeps
<1>4. CASE Completes BY <1>4, CompletesKeeps
<1>5. CASE Declines BY <1>5, DeclinesKeeps
<1>6. CASE FileEdits BY <1>6, FileEditsKeep
<1>7. CASE HandEdits BY <1>7, HandEditsKeep
<1>8. CASE UNCHANGED registryVars
  <2>1. NoJob' = NoJob /\ RegistryJobs' = RegistryJobs BY DEF NoJob, RegistryJobs
  <2>2. UNCHANGED <<hosts, servers, baselines, job, runs, hostEdits, handEdits>> BY <1>8 DEF registryVars
  <2>3. RegistryTypeOK' BY <2>2 DEF RegistryInv, RegistryTypeOK
  <2>4. PlanInv' /\ HealInv' BY <2>2 DEF RegistryInv, PlanInv, HealInv, Holders, Vouched
  <2> QED BY <2>1, <2>2, <2>3, <2>4 DEF RegistryInv
<1> QED BY <1>1, <1>2, <1>3, <1>4, <1>5, <1>6, <1>7, <1>8 DEF RegistryNext

(* The registry changes by what a command has planned, and only so.        *)
LEMMA OnlyPlansAreWritten ==
  ASSUME RegistryInv, RegistryNext, servers' # servers
  PROVE  job.at = "planned" /\ servers' = job.servers
<1>1. ASSUME ImportPlans PROVE servers' = servers BY <1>1 DEF ImportPlans, Begins
<1>2. ASSUME SyncPlans PROVE servers' = servers BY <1>2 DEF SyncPlans, Begins
<1>3. Completes \/ Declines \/ FileEdits \/ HandEdits => servers' = servers
  BY DEF Completes, Declines, FileEdits, HandEdits
<1>4. WritesRegistry BY <1>1, <1>2, <1>3 DEF RegistryNext
<1> QED BY <1>4 DEF WritesRegistry

LEMMA ChangesAreVouched ==
  ASSUME RegistryInv, [RegistryNext]_registryVars
  PROVE  /\ [\A n \in Names : servers[n] # None /\ servers'[n] = None =>
               /\ job.op = "sync" /\ Holders(n, job.seen) = {}
               /\ Vouched(n) /\ baselines[n].source \notin job.gaps]_registryVars
         /\ [\A n \in Names : servers'[n] \notin {None, servers[n]} =>
               \E f \in Holders(n, job.seen) :
                 /\ servers'[n] = job.seen[f][n] /\ (Local(f) => job.acknowledged)
                 /\ servers[n] # None => job.forced /\ Label[f] = baselines[n].source]_registryVars
<1>1. CASE UNCHANGED registryVars BY <1>1
<1>2. CASE RegistryNext /\ servers' = servers BY <1>2
<1>3. CASE RegistryNext /\ servers' # servers
  <2>1. job.at = "planned" /\ servers' = job.servers BY <1>3, OnlyPlansAreWritten
  <2> QED BY <2>1 DEF RegistryInv, PlanInv
<1> QED BY <1>1, <1>2, <1>3

LEMMA CompletionHeals ==
  ASSUME RegistryInv
  PROVE  Completes /\ job.op = "sync" =>
           \A n \in Names :
             /\ baselines'[n] # None => servers[n] # None
             /\ servers[n] # None /\ Holders(n, job.seen) # {} => baselines'[n] # None /\ baselines'[n].current
BY DEF RegistryInv, HealInv, Completes
-----------------------------------------------------------------------------
(* The three side by side: a step is of one of them.                       *)

CommandsInv == MovesInv /\ RegistryInv /\ ReaperInv

LEMMA CommandSteps ==
  ASSUME [CommandsNext]_commandVars
  PROVE  [MovesNext]_movesVars /\ [RegistryNext]_registryVars /\ [ReaperNext]_reaperVars
<1>1. CASE UNCHANGED commandVars BY <1>1 DEF commandVars
<1>2. CASE HostsMove BY <1>2 DEF HostsMove
<1>3. CASE RegistryMoves BY <1>3 DEF RegistryMoves
<1>4. CASE SweepsMove BY <1>4 DEF SweepsMove
<1> QED BY <1>1, <1>2, <1>3, <1>4 DEF CommandsNext

LEMMA CommandsStart == CommandsInit => CommandsInv
BY MovesStart, RegistryStart, ReaperStarts DEF CommandsInit, CommandsInv

LEMMA CommandsSteady == CommandsInv /\ [CommandsNext]_commandVars => CommandsInv'
BY CommandSteps, MovesSteps, RegistrySteps, ReaperSteps DEF CommandsInv

(* Whatever the hosts edit, whoever waits for the lock and wherever a      *)
(* command dies: what a command is about to save was read under the lock   *)
(* it still holds, what STM took from a host's file can be put back, and   *)
(* a sweep has signalled no process but a leak of a dead launcher.         *)
THEOREM CommandsStaySound == CommandsSpec => []CommandsAreSound
<1>1. CommandsInv => CommandsAreSound
  BY MovesSoundness, ReaperSoundness DEF CommandsInv, CommandsAreSound
<1> QED BY <1>1, CommandsStart, CommandsSteady, PTL DEF CommandsSpec

(* No entry of a host's file is lost by a command that moves it, and none  *)
(* of the registry leaves or changes without the evidence of a scan and    *)
(* the word of the user where it takes one.                                *)
THEOREM SourcesStayKept == CommandsSpec => SourcesAreKept
<1>1. CommandsInv /\ [CommandsNext]_commandVars =>
        /\ [\A id \in Servers :
              Known(id) /\ ~Known(id)' =>
                \/ edited'
                \/ \E p \in Commands : Moved(p) /\ cmd[p].op = "remove"
                \/ \E p \in Commands : Moved(p) /\ cmd[p].plan = "over" /\ cmd[p].payload.id # id]_movesVars
        /\ [\A p \in Commands, h \in Sources : Prunes(p, h) => BackedUp(h) \/ edited]_movesVars
        /\ [\A p \in Commands :
              Moved(p) /\ cmd[p].op = "eject" /\ stm # Absent /\ stm' = Absent
                => cmd[p].loss \/ edited \/ host[cmd[p].target] = cmd[p].payload]_movesVars
  BY CommandSteps, EntriesKept DEF CommandsInv
<1>2. CommandsInv /\ [CommandsNext]_commandVars =>
        /\ [\A n \in Names : servers[n] # None /\ servers'[n] = None =>
              /\ job.op = "sync" /\ Holders(n, job.seen) = {}
              /\ Vouched(n) /\ baselines[n].source \notin job.gaps]_registryVars
        /\ [\A n \in Names : servers'[n] \notin {None, servers[n]} =>
              \E f \in Holders(n, job.seen) :
                /\ servers'[n] = job.seen[f][n] /\ (Local(f) => job.acknowledged)
                /\ servers[n] # None => job.forced /\ Label[f] = baselines[n].source]_registryVars
  BY CommandSteps, ChangesAreVouched DEF CommandsInv
<1> QED
  BY <1>1, <1>2, CommandsStart, CommandsSteady, PTL
  DEF CommandsSpec, SourcesAreKept, HostEntriesKept, NeverDisappears, PrunesAreBackedUp,
      RestoredVerbatim, RowsAreVouched, RemovalsAreEvidenced, AdoptionsAreChosen

(* A sync that completes leaves no row without its entry and no entry it   *)
(* found without a row to trust, whatever an earlier command left behind.  *)
THEOREM SyncsHeal == CommandsSpec => CompletedSyncHeals
<1>1. CommandsInv =>
        [Completes /\ job.op = "sync" =>
           \A n \in Names :
             /\ baselines'[n] # None => servers[n] # None
             /\ servers[n] # None /\ Holders(n, job.seen) # {} => baselines'[n] # None /\ baselines'[n].current
        ]_registryVars
  BY CompletionHeals DEF CommandsInv
<1> QED BY <1>1, CommandsStart, CommandsSteady, PTL DEF CommandsSpec, CompletedSyncHeals
=============================================================================
