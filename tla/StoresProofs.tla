---------------------------- MODULE StoresProofs ----------------------------
(***************************************************************************)
(* Proofs about what the server keeps in files, for every set of tools,    *)
(* requests, processes and records and every bound: every open fault       *)
(* episode of the feedback store has an owner, ratings do what they        *)
(* promise, and the metrics and the selection log keep what they were      *)
(* given.                                                                  *)
(***************************************************************************)
EXTENDS Stores, TLAPS, SequenceTheorems, FiniteSetTheorems, WellFoundedInduction
-----------------------------------------------------------------------------
(* Counting the writes of a queue.                                         *)

(* What Counted looks at, and the shape of every job.                      *)
LEMMA JobShapes ==
  ASSUME NEW write \in WriteJobs
  PROVE  /\ write.op \in {"fault", "recovery", "write", "noop", "close"}
         /\ write.op = "fault" => write.tool \in Tools /\ write.at \in Moments
         /\ write.op = "recovery" => write.tools \subseteq Tools /\ write.at \in Moments
                                     /\ write.released \in Claims
         /\ write # Idle
BY IdleAssumption DEF WriteJobs

LEMMA CountIsNat ==
  ASSUME NEW jobs \in Seq(WriteJobs)
  PROVE  /\ IsFiniteSet({i \in DOMAIN jobs : Counted(jobs[i])}) /\ CountedIn(jobs) \in Nat
<1>1. IsFiniteSet(DOMAIN jobs)
  BY FS_Interval, LenProperties
<1>2. IsFiniteSet({i \in DOMAIN jobs : Counted(jobs[i])})
  BY <1>1, FS_Subset
<1>3. QED
  BY <1>2, FS_CardinalityType DEF CountedIn

LEMMA CountOfNone == CountedIn(<<>>) = 0
<1>1. {i \in DOMAIN <<>> : Counted(<<>>[i])} = {}
  OBVIOUS
<1>2. QED
  BY <1>1, FS_EmptySet DEF CountedIn

LEMMA CountOfOne ==
  ASSUME NEW write \in WriteJobs
  PROVE  CountedIn(<<write>>) = IF Counted(write) THEN 1 ELSE 0
<1>1. {i \in DOMAIN <<write>> : Counted(<<write>>[i])} = IF Counted(write) THEN {1} ELSE {}
  OBVIOUS
<1>2. QED
  BY <1>1, FS_EmptySet, FS_Singleton DEF CountedIn

(* A queue that lost one job.                                              *)
LEMMA CountWithout ==
  ASSUME NEW jobs \in Seq(WriteJobs), NEW rest \in Seq(WriteJobs), NEW i \in 1..Len(jobs),
         Len(rest) = Len(jobs) - 1,
         \A j \in 1..Len(rest) : rest[j] = jobs[IF j < i THEN j ELSE j + 1]
  PROVE  CountedIn(jobs) = CountedIn(rest) + CountedIn(<<jobs[i]>>)
<1> DEFINE A == {j \in DOMAIN jobs : Counted(jobs[j])}
           B == {j \in DOMAIN rest : Counted(rest[j])}
           f == [j \in B |-> IF j < i THEN j ELSE j + 1]
<1>1. /\ Len(jobs) \in Nat /\ DOMAIN jobs = 1..Len(jobs) /\ DOMAIN rest = 1..Len(rest)
      /\ jobs[i] \in WriteJobs
  BY LenProperties, ElementOfSeq
<1>2. IsFiniteSet(A) /\ IsFiniteSet(B) /\ CountedIn(jobs) = Cardinality(A)
      /\ CountedIn(rest) = Cardinality(B)
  BY CountIsNat DEF CountedIn
<1>3. f \in Bijection(B, A \ {i})
  <2>1. \A j \in B : j \in 1..Len(rest) /\ f[j] \in A \ {i}
    BY <1>1
  <2>2. \A j, k \in B : f[j] = f[k] => j = k
    BY <1>1, <2>1
  <2>3. ASSUME NEW k \in A \ {i} PROVE \E j \in B : f[j] = k
    <3>1. CASE k < i
      <4>1. k \in B
        BY <1>1, <3>1
      <4>2. f[k] = k
        BY <3>1, <4>1
      <4>3. QED
        BY <4>1, <4>2
    <3>2. CASE k > i
      <4>1. k - 1 \in B /\ ~(k - 1 < i) /\ k - 1 + 1 = k
        BY <1>1, <3>2
      <4>2. f[k - 1] = k
        BY <4>1
      <4>3. QED
        BY <4>1, <4>2
    <3>3. QED
      BY <1>1, <3>1, <3>2
  <2>4. f \in [B -> A \ {i}]
    BY <2>1
  <2> HIDE DEF f, A, B
  <2>5. QED
    BY <2>2, <2>3, <2>4 DEF Bijection, Injection, Surjection, IsInjective
<1>4. Cardinality(B) = Cardinality(A \ {i})
  <2>1. B # {} \/ B = {}
    OBVIOUS
  <2>2. ExistsBijection(B, A \ {i})
    BY <1>3 DEF ExistsBijection
  <2> HIDE DEF A, B, f
  <2>3. IsFiniteSet(A \ {i})
    BY <1>2, FS_Subset
  <2>4. QED
    BY <1>2, <2>2, <2>3, FS_Bijection
<1>5. CASE Counted(jobs[i])
  <2>1. i \in A
    BY <1>1, <1>5
  <2> HIDE DEF A, B, f
  <2>2. Cardinality(A \ {i}) = Cardinality(A) - 1 /\ Cardinality(A) \in Nat
    BY <1>2, <2>1, FS_RemoveElement, FS_CardinalityType
  <2>3. CountedIn(<<jobs[i]>>) = 1
    BY <1>1, <1>5, CountOfOne
  <2>4. QED
    BY <1>2, <1>4, <2>2, <2>3
<1>6. CASE ~Counted(jobs[i])
  <2>1. A \ {i} = A
    BY <1>6
  <2> HIDE DEF A, B, f
  <2>2. Cardinality(A) \in Nat
    BY <1>2, FS_CardinalityType
  <2>3. CountedIn(<<jobs[i]>>) = 0
    BY <1>1, <1>6, CountOfOne
  <2>4. Cardinality(A \ {i}) = Cardinality(A)
    BY <2>1, Zenon
  <2>5. QED
    BY <1>2, <1>4, <2>2, <2>3, <2>4
<1>7. QED
  BY <1>5, <1>6

LEMMA CountAppended ==
  ASSUME NEW jobs \in Seq(WriteJobs), NEW write \in WriteJobs
  PROVE  CountedIn(Append(jobs, write)) = CountedIn(jobs) + CountedIn(<<write>>)
<1> DEFINE more == Append(jobs, write)
<1>1. /\ more \in Seq(WriteJobs) /\ Len(more) = Len(jobs) + 1 /\ Len(jobs) \in Nat
      /\ more[Len(jobs) + 1] = write /\ \A j \in 1..Len(jobs) : more[j] = jobs[j]
  BY AppendProperties, LenProperties
<1> HIDE DEF more
<1>2. Len(more) \in 1..Len(more) /\ Len(jobs) = Len(more) - 1 /\ more[Len(more)] = write
      /\ \A j \in 1..Len(jobs) : jobs[j] = more[IF j < Len(more) THEN j ELSE j + 1]
  BY <1>1
<1>3. CountedIn(more) = CountedIn(jobs) + CountedIn(<<more[Len(more)]>>)
  BY <1>1, <1>2, CountWithout
<1>4. QED
  BY <1>2, <1>3 DEF more

LEMMA CountStarted ==
  ASSUME NEW jobs \in Seq(WriteJobs), jobs # <<>>
  PROVE  CountedIn(jobs) = CountedIn(Tail(jobs)) + CountedIn(<<Head(jobs)>>)
<1> DEFINE rest == Tail(jobs)
<1>1. /\ rest \in Seq(WriteJobs) /\ Len(rest) = Len(jobs) - 1 /\ Len(jobs) \in Nat
      /\ 1 \in 1..Len(jobs) /\ Head(jobs) = jobs[1]
      /\ \A j \in 1..Len(rest) : rest[j] = jobs[j + 1]
  BY HeadTailProperties, LenProperties, EmptySeq
<1> HIDE DEF rest
<1>2. \A j \in 1..Len(rest) : rest[j] = jobs[IF j < 1 THEN j ELSE j + 1]
  BY <1>1
<1>3. CountedIn(jobs) = CountedIn(rest) + CountedIn(<<jobs[1]>>)
  BY <1>1, <1>2, CountWithout
<1>4. QED
  BY <1>1, <1>3 DEF rest

(* RemoveAt: what is left, in the order it had.                            *)
LEMMA WithoutJob ==
  ASSUME NEW jobs \in Seq(WriteJobs), NEW i \in 1..Len(jobs)
  PROVE  /\ RemoveAt(jobs, i) \in Seq(WriteJobs) /\ Len(RemoveAt(jobs, i)) = Len(jobs) - 1
         /\ \A j \in 1..Len(RemoveAt(jobs, i)) :
              RemoveAt(jobs, i)[j] = jobs[IF j < i THEN j ELSE j + 1]
<1> DEFINE before == SubSeq(jobs, 1, i - 1)
           after == SubSeq(jobs, i + 1, Len(jobs))
<1>1. Len(jobs) \in Nat /\ \A k \in 1..Len(jobs) : jobs[k] \in WriteJobs
  BY LenProperties, ElementOfSeq
<1>2. /\ before \in Seq(WriteJobs) /\ Len(before) = i - 1
      /\ \A j \in 1..(i - 1) : before[j] = jobs[j]
  OBVIOUS
<1>3. /\ after \in Seq(WriteJobs) /\ Len(after) = Len(jobs) - i
      /\ \A j \in 1..(Len(jobs) - i) : after[j] = jobs[i + j]
  OBVIOUS
<1> DEFINE rest == before \o after
<1>4. RemoveAt(jobs, i) = rest
  BY DEF RemoveAt
<1> HIDE DEF before, after
<1>5. /\ rest \in Seq(WriteJobs) /\ Len(rest) = Len(before) + Len(after)
      /\ \A j \in 1..(Len(before) + Len(after)) :
           rest[j] = IF j <= Len(before) THEN before[j] ELSE after[j - Len(before)]
  BY <1>2, <1>3, ConcatProperties
<1> HIDE DEF rest
<1>6. Len(rest) = Len(jobs) - 1
  BY <1>1, <1>2, <1>3, <1>5
<1>7. ASSUME NEW j \in 1..Len(rest) PROVE rest[j] = jobs[IF j < i THEN j ELSE j + 1]
  <2>1. CASE j < i
    BY <1>1, <1>2, <1>3, <1>5, <1>6, <2>1
  <2>2. CASE ~(j < i)
    <3>1. j \in 1..(Len(jobs) - 1) /\ i \in 1..Len(jobs) /\ Len(jobs) \in Nat
      BY <1>1, <1>6
    <3>2. j - (i - 1) \in 1..(Len(jobs) - i) /\ i + (j - (i - 1)) = j + 1 /\ ~(j <= i - 1)
      BY <2>2, <3>1
    <3>3. rest[j] = after[j - (i - 1)]
      BY <1>2, <1>5, <3>2
    <3>4. after[j - (i - 1)] = jobs[i + (j - (i - 1))]
      BY <1>3, <3>2
    <3>5. QED
      BY <2>2, <3>2, <3>3, <3>4
  <2>3. QED
    BY <2>1, <2>2
<1>8. QED
  BY <1>4, <1>5, <1>6, <1>7
-----------------------------------------------------------------------------
(* Who closes an open episode.                                             *)

FaultRows == [last : Moments, recovered : Moments]

(* What a queued job finds when it lands: the claim of a fault is still    *)
(* held and no callback under way releases it; a recovery is younger than  *)
(* an open episode whose claim it releases.                                *)
LandsVouched(write, t) ==
  store # "closed" /\ write.released[t] # 0 /\ blocked[t] = write.released[t] /\ t \notin peers
    /\ EpisodeOpen(faults[t]) => faults[t].last <= write.at

JobSound(write) ==
  /\ write.op = "fault" =>
       /\ write.at <= now /\ blocked[write.tool] # 0
       /\ \A i \in 1..Len(landed) : landed[i][write.tool] # blocked[write.tool]
  /\ write.op = "recovery" =>
       /\ write.at <= now
       /\ \A t \in Tools : /\ write.released[t] <= lastClaim
                           /\ write.released[t] # 0 => t \in write.tools
                           /\ LandsVouched(write, t)

(* x runs before y.                                                        *)
Ordered(x, y) ==
  /\ x.op = "recovery" /\ y.op = "fault" => x.released[y.tool] # blocked[y.tool]
  /\ x.op = "fault" /\ y.op = "recovery" => x.at <= y.at

EngineTypes ==
  /\ blocked \in Claims /\ lastClaim \in 0..MaxClaims /\ landed \in Seq(Claims)
  /\ faults \in [Tools -> FaultRows] /\ peers \subseteq Tools /\ now \in 1..MaxTime
  /\ store \in {"open", "closing", "closed"}

EngineSound ==
  /\ EngineTypes
  /\ \A t \in Tools : /\ blocked[t] <= lastClaim
                      /\ faults[t].last <= now /\ faults[t].recovered <= now
  /\ \A i \in 1..Len(landed), t \in Tools :
       /\ landed[i][t] <= lastClaim
       /\ store # "closed" /\ landed[i][t] # 0 /\ blocked[t] = landed[i][t]
            /\ EpisodeOpen(faults[t]) => t \in peers
  /\ EpisodesAreOwned

USE WorkerAssumption DEF Moments

LEMMA EngineParts ==
  ASSUME EngineSound
  PROVE  /\ now \in Nat /\ lastClaim \in Nat /\ Len(landed) \in Nat
         /\ \A t \in Tools : /\ blocked[t] \in Nat /\ faults[t] \in FaultRows
                             /\ faults[t].last \in Nat /\ faults[t].recovered \in Nat
         /\ \A i \in 1..Len(landed), t \in Tools : landed[i][t] \in Nat
<1>1. \A i \in 1..Len(landed) : landed[i] \in Claims
  BY ElementOfSeq DEF EngineSound, EngineTypes
<1>2. QED
  BY <1>1, LenProperties DEF EngineSound, EngineTypes, Claims, FaultRows

(* The updates of a row.                                                   *)
LEMMA FaultRow ==
  ASSUME NEW row \in FaultRows, NEW at \in Moments
  PROVE  /\ WithFault(row, at) \in FaultRows
         /\ WithFault(row, at).last = (IF at > row.last THEN at ELSE row.last)
         /\ WithFault(row, at).recovered \in {0, row.recovered}
         /\ ~EpisodeOpen(row) /\ EpisodeOpen(WithFault(row, at)) =>
              at >= row.recovered /\ WithFault(row, at).last = at
         /\ ~EpisodeOpen(row) /\ EpisodeOpen(WithFault(row, at)) =>
              WithFault(row, at).last >= row.recovered
BY DEF FaultRows, WithFault, EpisodeOpen

LEMMA RecoveryRow ==
  ASSUME NEW row \in FaultRows, NEW at \in Moments
  PROVE  /\ WithRecovery(row, at) \in FaultRows
         /\ WithRecovery(row, at).last = row.last
         /\ WithRecovery(row, at).recovered \in {at, row.recovered}
         /\ EpisodeOpen(WithRecovery(row, at)) =>
              EpisodeOpen(row) /\ row.last > at /\ WithRecovery(row, at) = row
BY DEF FaultRows, WithRecovery, EpisodeOpen

(* What a step of the engine, of its peer or of the clock keeps.           *)
Keeps == /\ \A x \in WriteJobs : JobSound(x) => JobSound(x)'
         /\ \A x, y \in WriteJobs : JobSound(x) /\ JobSound(y) /\ Ordered(x, y) => Ordered(x, y)'

LEMMA TurnedAwayKeeps ==
  ASSUME EngineSound, NEW t \in Tools, lastClaim < MaxClaims, lastClaim' = lastClaim + 1,
         blocked' = [blocked EXCEPT ![t] = lastClaim + 1],
         UNCHANGED <<store, landed, faults, peers, now>>
  PROVE  /\ EngineSound' /\ Keeps
         /\ blocked'[t] # 0 /\ \A i \in 1..Len(landed) : landed[i][t] # blocked'[t]
         /\ \A x \in WriteJobs : JobSound(x) /\ x.op = "recovery" => x.released[t] # blocked'[t]
<1>0. /\ blocked'[t] = lastClaim + 1 /\ \A u \in Tools : u # t => blocked'[u] = blocked[u]
      /\ lastClaim' \in 0..MaxClaims /\ lastClaim \in Nat
      /\ \A u \in Tools : blocked[u] \in Nat
  BY EngineParts DEF EngineSound, EngineTypes, Claims
<1>1. \A i \in 1..Len(landed) : landed[i][t] # blocked'[t]
  BY <1>0, EngineParts DEF EngineSound
<1>2. \A x \in WriteJobs : JobSound(x) /\ x.op = "recovery" =>
        x.released[t] # blocked'[t] /\ \A u \in Tools : x.released[u] \in Nat
  BY <1>0, JobShapes DEF JobSound, Claims
<1>3. EngineSound'
  <2>1. EngineTypes'
    BY <1>0 DEF EngineSound, EngineTypes, Claims
  <2>2. \A u \in Tools : /\ blocked'[u] <= lastClaim'
                         /\ faults'[u].last <= now' /\ faults'[u].recovered <= now'
    BY <1>0 DEF EngineSound
  <2>3. \A i \in 1..Len(landed'), u \in Tools :
          /\ landed'[i][u] <= lastClaim'
          /\ store' # "closed" /\ landed'[i][u] # 0 /\ blocked'[u] = landed'[i][u]
               /\ EpisodeOpen(faults'[u]) => u \in peers'
    BY <1>0, <1>1, EngineParts DEF EngineSound
  <2>4. EpisodesAreOwned'
    BY <1>0 DEF EngineSound, EpisodesAreOwned
  <2>5. QED
    BY <2>1, <2>2, <2>3, <2>4 DEF EngineSound
<1>4. ASSUME NEW x \in WriteJobs, JobSound(x) PROVE JobSound(x)'
  <2>1. CASE x.op = "fault"
    <3>1. x.tool \in Tools
      BY <2>1, JobShapes
    <3>2. QED
      BY <1>0, <1>1, <1>4, <2>1, <3>1 DEF JobSound
  <2>2. CASE x.op = "recovery"
    BY <1>0, <1>2, <1>4, <2>2 DEF JobSound, LandsVouched
  <2>3. QED
    BY <2>1, <2>2 DEF JobSound
<1>5. ASSUME NEW x \in WriteJobs, NEW y \in WriteJobs, JobSound(x), Ordered(x, y)
      PROVE  Ordered(x, y)'
  BY <1>0, <1>2, <1>5, JobShapes DEF Ordered
<1>6. QED
  BY <1>0, <1>1, <1>2, <1>3, <1>4, <1>5 DEF Keeps

LEMMA ReleaseKeeps ==
  ASSUME EngineSound, landed # <<>>, blocked' = ReleasedClaims(Head(landed)),
         landed' = Tail(landed), UNCHANGED <<store, lastClaim, faults, peers, now>>
  PROVE  EngineSound' /\ Keeps
<1>0. /\ landed' \in Seq(Claims) /\ Len(landed') = Len(landed) - 1 /\ Len(landed) \in Nat
      /\ 1 \in 1..Len(landed) /\ Head(landed) = landed[1] /\ landed[1] \in Claims
      /\ \A i \in 1..Len(landed') : i + 1 \in 1..Len(landed) /\ landed'[i] = landed[i + 1]
  BY HeadTailProperties, LenProperties, EmptySeq DEF EngineSound, EngineTypes
<1>1. /\ \A t \in Tools : blocked'[t] = IF blocked[t] = landed[1][t] THEN 0 ELSE blocked[t]
      /\ blocked' \in Claims
  <2>1. 0 \in 0..MaxClaims
    OBVIOUS
  <2>2. QED
    BY <1>0, <2>1 DEF ReleasedClaims, EngineSound, EngineTypes, Claims
<1>2. EngineSound'
  <2>1. EngineTypes'
    BY <1>0, <1>1 DEF EngineSound, EngineTypes
  <2>2. \A u \in Tools : /\ blocked'[u] <= lastClaim'
                         /\ faults'[u].last <= now' /\ faults'[u].recovered <= now'
    BY <1>1, EngineParts DEF EngineSound
  <2>3. ASSUME NEW i \in 1..Len(landed'), NEW u \in Tools
        PROVE  /\ landed'[i][u] <= lastClaim'
               /\ store' # "closed" /\ landed'[i][u] # 0 /\ blocked'[u] = landed'[i][u]
                    /\ EpisodeOpen(faults'[u]) => u \in peers'
    BY <1>0, <1>1, EngineParts DEF EngineSound
  <2>4. EpisodesAreOwned'
    BY <1>0, <1>1, EngineParts DEF EngineSound, EpisodesAreOwned
  <2>5. QED
    BY <2>1, <2>2, <2>3, <2>4 DEF EngineSound
<1>3. ASSUME NEW x \in WriteJobs, JobSound(x) PROVE JobSound(x)'
  <2>1. CASE x.op = "fault"
    <3>1. x.tool \in Tools /\ blocked'[x.tool] = blocked[x.tool]
      BY <1>0, <1>1, <1>3, <2>1, JobShapes DEF JobSound
    <3>2. QED
      BY <1>0, <1>3, <2>1, <3>1 DEF JobSound
  <2>2. CASE x.op = "recovery"
    <3>1. ASSUME NEW t \in Tools PROVE LandsVouched(x, t)'
      BY <1>1, <1>3, <2>2 DEF JobSound, LandsVouched
    <3>2. QED
      BY <1>3, <2>2, <3>1 DEF JobSound
  <2>3. QED
    BY <2>1, <2>2 DEF JobSound
<1>4. ASSUME NEW x \in WriteJobs, NEW y \in WriteJobs, JobSound(y), Ordered(x, y)
      PROVE  Ordered(x, y)'
  <2>1. CASE y.op = "fault"
    <3>1. y.tool \in Tools /\ blocked'[y.tool] = blocked[y.tool]
      BY <1>0, <1>1, <1>4, <2>1, JobShapes DEF JobSound
    <3>2. QED
      BY <1>4, <2>1, <3>1 DEF Ordered
  <2>2. CASE y.op # "fault"
    BY <1>4, <2>2 DEF Ordered
  <2>3. QED
    BY <2>1, <2>2
<1>5. QED
  BY <1>2, <1>3, <1>4 DEF Keeps

LEMMA PeerTurnedAwayKeeps ==
  ASSUME EngineSound, NEW t \in Tools, peers' = peers \cup {t},
         faults' = [faults EXCEPT ![t] = WithFault(@, now)],
         UNCHANGED <<store, blocked, lastClaim, landed, now>>
  PROVE  EngineSound' /\ Keeps
<1>0. /\ now \in Moments /\ faults'[t] = WithFault(faults[t], now) /\ faults[t] \in FaultRows
      /\ \A u \in Tools : u # t => faults'[u] = faults[u]
  BY EngineParts DEF EngineSound, EngineTypes
<1>1. faults'[t] \in FaultRows /\ faults'[t].last <= now /\ faults'[t].recovered <= now
  <2>1. faults[t].last <= now /\ faults[t].recovered <= now /\ now \in Nat
    BY EngineParts DEF EngineSound
  <2>2. QED
    BY <1>0, <2>1, FaultRow
<1>2. EngineSound'
  <2>1. EngineTypes'
    BY <1>0, <1>1 DEF EngineSound, EngineTypes
  <2>2. \A u \in Tools : /\ blocked'[u] <= lastClaim'
                         /\ faults'[u].last <= now' /\ faults'[u].recovered <= now'
    BY <1>0, <1>1 DEF EngineSound
  <2>3. \A i \in 1..Len(landed'), u \in Tools :
          /\ landed'[i][u] <= lastClaim'
          /\ store' # "closed" /\ landed'[i][u] # 0 /\ blocked'[u] = landed'[i][u]
               /\ EpisodeOpen(faults'[u]) => u \in peers'
    BY <1>0 DEF EngineSound
  <2>4. EpisodesAreOwned'
    BY <1>0 DEF EngineSound, EpisodesAreOwned
  <2>5. QED
    BY <2>1, <2>2, <2>3, <2>4 DEF EngineSound
<1>3. ASSUME NEW x \in WriteJobs, JobSound(x) PROVE JobSound(x)'
  BY <1>0, <1>3 DEF JobSound, LandsVouched
<1>4. QED
  BY <1>2, <1>3 DEF Keeps, Ordered

(* FaultRows that a recovery closes: what stays open was open.                  *)
LEMMA PeerSucceededKeeps ==
  ASSUME EngineSound, NEW S \in SUBSET Tools, peers \subseteq S, peers' = {},
         faults' = [u \in Tools |-> IF u \in S THEN WithRecovery(faults[u], now) ELSE faults[u]],
         UNCHANGED <<store, blocked, lastClaim, landed, now>>
  PROVE  EngineSound' /\ Keeps
<1>0. /\ now \in Moments /\ \A u \in Tools : faults[u] \in FaultRows /\ faults[u].last <= now
  BY EngineParts DEF EngineSound, EngineTypes
<1>1. ASSUME NEW u \in Tools
      PROVE  /\ faults'[u] \in FaultRows /\ faults'[u].last <= now /\ faults'[u].recovered <= now
             /\ EpisodeOpen(faults'[u]) =>
                  u \notin peers /\ EpisodeOpen(faults[u]) /\ faults'[u] = faults[u]
  <2>1. CASE u \in S
    <3>1. faults'[u] = WithRecovery(faults[u], now)
      BY <2>1
    <3>2. faults[u].last <= now /\ faults[u].recovered <= now /\ now \in Nat
      BY EngineParts DEF EngineSound
    <3> DEFINE row == WithRecovery(faults[u], now)
    <3>3. /\ row \in FaultRows /\ row.last = faults[u].last /\ row.recovered \in {now, faults[u].recovered}
          /\ EpisodeOpen(row) => EpisodeOpen(faults[u]) /\ faults[u].last > now /\ row = faults[u]
      BY <1>0, RecoveryRow
    <3>4. faults'[u] = row
      BY <3>1
    <3> HIDE DEF row
    <3>5. faults[u].last \in Nat /\ ~(faults[u].last > now)
      BY <3>2, EngineParts
    <3>6. ~EpisodeOpen(faults'[u])
      BY <3>3, <3>4, <3>5
    <3>7. QED
      BY <3>2, <3>3, <3>4, <3>6
  <2>2. CASE u \notin S
    BY <1>0, <2>2 DEF EngineSound
  <2>3. QED
    BY <2>1, <2>2
<1>2. EngineSound'
  <2>1. EngineTypes'
    BY <1>0, <1>1 DEF EngineSound, EngineTypes
  <2>2. \A u \in Tools : /\ blocked'[u] <= lastClaim'
                         /\ faults'[u].last <= now' /\ faults'[u].recovered <= now'
    BY <1>0, <1>1 DEF EngineSound
  <2>3. \A i \in 1..Len(landed'), u \in Tools :
          /\ landed'[i][u] <= lastClaim'
          /\ store' # "closed" /\ landed'[i][u] # 0 /\ blocked'[u] = landed'[i][u]
               /\ EpisodeOpen(faults'[u]) => u \in peers'
    BY <1>1 DEF EngineSound
  <2>4. EpisodesAreOwned'
    BY <1>1 DEF EngineSound, EpisodesAreOwned
  <2>5. QED
    BY <2>1, <2>2, <2>3, <2>4 DEF EngineSound
<1>3. ASSUME NEW x \in WriteJobs, JobSound(x) PROVE JobSound(x)'
  BY <1>1, <1>3 DEF JobSound, LandsVouched
<1>4. QED
  BY <1>2, <1>3 DEF Keeps, Ordered

LEMMA ClockKeeps ==
  ASSUME EngineSound, now < MaxTime, now' = now + 1,
         UNCHANGED <<store, blocked, lastClaim, landed, faults, peers>>
  PROVE  EngineSound' /\ Keeps
<1>0. now \in Nat /\ \A u \in Tools : faults[u].last \in Nat /\ faults[u].recovered \in Nat
  BY EngineParts
<1>1. EngineSound'
  BY <1>0 DEF EngineSound, EngineTypes, EpisodesAreOwned
<1>2. ASSUME NEW x \in WriteJobs, JobSound(x) PROVE JobSound(x)'
  <2>1. CASE x.op \in {"fault", "recovery"}
    <3>1. x.at \in Nat
      BY <2>1, JobShapes
    <3>2. QED
      BY <1>0, <1>2, <3>1 DEF JobSound, LandsVouched
  <2>2. QED
    BY <2>1 DEF JobSound
<1>3. QED
  BY <1>1, <1>2 DEF Keeps, Ordered

(* The store closes, or nothing happens to the engine.                     *)
LEMMA RestKeeps ==
  ASSUME EngineSound, UNCHANGED engineVars, store' \in {store, "closing", "closed"},
         store = "closed" => store' = "closed"
  PROVE  EngineSound' /\ Keeps
<1>1. EngineSound'
  BY DEF EngineSound, EngineTypes, EpisodesAreOwned, engineVars
<1>2. ASSUME NEW x \in WriteJobs, JobSound(x) PROVE JobSound(x)'
  BY <1>2 DEF JobSound, LandsVouched, engineVars
<1>3. QED
  BY <1>1, <1>2 DEF Keeps, Ordered, engineVars

(* A job lands.  What was to run after it is as sound as before.           *)
Lands(z, ok) ==
  /\ faults' = IF ok THEN Effect(z) ELSE faults
  /\ store' = IF z.op = "close" THEN "closed" ELSE store
  /\ landed' = IF ok /\ z.op = "recovery" THEN Append(landed, z.released) ELSE landed
  /\ UNCHANGED <<blocked, lastClaim, peers, now>>

LandingKeeps(z) ==
  /\ \A x \in WriteJobs : JobSound(x) /\ Ordered(z, x) => JobSound(x)'
  /\ \A x, y \in WriteJobs : Ordered(x, y) => Ordered(x, y)'

LEMMA FaultLands ==
  ASSUME EngineSound, NEW z \in WriteJobs, JobSound(z), z.op = "fault", Lands(z, TRUE),
         store # "closed"
  PROVE  EngineSound' /\ LandingKeeps(z)
<1> DEFINE t == z.tool
<1>0. /\ t \in Tools /\ z.at \in Moments /\ faults[t] \in FaultRows /\ faults \in [Tools -> FaultRows]
      /\ z.at <= now /\ blocked[t] # 0 /\ \A i \in 1..Len(landed) : landed[i][t] # blocked[t]
  BY JobShapes, EngineParts DEF EngineSound, EngineTypes, JobSound
<1>1. /\ faults' = [faults EXCEPT ![t] = WithFault(@, z.at)] /\ UNCHANGED <<store, landed>>
      /\ UNCHANGED <<blocked, lastClaim, peers, now>>
  BY DEF Lands, Effect
<1>2. /\ faults'[t] = WithFault(faults[t], z.at)
      /\ \A u \in Tools : u # t => faults'[u] = faults[u]
  BY <1>0, <1>1
<1> HIDE DEF t
<1>3. faults'[t] \in FaultRows /\ faults'[t].last <= now /\ faults'[t].recovered <= now
  <2>1. faults[t].last <= now /\ faults[t].recovered <= now /\ now \in Nat
    BY <1>0, EngineParts DEF EngineSound
  <2> DEFINE row == WithFault(faults[t], z.at)
  <2>2. /\ row \in FaultRows /\ row.last = (IF z.at > faults[t].last THEN z.at ELSE faults[t].last)
        /\ row.recovered \in {0, faults[t].recovered} /\ faults'[t] = row
    BY <1>0, <1>2, FaultRow
  <2> HIDE DEF row
  <2>3. QED
    BY <1>0, <2>1, <2>2
<1>4. EngineSound'
  <2>1. EngineTypes'
    <3>1. faults' \in [Tools -> FaultRows]
      BY <1>0, <1>1, <1>3, FaultRow
    <3>2. QED
      BY <1>1, <3>1 DEF EngineSound, EngineTypes
  <2>2. \A u \in Tools : /\ blocked'[u] <= lastClaim'
                         /\ faults'[u].last <= now' /\ faults'[u].recovered <= now'
    BY <1>1, <1>2, <1>3 DEF EngineSound
  <2>3. \A i \in 1..Len(landed'), u \in Tools :
          /\ landed'[i][u] <= lastClaim'
          /\ store' # "closed" /\ landed'[i][u] # 0 /\ blocked'[u] = landed'[i][u]
               /\ EpisodeOpen(faults'[u]) => u \in peers'
    BY <1>0, <1>1, <1>2 DEF EngineSound
  <2>4. EpisodesAreOwned'
    BY <1>0, <1>1, <1>2 DEF EngineSound, EpisodesAreOwned
  <2>5. QED
    BY <2>1, <2>2, <2>3, <2>4 DEF EngineSound
<1>5. ASSUME NEW x \in WriteJobs, JobSound(x), Ordered(z, x) PROVE JobSound(x)'
  <2>1. CASE x.op = "fault"
    BY <1>1, <1>5, <2>1 DEF JobSound
  <2>2. CASE x.op = "recovery"
    <3>1. z.at <= x.at /\ x.at \in Nat
      BY <1>5, <2>2, JobShapes DEF Ordered
    <3>2. ASSUME NEW u \in Tools PROVE LandsVouched(x, u)'
      <4>0. LandsVouched(x, u)
        BY <1>5, <2>2 DEF JobSound
      <4>1. CASE u = t
        <5> DEFINE row == WithFault(faults[t], z.at)
        <5>0. /\ row.last = (IF z.at > faults[t].last THEN z.at ELSE faults[t].last)
              /\ ~EpisodeOpen(faults[t]) /\ EpisodeOpen(row) => row.last = z.at
          BY <1>0, FaultRow
        <5>a. faults'[t] = row
          BY <1>2
        <5> HIDE DEF row
        <5>1. CASE EpisodeOpen(faults[t])
          BY <1>1, <3>1, <4>0, <4>1, <5>0, <5>1, <5>a DEF LandsVouched
        <5>2. CASE ~EpisodeOpen(faults[t])
          BY <1>1, <3>1, <4>1, <5>0, <5>2, <5>a DEF LandsVouched
        <5>3. QED
          BY <5>1, <5>2
      <4>2. CASE u # t
        BY <1>1, <1>2, <4>0, <4>2 DEF LandsVouched
      <4>3. QED
        BY <4>1, <4>2
    <3>3. QED
      BY <1>1, <1>5, <2>2, <3>2 DEF JobSound
  <2>3. QED
    BY <2>1, <2>2 DEF JobSound
<1>6. QED
  BY <1>1, <1>4, <1>5 DEF LandingKeeps, Ordered

LEMMA RecoveryLands ==
  ASSUME EngineSound, NEW z \in WriteJobs, JobSound(z), z.op = "recovery", Lands(z, TRUE)
  PROVE  EngineSound' /\ LandingKeeps(z)
<1>0. /\ z.at \in Moments /\ z.released \in Claims /\ z.at <= now
      /\ \A t \in Tools : z.released[t] <= lastClaim /\ (z.released[t] # 0 => t \in z.tools)
                            /\ LandsVouched(z, t)
  BY JobShapes DEF JobSound
<1>1. /\ landed' = Append(landed, z.released) /\ UNCHANGED <<store, blocked, lastClaim, peers, now>>
      /\ faults' = Effect(z)
  BY DEF Lands
<1>2. /\ landed' \in Seq(Claims) /\ Len(landed') = Len(landed) + 1 /\ Len(landed) \in Nat
      /\ landed'[Len(landed) + 1] = z.released
      /\ \A i \in 1..Len(landed) : landed'[i] = landed[i]
  BY <1>0, <1>1, AppendProperties, LenProperties DEF EngineSound, EngineTypes
<1>3. ASSUME NEW u \in Tools
      PROVE  /\ faults'[u] \in FaultRows /\ faults'[u].last <= now /\ faults'[u].recovered <= now
             /\ EpisodeOpen(faults'[u]) => EpisodeOpen(faults[u]) /\ faults'[u] = faults[u]
             /\ store # "closed" /\ u \in z.tools /\ EpisodeOpen(faults'[u]) => faults[u].last > z.at
  <2>1. CASE store # "closed" /\ u \in z.tools
    <3>1. faults'[u] = WithRecovery(faults[u], z.at)
      BY <1>1, <2>1 DEF Effect
    <3>2. faults[u].last <= now /\ faults[u].recovered <= now /\ faults[u] \in FaultRows
      BY EngineParts DEF EngineSound
    <3> DEFINE row == WithRecovery(faults[u], z.at)
    <3>3. /\ row \in FaultRows /\ row.last = faults[u].last /\ row.recovered \in {z.at, faults[u].recovered}
          /\ EpisodeOpen(row) => EpisodeOpen(faults[u]) /\ faults[u].last > z.at /\ row = faults[u]
      BY <1>0, <3>2, RecoveryRow
    <3>4. faults'[u] = row
      BY <3>1
    <3> HIDE DEF row
    <3>5. QED
      BY <1>0, <3>2, <3>3, <3>4
  <2>2. CASE ~(store # "closed" /\ u \in z.tools)
    <3>1. faults'[u] = faults[u]
      BY <1>1, <2>2 DEF Effect
    <3>2. QED
      BY <2>2, <3>1, EngineParts DEF EngineSound
  <2>3. QED
    BY <2>1, <2>2
<1>4. EngineSound'
  <2>1. EngineTypes'
    <3>1. faults' = [u \in Tools |-> faults'[u]]
      BY <1>1 DEF Effect, EngineSound, EngineTypes
    <3>2. faults' \in [Tools -> FaultRows]
      BY <1>3, <3>1
    <3>3. QED
      BY <1>1, <1>2, <3>2 DEF EngineSound, EngineTypes
  <2>2. \A u \in Tools : /\ blocked'[u] <= lastClaim'
                         /\ faults'[u].last <= now' /\ faults'[u].recovered <= now'
    BY <1>1, <1>3 DEF EngineSound
  <2>3. ASSUME NEW i \in 1..Len(landed'), NEW u \in Tools
        PROVE  /\ landed'[i][u] <= lastClaim'
               /\ store' # "closed" /\ landed'[i][u] # 0 /\ blocked'[u] = landed'[i][u]
                    /\ EpisodeOpen(faults'[u]) => u \in peers'
    <3>1. CASE i \in 1..Len(landed)
      BY <1>1, <1>2, <1>3, <3>1 DEF EngineSound
    <3>2. CASE i = Len(landed) + 1
      BY <1>0, <1>1, <1>2, <1>3, <3>2, EngineParts DEF LandsVouched
    <3>3. QED
      BY <1>2, <3>1, <3>2
  <2>4. EpisodesAreOwned'
    BY <1>1, <1>3 DEF EngineSound, EpisodesAreOwned
  <2>5. QED
    BY <2>1, <2>2, <2>3, <2>4 DEF EngineSound
<1>5. ASSUME NEW x \in WriteJobs, JobSound(x), Ordered(z, x) PROVE JobSound(x)'
  <2>1. CASE x.op = "fault"
    <3>1. x.tool \in Tools /\ z.released[x.tool] # blocked[x.tool]
      BY <1>5, <2>1, JobShapes DEF Ordered
    <3>2. \A i \in 1..Len(landed') : landed'[i][x.tool] # blocked[x.tool]
      BY <1>2, <1>5, <2>1, <3>1 DEF JobSound
    <3>3. QED
      BY <1>1, <1>5, <2>1, <3>2 DEF JobSound
  <2>2. CASE x.op = "recovery"
    BY <1>1, <1>3, <1>5, <2>2 DEF JobSound, LandsVouched
  <2>3. QED
    BY <2>1, <2>2 DEF JobSound
<1>6. QED
  BY <1>1, <1>4, <1>5 DEF LandingKeeps, Ordered

LEMMA LandingSound ==
  ASSUME EngineSound, NEW z \in WriteJobs, JobSound(z), NEW ok \in BOOLEAN, Lands(z, ok)
  PROVE  EngineSound' /\ LandingKeeps(z)
<1>1. CASE ok /\ z.op = "recovery"
  BY <1>1, RecoveryLands
<1>2. CASE ok /\ z.op = "fault" /\ store # "closed"
  BY <1>2, FaultLands
<1>3. CASE ~ok \/ z.op \notin {"fault", "recovery"} \/ (z.op = "fault" /\ store = "closed")
  <2>1. UNCHANGED engineVars /\ store' \in {store, "closed"}
    BY <1>3 DEF Lands, Effect, engineVars
  <2>2. QED
    BY <2>1, RestKeeps DEF Keeps, LandingKeeps, engineVars, Ordered, EngineSound, EngineTypes
<1>4. QED
  BY <1>1, <1>2, <1>3
-----------------------------------------------------------------------------
(* The queue and the thread.                                               *)

ThreadTypes ==
  /\ queue \in Seq(WriteJobs) /\ running \in WriteJobs \cup {Idle}
  /\ left \in WriteJobs \cup {Idle} /\ executor \in BOOLEAN
  /\ lifetime \in {"up", "draining", "drained", "closing", "closed", "down"}
  /\ ~executor => queue = <<>> /\ running = Idle

SlotsCounted ==
  /\ slots \in Nat /\ slots <= MaxQueued
  /\ slots = CountedIn(queue) + CountedIn(InHand(running)) + CountedIn(InHand(left))

Harmless(write) == write.op \notin {"fault", "recovery"}

(* Every pending job is sound and ordered before those behind it.  Only    *)
(* the last job of a shut-down executor runs out of order, and after it    *)
(* there are no jobs of the engine.                                        *)
Line ==
  /\ running # Idle => JobSound(running) /\ (lifetime = "down" => Harmless(running))
  /\ left # Idle => JobSound(left) /\ lifetime = "down"
  /\ \A i \in 1..Len(queue) : /\ JobSound(queue[i])
                              /\ running # Idle => Ordered(running, queue[i])
                              /\ lifetime = "down" => Harmless(queue[i])
  /\ \A i, k \in 1..Len(queue) : i < k => Ordered(queue[i], queue[k])

WorkerInv == EngineSound /\ ThreadTypes /\ SlotsCounted /\ Line


LEMMA QueueParts ==
  ASSUME ThreadTypes
  PROVE  /\ Len(queue) \in Nat /\ DOMAIN queue = 1..Len(queue)
         /\ \A i \in 1..Len(queue) : queue[i] \in WriteJobs
BY LenProperties, ElementOfSeq DEF ThreadTypes

LEMMA HandCount ==
  ASSUME NEW write \in WriteJobs \cup {Idle}
  PROVE  /\ CountedIn(InHand(write)) \in Nat
         /\ write = Idle => CountedIn(InHand(write)) = 0
         /\ write # Idle => CountedIn(InHand(write)) = CountedIn(<<write>>)
BY CountOfNone, CountOfOne DEF InHand

LEMMA LineKept ==
  ASSUME WorkerInv, Keeps, UNCHANGED <<queue, running, left, lifetime>> PROVE Line'
<1>1. \A i \in 1..Len(queue) : queue[i] \in WriteJobs
  BY QueueParts DEF WorkerInv
<1>2. running # Idle => running \in WriteJobs /\ JobSound(running) /\ (lifetime = "down" => Harmless(running))
  BY DEF WorkerInv, ThreadTypes, Line
<1>3. left # Idle => left \in WriteJobs /\ JobSound(left) /\ lifetime = "down"
  BY DEF WorkerInv, ThreadTypes, Line
<1>4. \A x \in WriteJobs : JobSound(x) => JobSound(x)'
  BY DEF Keeps
<1>5. \A x, y \in WriteJobs : JobSound(x) /\ JobSound(y) /\ Ordered(x, y) => Ordered(x, y)'
  BY DEF Keeps
<1>6. \A i \in 1..Len(queue) : /\ JobSound(queue[i])
                               /\ running # Idle => Ordered(running, queue[i])
                               /\ lifetime = "down" => Harmless(queue[i])
  BY DEF WorkerInv, Line
<1>7. \A i, k \in 1..Len(queue) : i < k => Ordered(queue[i], queue[k])
  BY DEF WorkerInv, Line
<1>a. running # Idle => JobSound(running)' /\ (lifetime = "down" => Harmless(running))
  BY <1>2, <1>4
<1>b. left # Idle => JobSound(left)' /\ lifetime = "down"
  BY <1>3, <1>4
<1>c. \A i \in 1..Len(queue) : JobSound(queue[i])' /\ (running # Idle => Ordered(running, queue[i])')
  BY <1>1, <1>2, <1>4, <1>5, <1>6
<1>d. \A i, k \in 1..Len(queue) : i < k => Ordered(queue[i], queue[k])'
  BY <1>1, <1>5, <1>6, <1>7
<1>8. QED
  BY <1>6, <1>a, <1>b, <1>c, <1>d DEF Line, Harmless

(* A job joins the end of the queue.                                       *)
LEMMA LineJoined ==
  ASSUME WorkerInv, Keeps, NEW write \in WriteJobs, queue' = Append(queue, write),
         JobSound(write)', \A x \in WriteJobs : JobSound(x) => Ordered(x, write)',
         UNCHANGED <<running, left>>,
         lifetime' = "down" => lifetime = "down" /\ Harmless(write), lifetime = "down" => lifetime' = "down"
  PROVE  Line' /\ queue' \in Seq(WriteJobs)
           /\ CountedIn(queue') = CountedIn(queue) + CountedIn(<<write>>)
<1>0. /\ queue' \in Seq(WriteJobs) /\ Len(queue') = Len(queue) + 1 /\ Len(queue) \in Nat
      /\ queue'[Len(queue) + 1] = write /\ \A i \in 1..Len(queue) : queue'[i] = queue[i]
      /\ CountedIn(queue') = CountedIn(queue) + CountedIn(<<write>>)
      /\ \A i \in 1..Len(queue) : queue[i] \in WriteJobs
  BY AppendProperties, LenProperties, CountAppended, ElementOfSeq DEF WorkerInv, ThreadTypes
<1>2. running # Idle => running \in WriteJobs /\ JobSound(running) /\ (lifetime = "down" => Harmless(running))
  BY DEF WorkerInv, ThreadTypes, Line
<1>3. left # Idle => left \in WriteJobs /\ JobSound(left) /\ lifetime = "down"
  BY DEF WorkerInv, ThreadTypes, Line
<1>4. \A x \in WriteJobs : JobSound(x) => JobSound(x)'
  BY DEF Keeps
<1>5. \A x, y \in WriteJobs : JobSound(x) /\ JobSound(y) /\ Ordered(x, y) => Ordered(x, y)'
  BY DEF Keeps
<1>6. /\ \A i \in 1..Len(queue) : /\ JobSound(queue[i])
                                  /\ running # Idle => Ordered(running, queue[i])
                                  /\ lifetime = "down" => Harmless(queue[i])
      /\ \A i, k \in 1..Len(queue) : i < k => Ordered(queue[i], queue[k])
  BY DEF WorkerInv, Line
<1>a. /\ running' # Idle => JobSound(running)' /\ (lifetime' = "down" => Harmless(running'))
      /\ left' # Idle => JobSound(left)' /\ lifetime' = "down"
  BY <1>2, <1>3, <1>4
<1>b. \A x \in WriteJobs : JobSound(x) => Ordered(x, write)'
  OBVIOUS
<1>c. ASSUME NEW i \in 1..Len(queue')
      PROVE  /\ JobSound(queue[i])' /\ (running' # Idle => Ordered(running, queue[i])')
             /\ lifetime' = "down" => Harmless(queue'[i])
  <2>1. CASE i \in 1..Len(queue)
    <3>1. queue'[i] \in WriteJobs /\ JobSound(queue'[i]) /\ (running # Idle => Ordered(running, queue'[i]))
          /\ (lifetime = "down" => Harmless(queue'[i]))
      BY <1>0, <1>6, <2>1
    <3>2. QED
      BY <1>2, <1>4, <1>5, <3>1
  <2>2. CASE i = Len(queue) + 1
    <3>1. queue'[i] = write
      BY <1>0, <2>2
    <3>2. QED
      BY <1>2, <1>b, <3>1
  <2>3. QED
    BY <1>0, <2>1, <2>2
<1>d. ASSUME NEW i \in 1..Len(queue'), NEW k \in 1..Len(queue'), i < k
      PROVE  Ordered(queue[i], queue[k])'
  <2>0. i \in 1..Len(queue) /\ queue'[i] = queue[i] /\ queue[i] \in WriteJobs /\ JobSound(queue[i])
    BY <1>0, <1>6, <1>d
  <2>1. CASE k \in 1..Len(queue)
    <3>1. queue'[k] = queue[k] /\ queue[k] \in WriteJobs /\ JobSound(queue[k])
          /\ Ordered(queue[i], queue[k])
      BY <1>0, <1>6, <1>d, <2>0, <2>1
    <3> DEFINE x == queue[i]
               y == queue[k]
    <3>2. Ordered(queue'[i], queue'[k])
      BY <2>0, <3>1
    <3>3. \A u, v \in WriteJobs : JobSound(u) /\ JobSound(v) /\ Ordered(u, v) => Ordered(u, v)'
      BY <1>5
    <3>4. QED
      BY <2>0, <3>1, <3>2, <3>3
  <2>2. CASE k = Len(queue) + 1
    BY <1>0, <1>b, <2>0, <2>2
  <2>3. QED
    BY <1>0, <2>1, <2>2
<1>7. QED
  BY <1>0, <1>a, <1>c, <1>d DEF Line, Harmless

(* A marker leaves the queue.                                              *)
LEMMA LineShortened ==
  ASSUME WorkerInv, Keeps, NEW n \in 1..Len(queue), queue' = RemoveAt(queue, n),
         ~Counted(queue[n]), UNCHANGED <<running, left>>, lifetime' # "down", lifetime # "down"
  PROVE  Line' /\ queue' \in Seq(WriteJobs) /\ CountedIn(queue') = CountedIn(queue)
<1> DEFINE p(i) == IF i < n THEN i ELSE i + 1
<1>0. queue \in Seq(WriteJobs)
  BY DEF WorkerInv, ThreadTypes
<1>1. /\ queue' \in Seq(WriteJobs) /\ Len(queue') = Len(queue) - 1 /\ Len(queue) \in Nat
      /\ \A i \in 1..Len(queue') : queue'[i] = queue[p(i)]
      /\ queue[n] \in WriteJobs /\ \A i \in 1..Len(queue) : queue[i] \in WriteJobs
  BY <1>0, WithoutJob, LenProperties, ElementOfSeq
<1>2. /\ \A i \in 1..Len(queue') : p(i) \in 1..Len(queue)
      /\ \A i, k \in 1..Len(queue') : i < k => p(i) < p(k)
  BY <1>1
<1> HIDE DEF p
<1>3. CountedIn(queue) = CountedIn(queue') + CountedIn(<<queue[n]>>)
  BY <1>0, <1>1, CountWithout DEF p
<1>4. CountedIn(queue') \in Nat /\ CountedIn(<<queue[n]>>) = 0
  BY <1>1, CountIsNat, CountOfOne
<1>5. /\ running # Idle => running \in WriteJobs /\ JobSound(running)
      /\ left = Idle
      /\ \A i \in 1..Len(queue) : JobSound(queue[i]) /\ (running # Idle => Ordered(running, queue[i]))
      /\ \A i, k \in 1..Len(queue) : i < k => Ordered(queue[i], queue[k])
  BY DEF WorkerInv, ThreadTypes, Line
<1>6. /\ \A x \in WriteJobs : JobSound(x) => JobSound(x)'
      /\ \A x, y \in WriteJobs : JobSound(x) /\ JobSound(y) /\ Ordered(x, y) => Ordered(x, y)'
  BY DEF Keeps
<1>7. ASSUME NEW i \in 1..Len(queue')
      PROVE  JobSound(queue[i])' /\ (running' # Idle => Ordered(running, queue[i])')
  <2>1. queue'[i] \in WriteJobs /\ JobSound(queue'[i]) /\ (running # Idle => Ordered(running, queue'[i]))
    BY <1>1, <1>2, <1>5
  <2>2. QED
    BY <1>5, <1>6, <2>1
<1>8. ASSUME NEW i \in 1..Len(queue'), NEW k \in 1..Len(queue'), i < k
      PROVE  Ordered(queue[i], queue[k])'
  <2>1. /\ queue'[i] \in WriteJobs /\ JobSound(queue'[i]) /\ queue'[k] \in WriteJobs
        /\ JobSound(queue'[k]) /\ Ordered(queue'[i], queue'[k])
    BY <1>1, <1>2, <1>5, <1>8
  <2>2. QED
    BY <1>6, <2>1
<1>9. running' # Idle => JobSound(running)'
  BY <1>5, <1>6
<1>10. QED
  BY <1>1, <1>3, <1>4, <1>5, <1>7, <1>8, <1>9 DEF Line

(* The thread takes a job.                                                 *)
LEMMA LineStarted ==
  ASSUME WorkerInv, Keeps, running = Idle, queue # <<>>, running' = Head(queue),
         queue' = Tail(queue), UNCHANGED <<left, lifetime>>
  PROVE  /\ Line' /\ queue' \in Seq(WriteJobs) /\ running' \in WriteJobs
         /\ CountedIn(queue) = CountedIn(queue') + CountedIn(<<running'>>)
<1>1. /\ queue \in Seq(WriteJobs) /\ queue' \in Seq(WriteJobs) /\ Len(queue') = Len(queue) - 1
      /\ Len(queue) \in Nat /\ 1 \in 1..Len(queue) /\ running' = queue[1]
      /\ \A i \in 1..Len(queue') : i + 1 \in 1..Len(queue) /\ queue'[i] = queue[i + 1]
      /\ \A i \in 1..Len(queue) : queue[i] \in WriteJobs
  BY HeadTailProperties, LenProperties, EmptySeq, ElementOfSeq DEF WorkerInv, ThreadTypes
<1>2. CountedIn(queue) = CountedIn(queue') + CountedIn(<<running'>>)
  BY <1>1, CountStarted
<1>5. /\ left # Idle => left \in WriteJobs /\ JobSound(left) /\ lifetime = "down"
      /\ \A i \in 1..Len(queue) : JobSound(queue[i]) /\ (lifetime = "down" => Harmless(queue[i]))
      /\ \A i, k \in 1..Len(queue) : i < k => Ordered(queue[i], queue[k])
  BY DEF WorkerInv, ThreadTypes, Line
<1>6. /\ \A x \in WriteJobs : JobSound(x) => JobSound(x)'
      /\ \A x, y \in WriteJobs : JobSound(x) /\ JobSound(y) /\ Ordered(x, y) => Ordered(x, y)'
  BY DEF Keeps
<1>7. /\ running' \in WriteJobs /\ JobSound(running') /\ (lifetime = "down" => Harmless(running'))
  BY <1>1, <1>5
<1>8. ASSUME NEW i \in 1..Len(queue')
      PROVE  /\ JobSound(queue[i])' /\ Ordered(running, queue[i])'
             /\ lifetime' = "down" => Harmless(queue'[i])
  <2>1. queue'[i] \in WriteJobs /\ JobSound(queue'[i]) /\ Ordered(running', queue'[i])
        /\ (lifetime = "down" => Harmless(queue'[i]))
    <3>1. 1 < i + 1
      BY <1>1
    <3>2. QED
      BY <1>1, <1>5, <3>1
  <2>2. QED
    BY <1>6, <1>7, <2>1
<1>9. ASSUME NEW i \in 1..Len(queue'), NEW k \in 1..Len(queue'), i < k
      PROVE  Ordered(queue[i], queue[k])'
  <2>1. /\ queue'[i] \in WriteJobs /\ JobSound(queue'[i]) /\ queue'[k] \in WriteJobs
        /\ JobSound(queue'[k]) /\ Ordered(queue'[i], queue'[k])
    <3>1. i + 1 < k + 1 /\ i + 1 \in 1..Len(queue) /\ k + 1 \in 1..Len(queue)
      BY <1>1, <1>9
    <3>2. QED
      BY <1>1, <1>5, <3>1
  <2>2. QED
    BY <1>6, <2>1
<1>10. JobSound(running)' /\ (left' # Idle => JobSound(left)')
  BY <1>5, <1>6, <1>7
<1>11. QED
  BY <1>1, <1>2, <1>5, <1>7, <1>8, <1>9, <1>10 DEF Line, Harmless

(* The job the thread is in ends.                                          *)
LEMMA LineLanded ==
  ASSUME WorkerInv, running # Idle, LandingKeeps(running), running' = Idle,
         UNCHANGED <<queue, left>>, lifetime' = "down" <=> lifetime = "down"
  PROVE  Line'
<1>1. /\ running \in WriteJobs /\ (lifetime = "down" => Harmless(running))
      /\ left # Idle => left \in WriteJobs /\ JobSound(left) /\ lifetime = "down"
      /\ \A i \in 1..Len(queue) : /\ queue[i] \in WriteJobs /\ JobSound(queue[i])
                                  /\ Ordered(running, queue[i])
                                  /\ lifetime = "down" => Harmless(queue[i])
      /\ \A i, k \in 1..Len(queue) : i < k => Ordered(queue[i], queue[k])
  BY QueueParts DEF WorkerInv, ThreadTypes, Line
<1>2. /\ \A x \in WriteJobs : JobSound(x) /\ Ordered(running, x) => JobSound(x)'
      /\ \A x, y \in WriteJobs : Ordered(x, y) => Ordered(x, y)'
  BY DEF LandingKeeps
<1>3. left' # Idle => JobSound(left)' /\ lifetime' = "down"
  <2>1. Harmless(running) => Ordered(running, left)
    BY DEF Harmless, Ordered
  <2>2. QED
    BY <1>1, <1>2, <2>1
<1>4. \A i \in 1..Len(queue) : JobSound(queue[i])' /\ (lifetime' = "down" => Harmless(queue[i]))
  BY <1>1, <1>2
<1>5. \A i, k \in 1..Len(queue) : i < k => Ordered(queue[i], queue[k])'
  BY <1>1, <1>2
<1>6. QED
  BY <1>3, <1>4, <1>5 DEF Line, Harmless

LEMMA LineLeftLanded ==
  ASSUME WorkerInv, left # Idle, LandingKeeps(left), left' = Idle,
         UNCHANGED <<queue, running, lifetime>>
  PROVE  Line'
<1>1. /\ left \in WriteJobs /\ lifetime = "down"
      /\ running # Idle => running \in WriteJobs /\ JobSound(running) /\ Harmless(running)
      /\ \A i \in 1..Len(queue) : /\ queue[i] \in WriteJobs /\ JobSound(queue[i])
                                  /\ running # Idle => Ordered(running, queue[i])
                                  /\ Harmless(queue[i])
      /\ \A i, k \in 1..Len(queue) : i < k => Ordered(queue[i], queue[k])
  BY QueueParts DEF WorkerInv, ThreadTypes, Line
<1>2. /\ \A x \in WriteJobs : JobSound(x) /\ Ordered(left, x) => JobSound(x)'
      /\ \A x, y \in WriteJobs : Ordered(x, y) => Ordered(x, y)'
  BY DEF LandingKeeps
<1>3. \A x \in WriteJobs : Harmless(x) => Ordered(left, x)
  BY DEF Harmless, Ordered
<1>4. running' # Idle => JobSound(running)' /\ Harmless(running)
  BY <1>1, <1>2, <1>3
<1>5. \A i \in 1..Len(queue) : JobSound(queue[i])' /\ (running' # Idle => Ordered(running, queue[i])')
  BY <1>1, <1>2, <1>3
<1>6. \A i, k \in 1..Len(queue) : i < k => Ordered(queue[i], queue[k])'
  BY <1>1, <1>2
<1>7. QED
  BY <1>1, <1>4, <1>5, <1>6 DEF Line, Harmless

LEMMA LineShutDown ==
  ASSUME WorkerInv, Keeps, ShutDown, lifetime # "down", lifetime' = "down" PROVE Line'
<1>1. running # Idle => running \in WriteJobs /\ JobSound(running)
  BY DEF WorkerInv, ThreadTypes, Line
<1>2. \A x \in WriteJobs : JobSound(x) => JobSound(x)'
  BY DEF Keeps
<1>3. queue' = <<>> /\ left' = running /\ running' = Idle /\ Len(queue') = 0
  BY DEF ShutDown
<1>4. left' # Idle => JobSound(left)'
  BY <1>1, <1>2, <1>3
<1>5. QED
  BY <1>3, <1>4 DEF Line
-----------------------------------------------------------------------------
(* The steps.                                                              *)

LEMMA WorkerInvInit == WorkerInit => WorkerInv
<1> SUFFICES ASSUME WorkerInit PROVE WorkerInv
  OBVIOUS
<1>0. Len(queue) = 0 /\ Len(landed) = 0 /\ landed \in Seq(Claims) /\ queue \in Seq(WriteJobs)
  BY EmptySeq DEF WorkerInit
<1>1. EngineTypes
  <2>1. blocked \in Claims /\ lastClaim \in 0..MaxClaims /\ now \in 1..MaxTime
    BY DEF WorkerInit, Claims
  <2>2. faults \in [Tools -> FaultRows]
    BY DEF WorkerInit, FaultRows
  <2>3. QED
    BY <1>0, <2>1, <2>2 DEF WorkerInit, EngineTypes
<1>2. EngineSound
  <2>1. \A t \in Tools : /\ blocked[t] <= lastClaim /\ faults[t].last <= now
                         /\ faults[t].recovered <= now /\ ~EpisodeOpen(faults[t])
    BY DEF WorkerInit, EpisodeOpen
  <2>2. QED
    BY <1>0, <1>1, <2>1 DEF EngineSound, EpisodesAreOwned
<1>3. ThreadTypes
  BY <1>0 DEF WorkerInit, ThreadTypes
<1>4. SlotsCounted
  BY CountOfNone DEF WorkerInit, SlotsCounted, InHand
<1>5. Line
  <2>1. running = Idle /\ left = Idle /\ lifetime = "up"
    BY DEF WorkerInit
  <2>2. QED
    BY <1>0, <2>1 DEF Line
<1>6. QED
  BY <1>2, <1>3, <1>4, <1>5 DEF WorkerInv

(* A write is queued, if there is room for it.                             *)
LEMMA SubmitStep ==
  ASSUME WorkerInv, Keeps, EngineSound', NEW write \in WriteJobs, Counted(write), Submit(write),
         JobSound(write)', \A x \in WriteJobs : JobSound(x) => Ordered(x, write)',
         UNCHANGED <<running, left, lifetime>>, lifetime = "down" => Harmless(write)
  PROVE  WorkerInv'
<1>1. CASE slots < MaxQueued
  <2>1. queue' = Append(queue, write) /\ slots' = slots + 1 /\ executor' = TRUE
    BY <1>1 DEF Submit
  <2>2. Line' /\ queue' \in Seq(WriteJobs) /\ CountedIn(queue') = CountedIn(queue) + CountedIn(<<write>>)
    BY <2>1, LineJoined
  <2>3. CountedIn(<<write>>) = 1 /\ CountedIn(queue) \in Nat
    BY CountOfOne, CountIsNat DEF WorkerInv, ThreadTypes
  <2>4. ThreadTypes'
    BY <2>1, <2>2 DEF WorkerInv, ThreadTypes
  <2>5. SlotsCounted'
    <3>1. CountedIn(InHand(running)) \in Nat /\ CountedIn(InHand(left)) \in Nat
      BY HandCount DEF WorkerInv, ThreadTypes
    <3>2. QED
      BY <1>1, <2>1, <2>2, <2>3, <3>1 DEF WorkerInv, SlotsCounted, InHand
  <2>6. QED
    BY <2>2, <2>4, <2>5 DEF WorkerInv
<1>2. CASE ~(slots < MaxQueued)
  <2>1. UNCHANGED <<queue, slots, executor>>
    BY <1>2 DEF Submit
  <2>2. Line'
    BY <2>1, LineKept
  <2>3. QED
    BY <2>1, <2>2 DEF WorkerInv, ThreadTypes, SlotsCounted, InHand
<1>3. QED
  BY <1>1, <1>2

(* A marker or the close is queued.                                        *)
LEMMA UncountedStep ==
  ASSUME WorkerInv, Keeps, EngineSound', NEW write \in WriteJobs, ~Counted(write),
         SubmitUncounted(write), UNCHANGED <<running, left>>, Harmless(write),
         lifetime # "down", lifetime' # "down",
         lifetime' \in {"up", "draining", "drained", "closing", "closed", "down"}
  PROVE  WorkerInv'
<1>1. queue' = Append(queue, write) /\ slots' = slots /\ executor' = TRUE
  BY DEF SubmitUncounted
<1>2. JobSound(write)' /\ \A x \in WriteJobs : JobSound(x) => Ordered(x, write)'
  BY DEF Harmless, JobSound, Ordered
<1>3. Line' /\ queue' \in Seq(WriteJobs) /\ CountedIn(queue') = CountedIn(queue) + CountedIn(<<write>>)
  BY <1>1, <1>2, LineJoined
<1>4. CountedIn(<<write>>) = 0 /\ CountedIn(queue) \in Nat
  BY CountOfOne, CountIsNat DEF WorkerInv, ThreadTypes
<1>5. ThreadTypes'
  BY <1>1, <1>3 DEF WorkerInv, ThreadTypes
<1>6. SlotsCounted'
  BY <1>1, <1>3, <1>4 DEF WorkerInv, SlotsCounted, InHand
<1>7. QED
  BY <1>3, <1>5, <1>6 DEF WorkerInv

(* Only the engine, the store or the phase of the process changes.         *)
LEMMA QuietWorkerStep ==
  ASSUME WorkerInv, Keeps, EngineSound', UNCHANGED <<queue, running, left, executor, slots>>,
         lifetime' \in {"up", "draining", "drained", "closing", "closed", "down"},
         lifetime' = "down" => lifetime = "down" \/ (running = Idle /\ queue = <<>>),
         lifetime = "down" => lifetime' = "down"
  PROVE  WorkerInv'
<1>1. Line'
  <2>1. CASE lifetime' = lifetime
    BY <2>1, LineKept
  <2>2. CASE lifetime' # lifetime
    <3>1. \A x \in WriteJobs : JobSound(x) => JobSound(x)'
      BY DEF Keeps
    <3>2. \A x, y \in WriteJobs : JobSound(x) /\ JobSound(y) /\ Ordered(x, y) => Ordered(x, y)'
      BY DEF Keeps
    <3>3. /\ running # Idle => running \in WriteJobs /\ JobSound(running)
          /\ left = Idle
          /\ \A i \in 1..Len(queue) : /\ queue[i] \in WriteJobs /\ JobSound(queue[i])
                                      /\ running # Idle => Ordered(running, queue[i])
          /\ \A i, k \in 1..Len(queue) : i < k => Ordered(queue[i], queue[k])
      BY <2>2, QueueParts DEF WorkerInv, ThreadTypes, Line
    <3>4. /\ running' # Idle => JobSound(running)'
          /\ \A i \in 1..Len(queue) : JobSound(queue[i])' /\ (running' # Idle => Ordered(running, queue[i])')
      BY <3>1, <3>2, <3>3
    <3>5. \A i, k \in 1..Len(queue) : i < k => Ordered(queue[i], queue[k])'
      BY <3>2, <3>3
    <3>6. CASE lifetime' # "down"
      BY <3>3, <3>4, <3>5, <3>6 DEF Line
    <3>7. CASE lifetime' = "down"
      <4>1. running' = Idle /\ Len(queue') = 0
        BY <2>2, <3>7
      <4>2. QED
        BY <3>3, <4>1 DEF Line
    <3>8. QED
      BY <3>6, <3>7
  <2>3. QED
    BY <2>1, <2>2
<1>2. QED
  BY <1>1 DEF WorkerInv, ThreadTypes, SlotsCounted, InHand

LEMMA JobsTyped ==
  /\ [op |-> "write"] \in WriteJobs /\ [op |-> "noop"] \in WriteJobs /\ [op |-> "close"] \in WriteJobs
  /\ \A t \in Tools, at \in Moments : [op |-> "fault", tool |-> t, at |-> at] \in WriteJobs
  /\ \A S \in SUBSET Tools, at \in Moments, c \in Claims :
       [op |-> "recovery", tools |-> S, at |-> at, released |-> c] \in WriteJobs
BY DEF WriteJobs

LEMMA StillKeeps ==
  ASSUME WorkerInv, UNCHANGED <<store, lifetime>>, UNCHANGED engineVars PROVE EngineSound' /\ Keeps
BY RestKeeps DEF WorkerInv, EngineSound, EngineTypes

LEMMA AwaitedStep == ASSUME WorkerInv, AwaitedWrite PROVE WorkerInv'
<1> DEFINE write == [op |-> "write"]
<1>1. Submit(write) /\ UNCHANGED <<running, left, lifetime>> /\ EngineSound' /\ Keeps
  BY StillKeeps DEF AwaitedWrite, engineVars
<1>2. /\ write \in WriteJobs /\ Counted(write) /\ Harmless(write) /\ JobSound(write)'
      /\ \A x \in WriteJobs : JobSound(x) => Ordered(x, write)'
  BY JobsTyped DEF Counted, Harmless, JobSound, Ordered
<1> HIDE DEF write
<1>3. QED
  BY <1>1, <1>2, SubmitStep

LEMMA StartsStep == ASSUME WorkerInv, WorkerStarts PROVE WorkerInv'
<1>1. /\ running = Idle /\ queue # <<>> /\ running' = Head(queue) /\ queue' = Tail(queue)
      /\ UNCHANGED <<left, executor, slots, store, lifetime>> /\ UNCHANGED engineVars
  BY DEF WorkerStarts
<1>2. EngineSound' /\ Keeps
  BY <1>1, StillKeeps
<1>3. /\ Line' /\ queue' \in Seq(WriteJobs) /\ running' \in WriteJobs
      /\ CountedIn(queue) = CountedIn(queue') + CountedIn(<<running'>>)
  BY <1>1, <1>2, LineStarted
<1>4. ThreadTypes'
  BY <1>1, <1>3 DEF WorkerInv, ThreadTypes
<1>5. SlotsCounted'
  <2>1. CountedIn(InHand(running)) = 0 /\ CountedIn(queue') \in Nat /\ CountedIn(<<running'>>) \in Nat
    <3>1. CountedIn(InHand(running)) = 0
      BY <1>1, HandCount
    <3>2. CountedIn(<<running'>>) \in Nat
      BY <1>3, CountOfOne
    <3>3. QED
      BY <1>3, <3>1, <3>2, CountIsNat
  <2>2. running' # Idle
    BY <1>3, JobShapes
  <2>3. InHand(running)' = <<running'>>
    BY <2>2 DEF InHand
  <2>4. CountedIn(InHand(running)') = CountedIn(<<running'>>) /\ CountedIn(InHand(left)) \in Nat
    BY <2>3, HandCount DEF WorkerInv, ThreadTypes
  <2>5. slots = CountedIn(queue) + CountedIn(InHand(running)) + CountedIn(InHand(left))
        /\ slots \in Nat /\ slots <= MaxQueued
    BY DEF WorkerInv, SlotsCounted
  <2>6. CountedIn(queue)' = CountedIn(queue') /\ CountedIn(InHand(running))' = CountedIn(InHand(running)')
        /\ CountedIn(InHand(left))' = CountedIn(InHand(left))
    BY <1>1 DEF CountedIn, InHand
  <2>7. slots' = CountedIn(queue') + CountedIn(<<running'>>) + 0 + CountedIn(InHand(left))
    BY <1>1, <1>3, <2>1, <2>4, <2>5
  <2>8. QED
    BY <1>1, <2>1, <2>4, <2>5, <2>6, <2>7 DEF SlotsCounted
<1>6. QED
  BY <1>2, <1>3, <1>4, <1>5 DEF WorkerInv

LEMMA ReturnedOne ==
  ASSUME NEW write \in WriteJobs, NEW ok, slots \in Nat,
         NEW rest \in Nat, slots = rest + CountedIn(<<write>>)
  PROVE  Returned(<<write>>, ok) = rest
BY CountOfOne DEF Returned

LEMMA EndsStep == ASSUME WorkerInv, NEW ok \in BOOLEAN, JobEnds(ok) PROVE WorkerInv'
<1>1. /\ running # Idle /\ Lands(running, ok) /\ running' = Idle
      /\ slots' = Returned(<<running>>, ok) /\ UNCHANGED <<queue, executor, left>>
      /\ lifetime' \in {"up", "draining", "drained", "closing", "closed", "down"}
      /\ lifetime' = "down" <=> lifetime = "down"
  BY DEF JobEnds, Ends, Lands, WorkerInv, ThreadTypes
<1>2. running \in WriteJobs /\ JobSound(running)
  BY <1>1 DEF WorkerInv, ThreadTypes, Line
<1>3. EngineSound' /\ LandingKeeps(running)
  BY <1>1, <1>2, LandingSound DEF WorkerInv
<1>4. Line'
  BY <1>1, <1>3, LineLanded
<1>5. ThreadTypes'
  BY <1>1 DEF WorkerInv, ThreadTypes
<1>6. SlotsCounted'
  <2>1. /\ CountedIn(queue) \in Nat /\ CountedIn(InHand(left)) \in Nat
        /\ CountedIn(InHand(running)) = CountedIn(<<running>>) /\ CountedIn(<<running>>) \in Nat
    BY <1>1, <1>2, HandCount, CountIsNat, CountOfOne DEF WorkerInv, ThreadTypes
  <2> DEFINE rest == CountedIn(queue) + CountedIn(InHand(left))
  <2>2. slots = rest + CountedIn(<<running>>) /\ slots \in Nat /\ slots <= MaxQueued /\ rest \in Nat
    BY <2>1 DEF WorkerInv, SlotsCounted
  <2> HIDE DEF rest
  <2>3. slots' = rest
    BY <1>1, <1>2, <2>2, ReturnedOne
  <2>4. CountedIn(InHand(running))' = 0
    BY <1>1, CountOfNone DEF InHand
  <2>5. CountedIn(queue)' = CountedIn(queue) /\ CountedIn(InHand(left))' = CountedIn(InHand(left))
    BY <1>1 DEF CountedIn, InHand
  <2>6. slots' = CountedIn(queue)' + CountedIn(InHand(running))' + CountedIn(InHand(left))'
    BY <2>1, <2>3, <2>4, <2>5 DEF rest
  <2>7. slots' \in Nat /\ slots' <= MaxQueued
    BY <2>1, <2>2, <2>3
  <2>8. QED
    BY <2>6, <2>7 DEF SlotsCounted
<1>7. QED
  BY <1>3, <1>4, <1>5, <1>6 DEF WorkerInv

LEMMA FinishLeftStep == ASSUME WorkerInv, NEW ok \in BOOLEAN, FinishLeft(ok) PROVE WorkerInv'
<1>1. /\ left # Idle /\ Lands(left, ok) /\ left' = Idle
      /\ slots' = Returned(<<left>>, ok) /\ UNCHANGED <<queue, executor, running, lifetime>>
  BY DEF FinishLeft, Ends, Lands
<1>2. left \in WriteJobs /\ JobSound(left)
  BY <1>1 DEF WorkerInv, ThreadTypes, Line
<1>3. EngineSound' /\ LandingKeeps(left)
  BY <1>1, <1>2, LandingSound DEF WorkerInv
<1>4. Line'
  BY <1>1, <1>3, LineLeftLanded
<1>5. ThreadTypes'
  BY <1>1 DEF WorkerInv, ThreadTypes
<1>6. SlotsCounted'
  <2>1. /\ CountedIn(queue) \in Nat /\ CountedIn(InHand(running)) \in Nat
        /\ CountedIn(InHand(left)) = CountedIn(<<left>>) /\ CountedIn(<<left>>) \in Nat
    BY <1>1, <1>2, HandCount, CountIsNat, CountOfOne DEF WorkerInv, ThreadTypes
  <2> DEFINE rest == CountedIn(queue) + CountedIn(InHand(running))
  <2>2. slots = rest + CountedIn(<<left>>) /\ slots \in Nat /\ slots <= MaxQueued /\ rest \in Nat
    BY <2>1 DEF WorkerInv, SlotsCounted
  <2> HIDE DEF rest
  <2>3. slots' = rest
    BY <1>1, <1>2, <2>2, ReturnedOne
  <2>4. CountedIn(InHand(left))' = 0
    BY <1>1, CountOfNone DEF InHand
  <2>5. CountedIn(queue)' = CountedIn(queue) /\ CountedIn(InHand(running))' = CountedIn(InHand(running))
    BY <1>1 DEF CountedIn, InHand
  <2>6. slots' = CountedIn(queue)' + CountedIn(InHand(running))' + CountedIn(InHand(left))'
    BY <2>1, <2>3, <2>4, <2>5 DEF rest
  <2>7. slots' \in Nat /\ slots' <= MaxQueued
    BY <2>1, <2>2, <2>3
  <2>8. QED
    BY <2>6, <2>7 DEF SlotsCounted
<1>7. QED
  BY <1>3, <1>4, <1>5, <1>6 DEF WorkerInv

LEMMA TurnedAwayStep == ASSUME WorkerInv, NEW t \in Tools, TurnedAway(t) PROVE WorkerInv'
<1>1. /\ lifetime # "down" /\ lastClaim < MaxClaims /\ lastClaim' = lastClaim + 1
      /\ blocked' = [blocked EXCEPT ![t] = lastClaim + 1]
      /\ Submit([op |-> "fault", tool |-> t, at |-> now])
      /\ UNCHANGED <<running, left, store, lifetime, landed, faults, peers, now>>
  BY DEF TurnedAway
<1>2. /\ EngineSound' /\ Keeps /\ blocked'[t] # 0
      /\ \A i \in 1..Len(landed) : landed[i][t] # blocked'[t]
      /\ \A x \in WriteJobs : JobSound(x) /\ x.op = "recovery" => x.released[t] # blocked'[t]
  BY <1>1, TurnedAwayKeeps DEF WorkerInv
<1>3. now \in Moments /\ now \in Nat
  BY EngineParts DEF WorkerInv, EngineSound, EngineTypes
<1>4. PICK write \in WriteJobs : write = [op |-> "fault", tool |-> t, at |-> now]
  BY <1>3, JobsTyped
<1>5. /\ Counted(write) /\ write.op = "fault" /\ write.tool = t /\ write.at = now /\ Submit(write)
  BY <1>1, <1>4 DEF Counted
<1>6. JobSound(write)'
  BY <1>1, <1>2, <1>3, <1>5 DEF JobSound
<1>7. \A x \in WriteJobs : JobSound(x) => Ordered(x, write)'
  BY <1>2, <1>5 DEF Ordered
<1>8. QED
  BY <1>1, <1>2, <1>5, <1>6, <1>7, SubmitStep

LEMMA SucceededStep == ASSUME WorkerInv, NEW t \in Tools, Succeeded(t) PROVE WorkerInv'
<1> DEFINE closes == {u \in Tools : blocked[u] # 0} \cup {t}
           holds == [u \in Tools |-> IF u \in closes THEN blocked[u] ELSE 0]
<1>1. /\ lifetime # "down"
      /\ Submit([op |-> "recovery", tools |-> closes, at |-> now, released |-> holds])
      /\ UNCHANGED <<running, left, store, lifetime>> /\ UNCHANGED engineVars
  BY DEF Succeeded
<1>2. EngineSound' /\ Keeps
  BY <1>1, StillKeeps
<1>3. /\ holds \in Claims /\ now \in Moments /\ now \in Nat /\ closes \in SUBSET Tools
      /\ \A u \in Tools : holds[u] <= lastClaim /\ (holds[u] # 0 => u \in closes)
  BY EngineParts DEF WorkerInv, EngineSound, EngineTypes, Claims
<1> HIDE DEF holds, closes
<1>4. PICK write \in WriteJobs :
        write = [op |-> "recovery", tools |-> closes, at |-> now, released |-> holds]
  BY <1>3, JobsTyped
<1>5. /\ Counted(write) /\ write.op = "recovery" /\ write.tools = closes /\ write.at = now
      /\ write.released = holds /\ Submit(write)
  BY <1>1, <1>4 DEF Counted
<1>6. \A u \in Tools : faults[u].last <= now
  BY DEF WorkerInv, EngineSound
<1>7. JobSound(write)
  BY <1>3, <1>5, <1>6 DEF JobSound, LandsVouched
<1>8. JobSound(write)'
  BY <1>2, <1>7 DEF Keeps
<1>9. ASSUME NEW x \in WriteJobs, JobSound(x) PROVE Ordered(x, write)'
  BY <1>1, <1>5, <1>9 DEF JobSound, Ordered, engineVars
<1>10. QED
  BY <1>1, <1>2, <1>5, <1>8, <1>9, SubmitStep

LEMMA MarkerSteps ==
  ASSUME WorkerInv, DrainWrites \/ DrainTimesOut \/ CloseStore \/ ThreadCloses PROVE WorkerInv'
<1>1. CASE DrainWrites
  <2>1. lifetime = "up" /\ UNCHANGED <<running, left, store>> /\ UNCHANGED engineVars
    BY <1>1 DEF DrainWrites
  <2>2. EngineSound' /\ Keeps
    BY <2>1, RestKeeps DEF WorkerInv, EngineSound, EngineTypes
  <2>3. CASE executor
    <3>1. SubmitUncounted([op |-> "noop"]) /\ lifetime' = "draining"
      BY <1>1, <2>3 DEF DrainWrites
    <3>2. [op |-> "noop"] \in WriteJobs /\ ~Counted([op |-> "noop"]) /\ Harmless([op |-> "noop"])
      BY JobsTyped DEF Counted, Harmless
    <3>3. QED
      BY <2>1, <2>2, <3>1, <3>2, UncountedStep
  <2>4. CASE ~executor
    BY <1>1, <2>1, <2>2, <2>4, QuietWorkerStep DEF DrainWrites
  <2>5. QED
    BY <2>3, <2>4
<1>2. CASE DrainTimesOut
  <2>1. /\ lifetime = "draining" /\ lifetime' = "drained"
        /\ UNCHANGED <<running, left, executor, slots, store>> /\ UNCHANGED engineVars
    BY <1>2 DEF DrainTimesOut
  <2>2. EngineSound' /\ Keeps
    BY <2>1, RestKeeps DEF WorkerInv, EngineSound, EngineTypes
  <2>3. CASE UNCHANGED queue
    BY <2>1, <2>2, <2>3, QuietWorkerStep
  <2>4. CASE \E i \in DOMAIN queue : queue[i].op = "noop" /\ queue' = RemoveAt(queue, i)
    <3>1. PICK i \in 1..Len(queue) : queue[i].op = "noop" /\ queue' = RemoveAt(queue, i)
      BY <2>4, QueueParts DEF WorkerInv
    <3>2. ~Counted(queue[i])
      BY <3>1 DEF Counted
    <3>3. Line' /\ queue' \in Seq(WriteJobs) /\ CountedIn(queue') = CountedIn(queue)
      BY <2>1, <2>2, <3>1, <3>2, LineShortened
    <3>4. queue # <<>>
      BY <3>1
    <3>5. ThreadTypes'
      BY <2>1, <3>3, <3>4 DEF WorkerInv, ThreadTypes
    <3>6. QED
      BY <2>1, <2>2, <3>3, <3>5 DEF WorkerInv, SlotsCounted, InHand
  <2>5. QED
    BY <1>2, <2>3, <2>4 DEF DrainTimesOut
<1>3. CASE CloseStore
  <2>1. lifetime = "drained" /\ UNCHANGED <<running, left>> /\ UNCHANGED engineVars
        /\ store' \in {store, "closed"} /\ (store = "closed" => store' = "closed")
    BY <1>3 DEF CloseStore
  <2>2. EngineSound' /\ Keeps
    BY <2>1, RestKeeps DEF WorkerInv
  <2>3. CASE executor
    <3>1. SubmitUncounted([op |-> "close"]) /\ lifetime' = "closing"
      BY <1>3, <2>3 DEF CloseStore
    <3>2. [op |-> "close"] \in WriteJobs /\ ~Counted([op |-> "close"]) /\ Harmless([op |-> "close"])
      BY JobsTyped DEF Counted, Harmless
    <3>3. QED
      BY <2>1, <2>2, <3>1, <3>2, UncountedStep
  <2>4. CASE ~executor
    <3>1. running = Idle /\ queue = <<>>
      BY <2>4 DEF WorkerInv, ThreadTypes
    <3>2. lifetime' = "down" /\ UNCHANGED <<queue, running, left, executor, slots>>
      BY <1>3, <2>4 DEF CloseStore, WorkerInv, ThreadTypes
    <3>3. QED
      BY <2>1, <2>2, <3>1, <3>2, QuietWorkerStep
  <2>5. QED
    BY <2>3, <2>4
<1>4. CASE ThreadCloses
  <2>1. /\ store' = "closed" /\ UNCHANGED <<queue, running, left, executor, slots, lifetime>>
        /\ UNCHANGED engineVars
    BY <1>4 DEF ThreadCloses
  <2>2. EngineSound' /\ Keeps
    BY <2>1, RestKeeps DEF WorkerInv
  <2>3. QED
    BY <2>1, <2>2, QuietWorkerStep DEF WorkerInv, ThreadTypes
<1>5. QED
  BY <1>1, <1>2, <1>3, <1>4

LEMMA ShutDownStep == ASSUME WorkerInv, CloseReturns \/ CloseTimesOut PROVE WorkerInv'
<1>1. /\ ShutDown /\ lifetime # "down" /\ lifetime' = "down" /\ UNCHANGED engineVars
      /\ store' \in {store, "closing"} /\ (store = "closed" => store' = "closed")
  BY DEF CloseReturns, CloseTimesOut, TimeoutCloses
<1>2. EngineSound' /\ Keeps
  BY <1>1, RestKeeps DEF WorkerInv
<1>3. Line'
  BY <1>1, <1>2, LineShutDown
<1>4. /\ executor' = FALSE /\ queue' = <<>> /\ slots' = slots - CountedIn(queue)
      /\ left' = running /\ running' = Idle
  BY <1>1 DEF ShutDown, Returned
<1>5. ThreadTypes'
  BY <1>1, <1>4, EmptySeq DEF WorkerInv, ThreadTypes
<1>6. SlotsCounted'
  <2>1. CountedIn(queue) \in Nat /\ CountedIn(InHand(running)) \in Nat
    BY HandCount, CountIsNat DEF WorkerInv, ThreadTypes
  <2>2. left = Idle
    BY <1>1 DEF WorkerInv, Line
  <2>3. CountedIn(InHand(left)) = 0
    BY <2>2, CountOfNone DEF InHand
  <2>4. slots = CountedIn(queue) + CountedIn(InHand(running)) /\ slots <= MaxQueued
    BY <2>1, <2>3 DEF WorkerInv, SlotsCounted
  <2>5. CountedIn(queue)' = 0 /\ CountedIn(InHand(running))' = 0
    BY <1>4, CountOfNone DEF InHand
  <2>6. CountedIn(InHand(left))' = CountedIn(InHand(running))
    BY <1>4 DEF InHand
  <2>7. slots' = CountedIn(InHand(running)) /\ slots' <= MaxQueued
    BY <1>4, <2>1, <2>4
  <2>8. QED
    BY <2>1, <2>5, <2>6, <2>7 DEF SlotsCounted
<1>7. QED
  BY <1>2, <1>3, <1>5, <1>6 DEF WorkerInv

LEMMA EngineSteps ==
  ASSUME WorkerInv,
         \/ ReleaseClaims \/ ClockTick
         \/ \E t \in Tools : PeerTurnedAway(t) \/ PeerSucceeded(t)
  PROVE  WorkerInv'
<1>1. UNCHANGED threadVars /\ UNCHANGED lifetime
  BY DEF ReleaseClaims, ClockTick, PeerTurnedAway, PeerSucceeded
<1>2. EngineSound' /\ Keeps
  <2>1. CASE ReleaseClaims
    BY <2>1, ReleaseKeeps DEF WorkerInv, ReleaseClaims, threadVars
  <2>2. CASE ClockTick
    BY <2>2, ClockKeeps DEF WorkerInv, ClockTick, threadVars
  <2>3. ASSUME NEW t \in Tools, PeerTurnedAway(t) PROVE EngineSound' /\ Keeps
    BY <2>3, PeerTurnedAwayKeeps DEF WorkerInv, PeerTurnedAway, threadVars
  <2>4. ASSUME NEW t \in Tools, PeerSucceeded(t) PROVE EngineSound' /\ Keeps
    <3> DEFINE S == peers \cup {t}
    <3>1. S \in SUBSET Tools /\ peers \subseteq S
      BY DEF WorkerInv, EngineSound, EngineTypes
    <3>2. /\ peers' = {} /\ UNCHANGED <<store, blocked, lastClaim, landed, now>>
          /\ faults' = [u \in Tools |-> IF u \in S THEN WithRecovery(faults[u], now) ELSE faults[u]]
      BY <2>4 DEF PeerSucceeded, threadVars
    <3> HIDE DEF S
    <3>3. QED
      BY <3>1, <3>2, PeerSucceededKeeps DEF WorkerInv
  <2>5. QED
    BY <2>1, <2>2, <2>3, <2>4
<1>3. QED
  BY <1>1, <1>2, QuietWorkerStep DEF threadVars, WorkerInv, ThreadTypes

LEMMA WorkerInvStep == WorkerInv /\ [WorkerNext]_workerVars => WorkerInv'
<1> SUFFICES ASSUME WorkerInv, [WorkerNext]_workerVars PROVE WorkerInv'
  OBVIOUS
<1>1. CASE UNCHANGED workerVars
  <2>1. /\ UNCHANGED engineVars /\ UNCHANGED <<queue, running, left, executor, slots>>
        /\ UNCHANGED <<store, lifetime>>
    BY <1>1 DEF workerVars, engineVars
  <2>2. QED
    BY <2>1, StillKeeps, QuietWorkerStep DEF WorkerInv, ThreadTypes
<1>2. CASE WorkerNext
  BY <1>2, AwaitedStep, StartsStep, EndsStep, FinishLeftStep, TurnedAwayStep, SucceededStep,
     MarkerSteps, ShutDownStep, EngineSteps DEF WorkerNext
<1>3. QED
  BY <1>1, <1>2

LEMMA WorkerInvAlways == WorkerSpec => []WorkerInv
BY WorkerInvInit, WorkerInvStep, PTL DEF WorkerSpec

(* Every open fault episode stays somebody's to close and the cap counts   *)
(* exactly the pending writes, whatever fails, is refused, is cut off by   *)
(* the teardown or comes late: _enqueue, _release_breaker_claims and       *)
(* _close_episodes.                                                        *)
THEOREM WorkStaysOwned == WorkerSpec => []WorkIsOwned
<1>1. WorkerInv => WorkIsOwned
  BY DEF WorkerInv, WorkIsOwned, SlotsAreWrites, EngineSound, EngineTypes, ThreadTypes, SlotsCounted,
         WorkerTypeOK, FaultRows
<1>2. QED
  BY <1>1, WorkerInvAlways, PTL

(* How a step changes the row of a tool.                                   *)
RowMoves(t) ==
  \/ faults'[t] = faults[t]
  \/ \E at \in Moments : faults'[t] \in {WithFault(faults[t], at), WithRecovery(faults[t], at)}

LEMMA JobMoves ==
  ASSUME WorkerInv, NEW z \in WriteJobs, NEW ok \in BOOLEAN, Ends(z, ok), NEW t \in Tools
  PROVE  RowMoves(t)
<1>1. faults \in [Tools -> FaultRows]
  BY DEF WorkerInv, EngineSound, EngineTypes
<1>2. faults' = faults \/ faults' = Effect(z)
  BY DEF Ends
<1>3. CASE z.op = "fault" /\ faults' = [faults EXCEPT ![z.tool] = WithFault(@, z.at)]
  <2>1. z.at \in Moments /\ z.tool \in Tools
    BY <1>3, JobShapes
  <2>2. faults'[t] = faults[t] \/ faults'[t] = WithFault(faults[t], z.at)
    BY <1>1, <1>3, <2>1
  <2>3. QED
    BY <2>1, <2>2 DEF RowMoves
<1>4. CASE /\ z.op = "recovery"
           /\ faults' = [u \in Tools |-> IF u \in z.tools THEN WithRecovery(faults[u], z.at)
                                                         ELSE faults[u]]
  <2>1. z.at \in Moments
    BY <1>4, JobShapes
  <2>2. faults'[t] = faults[t] \/ faults'[t] = WithRecovery(faults[t], z.at)
    BY <1>4
  <2>3. QED
    BY <2>1, <2>2 DEF RowMoves
<1>5. CASE faults' = faults
  BY <1>5 DEF RowMoves
<1>6. QED
  BY <1>2, <1>3, <1>4, <1>5 DEF Effect

LEMMA RowSteps ==
  ASSUME WorkerInv, WorkerNext, NEW t \in Tools PROVE RowMoves(t)
<1>0. faults \in [Tools -> FaultRows] /\ now \in Moments
  BY DEF WorkerInv, EngineSound, EngineTypes
<1>1. ASSUME NEW ok \in BOOLEAN, JobEnds(ok) \/ FinishLeft(ok) PROVE RowMoves(t)
  BY <1>1, JobMoves DEF JobEnds, FinishLeft, WorkerInv, ThreadTypes
<1>2. ASSUME NEW u \in Tools, PeerTurnedAway(u) PROVE RowMoves(t)
  <2>1. faults'[t] = faults[t] \/ faults'[t] = WithFault(faults[t], now)
    BY <1>0, <1>2 DEF PeerTurnedAway
  <2>2. QED
    BY <1>0, <2>1 DEF RowMoves
<1>3. ASSUME NEW u \in Tools, PeerSucceeded(u) PROVE RowMoves(t)
  <2>1. faults'[t] = faults[t] \/ faults'[t] = WithRecovery(faults[t], now)
    BY <1>3 DEF PeerSucceeded
  <2>2. QED
    BY <1>0, <2>1 DEF RowMoves
<1>4. CASE UNCHANGED faults
  BY <1>4 DEF RowMoves
<1>5. QED
  BY <1>1, <1>2, <1>3, <1>4
     DEF WorkerNext, AwaitedWrite, WorkerStarts, TurnedAway, Succeeded, ReleaseClaims, ClockTick,
         DrainWrites, DrainTimesOut, CloseStore, CloseReturns, CloseTimesOut, ThreadCloses, engineVars

(* A recorded recovery stands: no fault that happened before it reopens    *)
(* the episode, however late its write lands (_record_signal).             *)
THEOREM RecoveriesStand == WorkerSpec => RecoveryStands
<1> DEFINE Stands == \A t \in Tools :
             ~EpisodeOpen(faults[t]) /\ EpisodeOpen(faults[t])' =>
               faults'[t].last >= faults[t].recovered
<1>1. WorkerInv /\ [WorkerNext]_workerVars => [Stands]_workerVars
  <2> SUFFICES ASSUME WorkerInv, WorkerNext, NEW t \in Tools,
                      ~EpisodeOpen(faults[t]), EpisodeOpen(faults[t])'
               PROVE  faults'[t].last >= faults[t].recovered
    BY DEF Stands
  <2>1. faults[t] \in FaultRows /\ RowMoves(t)
    BY RowSteps DEF WorkerInv, EngineSound, EngineTypes
  <2>2. CASE faults'[t] = faults[t]
    BY <2>2 DEF EpisodeOpen
  <2>3. ASSUME NEW at \in Moments, faults'[t] = WithFault(faults[t], at)
        PROVE  faults'[t].last >= faults[t].recovered
    <3> DEFINE row == WithFault(faults[t], at)
    <3>1. ~EpisodeOpen(faults[t]) /\ EpisodeOpen(row) => row.last >= faults[t].recovered
      BY <2>1, FaultRow
    <3>2. EpisodeOpen(row)
      BY <2>3 DEF EpisodeOpen
    <3>3. QED
      BY <2>3, <3>1, <3>2
  <2>4. ASSUME NEW at \in Moments, faults'[t] = WithRecovery(faults[t], at) PROVE FALSE
    <3> DEFINE row == WithRecovery(faults[t], at)
    <3>1. EpisodeOpen(row) => EpisodeOpen(faults[t])
      BY <2>1, RecoveryRow
    <3>2. EpisodeOpen(row)
      BY <2>4 DEF EpisodeOpen
    <3>3. QED
      BY <3>1, <3>2
  <2>5. QED
    BY <2>1, <2>2, <2>3, <2>4 DEF RowMoves
<1>2. QED
  BY <1>1, WorkerInvAlways, PTL DEF WorkerSpec, RecoveryStands
HIDE WorkerAssumption DEF Moments
-----------------------------------------------------------------------------
(* Scores: in a server's band, moved only for ratings, once for each.      *)

Scores == Int \cup {Unset}

TunerStates == [at : {"down", "starting", "up"}, score : [RatedTools -> Scores],
                mark : [RatedTools -> (Nat \X Nat) \cup {Unset}], seen : Nat,
                moves : [RatedTools -> Nat], since : [RatedTools -> Nat],
                torn : [RatedTools -> Nat]]

CountingStates == [at : {"counting"}, tool : RatedTools, cap : Int, own : Nat, since : Nat]
MarkedStates == [at : {"marked"}, tool : RatedTools, cap : Int]
ReadStates == [at : {"read"}, tool : RatedTools, cap : Int, noisy : BOOLEAN]
MovedStates == [at : {"moved"}, tool : RatedTools]

TuningStates == {NotTuning} \cup CountingStates \cup MarkedStates \cup ReadStates \cup MovedStates

TuningTypes ==
  /\ ratings \in [RatedTools -> [RatingKinds -> Nat]] /\ saved \in [RatedTools -> Scores]
  /\ tuner \in [Servers -> TunerStates] /\ tuning \in [Servers -> TuningStates]
  /\ everRated \subseteq RatingKinds /\ changes \in Nat

(* Once a server serves, each score of its own is in its band, and what it *)
(* adjusts is capped by the band.                                          *)
BandInv ==
  \A s \in Servers :
    /\ tuner[s].at = "up" =>
         \A t \in RatedTools : tuner[s].score[t] = Unset \/ tuner[s].score[t] \in Floor[s]..Ceiling[s]
    /\ tuning[s].at # "none" => tuner[s].at = "up"
    /\ tuning[s].at \in {"counting", "marked", "read"} => tuning[s].cap <= Ceiling[s]

(* No score, in a server or in the file, has left min_score in a direction *)
(* nobody has ever rated in, and no adjustment under way is about to.      *)
NoneAbove(f) == \A t \in RatedTools : f[t] = Unset \/ f[t] <= Base
NoneBelow(f) == \A t \in RatedTools : f[t] = Unset \/ f[t] >= Base

AskedInv ==
  /\ \A t \in RatedTools, k \in RatingKinds : k \notin everRated => ratings[t][k] = 0
  /\ "negative" \notin everRated =>
       /\ NoneAbove(saved)
       /\ \A s \in Servers : NoneAbove(tuner[s].score) /\ (tuning[s].at = "read" => ~tuning[s].noisy)
  /\ "helpful" \notin everRated =>
       NoneBelow(saved) /\ \A s \in Servers : NoneBelow(tuner[s].score)

(* An adjustment that may still move the score of a tool.                  *)
Busy(job, t) == IF job.at \in {"marked", "read"} /\ job.tool = t THEN 1 ELSE 0

Counts(t) == <<FeedbackCount({t}), FeedbackCount(RatedTools)>>

(* Up to its last mark a tool has moved once for the start and once for    *)
(* each change its first count could see, and once more for each that      *)
(* landed between the counts of a mark. A mark taken since the last change *)
(* holds the counts as they are.                                           *)
Evident(row, job, t) ==
  /\ row.seen <= row.since[t] /\ row.since[t] <= changes
  /\ row.moves[t] + Busy(job, t) <=
       (IF row.mark[t] = Unset THEN 0 ELSE 1) + (row.since[t] - row.seen) + row.torn[t]
  /\ row.mark[t] = Unset \/ row.since[t] # changes \/ row.mark[t] = Counts(t)

(* The first count of an adjustment was read after the last mark.          *)
OwnCount(row, job) ==
  job.at = "counting" =>
    /\ row.since[job.tool] <= job.since /\ job.since <= changes
    /\ job.since = changes => job.own = FeedbackCount({job.tool})

EvidenceInv ==
  \A s \in Servers : /\ OwnCount(tuner[s], tuning[s])
                     /\ \A t \in RatedTools : Evident(tuner[s], tuning[s], t)

TuningInv == TuningTypes /\ BandInv /\ AskedInv /\ EvidenceInv

LEMMA MaxOfTwo ==
  ASSUME NEW x \in Int, NEW y \in Int PROVE Max({x, y}) = IF x >= y THEN x ELSE y
<1>1. CASE x >= y
  <2>1. x \in {x, y} /\ \A z \in {x, y} : x >= z
    BY <1>1
  <2>2. ASSUME NEW z \in {x, y}, \A u \in {x, y} : z >= u PROVE z = x
    BY <1>1, <2>2
  <2>3. QED
    BY <1>1, <2>1, <2>2 DEF Max
<1>2. CASE ~(x >= y)
  <2>1. y \in {x, y} /\ \A z \in {x, y} : y >= z
    BY <1>2
  <2>2. ASSUME NEW z \in {x, y}, \A u \in {x, y} : z >= u PROVE z = y
    BY <1>2, <2>2
  <2>3. QED
    BY <1>2, <2>1, <2>2 DEF Max
<1>3. QED
  BY <1>1, <1>2

LEMMA MinOfTwo ==
  ASSUME NEW x \in Int, NEW y \in Int PROVE Min({x, y}) = IF x <= y THEN x ELSE y
<1>1. CASE x <= y
  <2>1. x \in {x, y} /\ \A z \in {x, y} : x <= z
    BY <1>1
  <2>2. ASSUME NEW z \in {x, y}, \A u \in {x, y} : z <= u PROVE z = x
    BY <1>1, <2>2
  <2>3. QED
    BY <1>1, <2>1, <2>2 DEF Min
<1>2. CASE ~(x <= y)
  <2>1. y \in {x, y} /\ \A z \in {x, y} : y <= z
    BY <1>2
  <2>2. ASSUME NEW z \in {x, y}, \A u \in {x, y} : z <= u PROVE z = y
    BY <1>2, <2>2
  <2>3. QED
    BY <1>2, <2>1, <2>2 DEF Min
<1>3. QED
  BY <1>1, <1>2

LEMMA Bands ==
  ASSUME NEW s \in Servers
  PROVE  /\ Base \in Int /\ Floor[s] \in Int /\ Ceiling[s] \in Int
         /\ Floor[s] <= Base /\ Base <= Ceiling[s]
BY TuningAssumption

(* A clamped score is in the band and on the side of min_score it was.     *)
LEMMA ClampFacts ==
  ASSUME NEW s \in Servers, NEW score \in Int
  PROVE  /\ Clamp(s, score) \in Floor[s]..Ceiling[s]
         /\ score <= Base => Clamp(s, score) <= Base
         /\ score >= Base => Clamp(s, score) >= Base
         /\ Clamp(s, score) \in Int
BY Bands, MaxOfTwo, MinOfTwo DEF Clamp

LEMMA CeilingFacts ==
  ASSUME NEW s \in Servers, NEW c \in Attainable
  PROVE  /\ EffectiveCeiling(s, c) \in Int /\ EffectiveCeiling(s, c) <= Ceiling[s]
         /\ c >= Base => EffectiveCeiling(s, c) <= c
<1>1. c \in Int
  BY TuningAssumption
<1>2. QED
  BY <1>1, Bands, MaxOfTwo, MinOfTwo DEF EffectiveCeiling

(* Counting ratings.                                                       *)
LEMMA CountTyped ==
  ASSUME NEW kinds \in SUBSET RatingKinds, NEW tools \in SUBSET RatedTools
  PROVE  CountIn(kinds, tools) \in Nat
<1> DEFINE all == tools \X kinds \X (1..MaxChanges)
           S == {row \in all : row[3] <= ratings[row[1]][row[2]]}
<1>1. IsFiniteSet(tools) /\ IsFiniteSet(1..MaxChanges)
  <2>1. IsFiniteSet(RatedTools) /\ MaxChanges \in Nat
    BY TuningAssumption
  <2>2. QED
    BY <2>1, FS_Subset, FS_Interval
<1>2. IsFiniteSet(kinds)
  <2>1. IsFiniteSet(RatingKinds)
    <3>1. RatingKinds = {"negative"} \cup {"helpful"} \cup {"neutral"} \cup {"offscale"}
      BY DEF RatingKinds
    <3>2. QED
      BY <3>1, FS_Singleton, FS_Union
  <2>2. QED
    BY <2>1, FS_Subset
<1>3. IsFiniteSet(all)
  <2> DEFINE g == [x \in (tools \X kinds) \X (1..MaxChanges) |-> <<x[1][1], x[1][2], x[2]>>]
  <2>1. IsFiniteSet((tools \X kinds) \X (1..MaxChanges))
    BY <1>1, <1>2, FS_Product
  <2>2. g \in Surjection((tools \X kinds) \X (1..MaxChanges), all)
    <3>1. g \in [(tools \X kinds) \X (1..MaxChanges) -> all]
      OBVIOUS
    <3>2. ASSUME NEW row \in all PROVE \E x \in (tools \X kinds) \X (1..MaxChanges) : g[x] = row
      <4> DEFINE x == <<<<row[1], row[2]>>, row[3]>>
      <4>1. x \in (tools \X kinds) \X (1..MaxChanges) /\ g[x] = row
        OBVIOUS
      <4>2. QED
        BY <4>1
    <3> HIDE DEF g, all
    <3>3. QED
      BY <3>1, <3>2 DEF Surjection
  <2> HIDE DEF g, all
  <2>3. QED
    BY <2>1, <2>2, FS_Surjection
<1> HIDE DEF all
<1>4. IsFiniteSet(S)
  BY <1>3, FS_Subset
<1>5. QED
  BY <1>4, FS_CardinalityType DEF CountIn, all

(* Nothing is over a share of the ratings when there is none of the kind.  *)
LEMMA NoneIsOver ==
  ASSUME TuningTypes, NEW t \in RatedTools, NEW kind \in RatingKinds, NEW num \in Nat, NEW den \in Nat,
         \A u \in RatedTools : ratings[u][kind] = 0
  PROVE  ~Over(t, kind, num, den)
<1>1. Evidence(t) \in SUBSET RatedTools
  BY DEF Evidence
<1>2. CountIn({kind}, Evidence(t)) = 0
  <2> DEFINE S == {row \in Evidence(t) \X {kind} \X (1..MaxChanges) : row[3] <= ratings[row[1]][row[2]]}
  <2>1. ASSUME NEW row \in Evidence(t) \X {kind} \X (1..MaxChanges)
        PROVE  ~(row[3] <= ratings[row[1]][row[2]])
    <3>1. row[1] \in RatedTools /\ row[2] = kind /\ row[3] \in 1..MaxChanges
      BY <1>1
    <3>2. ratings[row[1]][row[2]] = 0
      BY <3>1
    <3>3. QED
      BY <3>1, <3>2, TuningAssumption
  <2>2. S = {}
    BY <2>1
  <2>3. QED
    BY <2>2, FS_EmptySet DEF CountIn
<1>3. CountIn(Scaled, Evidence(t)) \in Nat
  BY <1>1, CountTyped DEF Scaled
<1>4. 0 * den = 0 /\ CountIn(Scaled, Evidence(t)) * num >= 0
  BY <1>3
<1>5. QED
  BY <1>2, <1>3, <1>4 DEF Over

LEMMA CountsKept ==
  ASSUME UNCHANGED ratings, NEW t
  PROVE  Counts(t)' = Counts(t) /\ FeedbackCount({t})' = FeedbackCount({t})
BY DEF Counts, FeedbackCount, CountIn

LEMMA TunerShapes ==
  ASSUME TuningTypes, NEW s \in Servers
  PROVE  /\ tuner[s].at \in {"down", "starting", "up"} /\ tuner[s].score \in [RatedTools -> Scores]
         /\ tuner[s].mark \in [RatedTools -> (Nat \X Nat) \cup {Unset}] /\ tuner[s].seen \in Nat
         /\ tuner[s].moves \in [RatedTools -> Nat] /\ tuner[s] \in TunerStates
         /\ tuner[s].since \in [RatedTools -> Nat] /\ tuner[s].torn \in [RatedTools -> Nat]
BY DEF TuningTypes, TunerStates

LEMMA JobStates ==
  ASSUME TuningTypes, NEW s \in Servers
  PROVE  /\ tuning[s] \in TuningStates /\ tuning[s].at \in {"none", "counting", "marked", "read", "moved"}
         /\ tuning[s].at # "none" => tuning[s].tool \in RatedTools
         /\ tuning[s].at \in {"counting", "marked", "read"} => tuning[s].cap \in Int
         /\ tuning[s].at = "counting" => tuning[s].own \in Nat /\ tuning[s].since \in Nat
         /\ tuning[s].at = "read" => tuning[s].noisy \in BOOLEAN
<1>1. tuning[s] \in TuningStates
  BY DEF TuningTypes
<1>2. QED
  BY <1>1 DEF TuningStates, CountingStates, MarkedStates, ReadStates, MovedStates, NotTuning

LEMMA BusyIsOne == ASSUME NEW job, NEW t PROVE Busy(job, t) \in {0, 1}
BY DEF Busy

(* A step of one server: what its tuner and its adjustment must satisfy.   *)
LEMMA ServerMoves ==
  ASSUME TuningInv, NEW s \in Servers, UNCHANGED <<ratings, everRated, changes>>,
         saved' \in [RatedTools -> Scores],
         tuner' \in [Servers -> TunerStates], tuning' \in [Servers -> TuningStates],
         \A q \in Servers \ {s} : tuner'[q] = tuner[q] /\ tuning'[q] = tuning[q],
         tuner'[s].at = "up" => \A t \in RatedTools :
           tuner'[s].score[t] = Unset \/ tuner'[s].score[t] \in Floor[s]..Ceiling[s],
         tuning'[s].at # "none" => tuner'[s].at = "up",
         tuning'[s].at \in {"counting", "marked", "read"} => tuning'[s].cap <= Ceiling[s],
         "negative" \notin everRated =>
           NoneAbove(saved') /\ NoneAbove(tuner'[s].score) /\ (tuning'[s].at = "read" => ~tuning'[s].noisy),
         "helpful" \notin everRated => NoneBelow(saved') /\ NoneBelow(tuner'[s].score),
         OwnCount(tuner'[s], tuning'[s]), \A t \in RatedTools : Evident(tuner'[s], tuning'[s], t)
  PROVE  TuningInv'
<1>1. TuningTypes'
  BY DEF TuningInv, TuningTypes
<1>2. BandInv'
  BY DEF TuningInv, BandInv
<1>3. AskedInv'
  BY DEF TuningInv, AskedInv
<1>4. EvidenceInv'
  <2> SUFFICES ASSUME NEW q \in Servers
               PROVE  /\ OwnCount(tuner[q], tuning[q])'
                      /\ \A t \in RatedTools : Evident(tuner[q], tuning[q], t)'
    BY DEF EvidenceInv
  <2>1. /\ OwnCount(tuner'[q], tuning'[q])
        /\ \A t \in RatedTools : Evident(tuner'[q], tuning'[q], t)
    <3>1. CASE q = s
      BY <3>1
    <3>2. CASE q # s
      BY <3>2 DEF TuningInv, EvidenceInv
    <3>3. QED
      BY <3>1, <3>2
  <2>2. \A t : Counts(t)' = Counts(t) /\ FeedbackCount({t})' = FeedbackCount({t})
    BY CountsKept
  <2>3. OwnCount(tuner[q], tuning[q])'
    BY <2>1, <2>2 DEF OwnCount
  <2>4. ASSUME NEW t \in RatedTools PROVE Evident(tuner[q], tuning[q], t)'
    BY <2>1, <2>2 DEF Evident, Busy
  <2>5. QED
    BY <2>3, <2>4
<1>5. QED
  BY <1>1, <1>2, <1>3, <1>4 DEF TuningInv

(* A step of the ratings, which the servers do not see.                    *)
LEMMA RatingsMove ==
  ASSUME TuningInv, UNCHANGED <<saved, tuner, tuning>>, changes' = changes + 1,
         ratings' \in [RatedTools -> [RatingKinds -> Nat]], everRated' \subseteq RatingKinds,
         everRated \subseteq everRated',
         \A t \in RatedTools, k \in RatingKinds : k \notin everRated' => ratings'[t][k] = 0
  PROVE  TuningInv'
<1>0. TuningTypes
  BY DEF TuningInv
<1>1. TuningTypes'
  BY DEF TuningInv, TuningTypes
<1>2. BandInv' /\ AskedInv'
  BY DEF TuningInv, BandInv, AskedInv
<1>3. EvidenceInv'
  <2>1. ASSUME NEW s \in Servers, NEW t \in RatedTools PROVE Evident(tuner[s], tuning[s], t)'
    <3>1. Evident(tuner[s], tuning[s], t)
      BY DEF TuningInv, EvidenceInv
    <3>2. tuner[s].since[t] \in Nat /\ changes \in Nat
      BY <1>0, TunerShapes DEF TuningTypes
    <3>3. QED
      BY <3>1, <3>2 DEF Evident
  <2>2. ASSUME NEW s \in Servers PROVE OwnCount(tuner[s], tuning[s])'
    <3>1. OwnCount(tuner[s], tuning[s])
      BY DEF TuningInv, EvidenceInv
    <3>2. tuning[s].at = "counting" => tuning[s].since \in Nat
      BY <1>0, JobStates
    <3>3. changes \in Nat
      BY <1>0 DEF TuningTypes
    <3>4. QED
      BY <3>1, <3>2, <3>3 DEF OwnCount
  <2>3. QED
    BY <2>1, <2>2 DEF EvidenceInv
<1>4. QED
  BY <1>1, <1>2, <1>3 DEF TuningInv

LEMMA RatingSteps ==
  ASSUME TuningInv, NEW t \in RatedTools, NEW k \in RatingKinds, Rate(t, k) \/ Expire(t, k)
  PROVE  TuningInv'
<1>0. /\ ratings \in [RatedTools -> [RatingKinds -> Nat]] /\ everRated \subseteq RatingKinds
      /\ ratings[t] \in [RatingKinds -> Nat] /\ ratings[t][k] \in Nat
  BY DEF TuningInv, TuningTypes
<1>1. \A u \in RatedTools, j \in RatingKinds : j \notin everRated => ratings[u][j] = 0
  BY DEF TuningInv, AskedInv
<1>2. CASE Rate(t, k)
  <2>1. /\ ratings' = [ratings EXCEPT ![t][k] = ratings[t][k] + 1] /\ everRated' = everRated \cup {k}
        /\ changes' = changes + 1 /\ UNCHANGED <<saved, tuner, tuning>>
    BY <1>2 DEF Rate
  <2>2. /\ ratings' \in [RatedTools -> [RatingKinds -> Nat]]
        /\ \A u \in RatedTools, j \in RatingKinds \ {k} : ratings'[u][j] = ratings[u][j]
    BY <1>0, <2>1
  <2>3. QED
    BY <1>0, <1>1, <2>1, <2>2, RatingsMove
<1>3. CASE Expire(t, k)
  <2>1. /\ ratings' = [ratings EXCEPT ![t][k] = ratings[t][k] - 1] /\ everRated' = everRated
        /\ changes' = changes + 1 /\ UNCHANGED <<saved, tuner, tuning>> /\ ratings[t][k] > 0
    BY <1>3 DEF Expire
  <2>2. /\ ratings' \in [RatedTools -> [RatingKinds -> Nat]]
        /\ \A u \in RatedTools, j \in RatingKinds \ {k} : ratings'[u][j] = ratings[u][j]
    BY <1>0, <2>1
  <2>3. k \in everRated
    BY <1>0, <1>1, <2>1
  <2>4. QED
    BY <1>0, <1>1, <2>1, <2>2, <2>3, RatingsMove
<1>4. QED
  BY <1>2, <1>3

LEMMA DownRow ==
  /\ Down \in TunerStates /\ Down.at = "down" /\ Down.seen = 0 /\ Down.score = NoScores
  /\ Down.mark = NoScores
  /\ \A t \in RatedTools : Down.moves[t] = 0 /\ Down.since[t] = 0 /\ Down.torn[t] = 0
<1>1. NoScores \in [RatedTools -> Scores]
  BY DEF NoScores, Scores
<1>2. NoScores \in [RatedTools -> (Nat \X Nat) \cup {Unset}]
  BY DEF NoScores
<1>3. QED
  BY <1>1, <1>2 DEF Down, TunerStates, Zero

LEMMA NoJob ==
  /\ NotTuning \in TuningStates /\ NotTuning.at = "none" /\ \A t : Busy(NotTuning, t) = 0
  /\ \A row : OwnCount(row, NotTuning)
BY DEF NotTuning, TuningStates, Busy, OwnCount

LEMMA StartStep == ASSUME TuningInv, NEW s \in Servers, Start(s) PROVE TuningInv'
<1> DEFINE own == [t \in RatedTools |-> IF t \in Pinned[s] THEN Unset ELSE saved[t]]
           begun == [t \in RatedTools |-> changes]
           new == [Down EXCEPT !.at = "starting", !.seen = changes, !.since = begun, !.score = own]
<1>0. /\ tuner \in [Servers -> TunerStates] /\ tuning \in [Servers -> TuningStates]
      /\ saved \in [RatedTools -> Scores] /\ changes \in Nat /\ TuningTypes
  BY DEF TuningInv, TuningTypes
<1>1. own \in [RatedTools -> Scores]
  BY <1>0 DEF Scores
<1>2. /\ tuner' = [tuner EXCEPT ![s] = new] /\ UNCHANGED <<ratings, saved, tuning, everRated, changes>>
      /\ tuner[s].at = "down"
  <2>1. new = [Down EXCEPT !.at = "starting", !.seen = changes,
                           !.since = [t \in RatedTools |-> changes],
                           !.score = [t \in RatedTools |-> IF t \in Pinned[s] THEN Unset ELSE saved[t]]]
    OBVIOUS
  <2>2. QED
    BY <2>1, Zenon DEF Start
<1>3. /\ new \in TunerStates /\ new.at = "starting" /\ new.seen = changes /\ new.score = own
      /\ new.mark = NoScores
      /\ \A t \in RatedTools : new.moves[t] = 0 /\ new.since[t] = changes /\ new.torn[t] = 0
  <2>0. begun \in [RatedTools -> Nat] /\ \A t \in RatedTools : begun[t] = changes
    BY <1>0
  <2> HIDE DEF own, begun
  <2>1. PICK row \in TunerStates : row = Down
    BY DownRow
  <2>2. LET started == [row EXCEPT !.at = "starting", !.seen = changes, !.since = begun,
                                   !.score = own] IN
        /\ started \in TunerStates /\ started.at = "starting" /\ started.seen = changes
        /\ started.score = own /\ started.mark = row.mark /\ started.moves = row.moves
        /\ started.since = begun /\ started.torn = row.torn
    <3> HIDE DEF new
    <3>1. changes \in Nat /\ own \in [RatedTools -> Scores]
      BY <1>0, <1>1
    <3>2. QED
      BY <2>0, <3>1 DEF TunerStates
  <2>3. new = [row EXCEPT !.at = "starting", !.seen = changes, !.since = begun, !.score = own]
    BY <2>1
  <2> HIDE DEF new
  <2>4. QED
    BY <2>0, <2>1, <2>2, <2>3, DownRow
<1>4. /\ "negative" \notin everRated => NoneAbove(saved) /\ NoneAbove(own)
      /\ "helpful" \notin everRated => NoneBelow(saved) /\ NoneBelow(own)
  BY DEF TuningInv, AskedInv, NoneAbove, NoneBelow
<1> HIDE DEF new, own, begun
<1>5. tuner'[s] = new /\ tuner' \in [Servers -> TunerStates]
      /\ \A q \in Servers \ {s} : tuner'[q] = tuner[q]
  BY <1>0, <1>2, <1>3
<1>6. tuning[s].at = "none"
  BY <1>2, <1>0, JobStates DEF TuningInv, BandInv
<1>7. OwnCount(new, tuning[s]) /\ \A t \in RatedTools : Evident(new, tuning[s], t)
  BY <1>0, <1>3, <1>6 DEF Busy, Evident, OwnCount, NoScores
<1>8. QED
  BY <1>0, <1>2, <1>3, <1>4, <1>5, <1>6, <1>7, ServerMoves

LEMMA DiesStep == ASSUME TuningInv, NEW s \in Servers, ServerDies(s) PROVE TuningInv'
<1>0. /\ tuner \in [Servers -> TunerStates] /\ tuning \in [Servers -> TuningStates]
      /\ saved \in [RatedTools -> Scores] /\ changes \in Nat
  BY DEF TuningInv, TuningTypes
<1>1. /\ tuner' = [tuner EXCEPT ![s] = Down] /\ tuning' = [tuning EXCEPT ![s] = NotTuning]
      /\ UNCHANGED <<ratings, saved, everRated, changes>>
  BY DEF ServerDies
<1>2. /\ tuner'[s] = Down /\ tuner' \in [Servers -> TunerStates]
      /\ tuning'[s] = NotTuning /\ tuning' \in [Servers -> TuningStates]
      /\ \A q \in Servers \ {s} : tuner'[q] = tuner[q] /\ tuning'[q] = tuning[q]
  BY <1>0, <1>1, DownRow, NoJob
<1>3. NoneAbove(NoScores) /\ NoneBelow(NoScores)
  BY DEF NoneAbove, NoneBelow, NoScores
<1>4. /\ "negative" \notin everRated => NoneAbove(saved)
      /\ "helpful" \notin everRated => NoneBelow(saved)
  BY DEF TuningInv, AskedInv
<1>5. OwnCount(Down, NotTuning) /\ \A t \in RatedTools : Evident(Down, NotTuning, t)
  BY <1>0, DownRow, NoJob DEF Evident, NoScores
<1>6. QED
  BY <1>0, <1>1, <1>2, <1>3, <1>4, <1>5, DownRow, NoJob, ServerMoves

LEMMA SavedFacts ==
  ASSUME TuningInv
  PROVE  /\ "negative" \notin everRated => NoneAbove(saved)
         /\ "helpful" \notin everRated => NoneBelow(saved)
BY DEF TuningInv, AskedInv

LEMMA ScoreFacts ==
  ASSUME TuningInv, NEW s \in Servers
  PROVE  /\ "negative" \notin everRated => NoneAbove(tuner[s].score)
         /\ "helpful" \notin everRated => NoneBelow(tuner[s].score)
         /\ "negative" \notin everRated => (tuning[s].at = "read" => ~tuning[s].noisy)
         /\ tuner[s].at = "up" => \A t \in RatedTools :
              tuner[s].score[t] = Unset \/ tuner[s].score[t] \in Floor[s]..Ceiling[s]
         /\ tuning[s].at # "none" => tuner[s].at = "up"
         /\ tuning[s].at \in {"counting", "marked", "read"} => tuning[s].cap <= Ceiling[s]
BY DEF TuningInv, AskedInv, BandInv

LEMMA MoveFacts ==
  ASSUME TuningInv, NEW s \in Servers
  PROVE  /\ tuner[s].seen \in Nat /\ changes \in Nat
         /\ OwnCount(tuner[s], tuning[s]) /\ \A t \in RatedTools : Evident(tuner[s], tuning[s], t)
BY TunerShapes DEF TuningInv, EvidenceInv, TuningTypes

(* What a step keeps of a row and of an adjustment it does not look at.    *)
LEMMA EvidentAlike ==
  ASSUME TuningInv, NEW s \in Servers, NEW row, NEW job,
         row.seen = tuner[s].seen, row.mark = tuner[s].mark, row.moves = tuner[s].moves,
         row.since = tuner[s].since, row.torn = tuner[s].torn,
         \A t \in RatedTools : Busy(job, t) <= Busy(tuning[s], t)
  PROVE  \A t \in RatedTools : Evident(row, job, t)
<1> SUFFICES ASSUME NEW t \in RatedTools PROVE Evident(row, job, t)
  OBVIOUS
<1>1. Evident(tuner[s], tuning[s], t)
  BY MoveFacts
<1>2. /\ tuner[s].moves[t] \in Nat /\ tuner[s].since[t] \in Nat /\ tuner[s].torn[t] \in Nat
      /\ tuner[s].seen \in Nat
  BY TunerShapes DEF TuningInv
<1>3. Busy(job, t) \in {0, 1} /\ Busy(tuning[s], t) \in {0, 1}
  BY BusyIsOne
<1>4. QED
  BY <1>1, <1>2, <1>3 DEF Evident

(* One score of a tuner is set.                                            *)
LEMMA ScoreSet ==
  ASSUME NEW row \in TunerStates, NEW t \in RatedTools, NEW v \in Int
  PROVE  LET new == [row EXCEPT !.score[t] = v] IN
         /\ new \in TunerStates /\ new.at = row.at /\ new.seen = row.seen /\ new.mark = row.mark
         /\ new.moves = row.moves /\ new.since = row.since /\ new.torn = row.torn /\ new.score[t] = v
         /\ \A u \in RatedTools \ {t} : new.score[u] = row.score[u]
BY DEF TunerStates, Scores

LEMMA NoneSet ==
  ASSUME NEW f, NEW g, NEW t \in RatedTools, \A u \in RatedTools \ {t} : g[u] = f[u]
  PROVE  /\ NoneAbove(f) /\ g[t] <= Base => NoneAbove(g)
         /\ NoneBelow(f) /\ g[t] >= Base => NoneBelow(g)
BY DEF NoneAbove, NoneBelow

LEMMA ClampLoadedStep ==
  ASSUME TuningInv, NEW s \in Servers, NEW t \in RatedTools, ClampLoaded(s, t) PROVE TuningInv'
<1> DEFINE old == tuner[s].score[t]
           v == Clamp(s, old)
           new == [tuner[s] EXCEPT !.score[t] = v]
<1>0. /\ tuner \in [Servers -> TunerStates] /\ tuning \in [Servers -> TuningStates]
      /\ saved \in [RatedTools -> Scores] /\ TuningTypes /\ tuner[s] \in TunerStates
  BY DEF TuningInv, TuningTypes
<1>1. /\ tuner' = [tuner EXCEPT ![s].score[t] = v] /\ saved' = [saved EXCEPT ![t] = v]
      /\ UNCHANGED <<ratings, tuning, everRated, changes>>
      /\ tuner[s].at = "starting" /\ old # Unset
  BY DEF ClampLoaded, OutOfBand
<1>2. old \in Int
  BY <1>0, <1>1, TunerShapes DEF Scores
<1>3. /\ v \in Int /\ (old <= Base => v <= Base) /\ (old >= Base => v >= Base)
  BY <1>2, ClampFacts
<1> HIDE DEF v
<1>4. /\ new \in TunerStates /\ new.at = "starting" /\ new.seen = tuner[s].seen
      /\ new.mark = tuner[s].mark /\ new.moves = tuner[s].moves /\ new.score[t] = v
      /\ new.since = tuner[s].since /\ new.torn = tuner[s].torn
      /\ \A u \in RatedTools \ {t} : new.score[u] = tuner[s].score[u]
  BY <1>0, <1>1, <1>3, ScoreSet
<1>5. tuner' = [tuner EXCEPT ![s] = new]
  BY <1>0, <1>1
<1> HIDE DEF new
<1>6. tuner'[s] = new /\ tuner' \in [Servers -> TunerStates]
      /\ \A q \in Servers \ {s} : tuner'[q] = tuner[q]
  BY <1>0, <1>4, <1>5
<1>7. /\ saved' \in [RatedTools -> Scores] /\ saved'[t] = v
      /\ \A u \in RatedTools \ {t} : saved'[u] = saved[u]
  BY <1>0, <1>1, <1>3 DEF Scores
<1>8. /\ "negative" \notin everRated => v <= Base
      /\ "helpful" \notin everRated => v >= Base
  <2>1. /\ "negative" \notin everRated => old <= Base
        /\ "helpful" \notin everRated => old >= Base
    BY <1>1, ScoreFacts DEF NoneAbove, NoneBelow
  <2>2. QED
    BY <1>3, <2>1
<1>9. /\ "negative" \notin everRated => NoneAbove(saved') /\ NoneAbove(new.score)
      /\ "helpful" \notin everRated => NoneBelow(saved') /\ NoneBelow(new.score)
  <2>1. /\ "negative" \notin everRated => NoneAbove(saved')
        /\ "helpful" \notin everRated => NoneBelow(saved')
    BY <1>7, <1>8, SavedFacts, NoneSet
  <2>2. /\ "negative" \notin everRated => NoneAbove(new.score)
        /\ "helpful" \notin everRated => NoneBelow(new.score)
    BY <1>4, <1>8, ScoreFacts, NoneSet
  <2>3. QED
    BY <2>1, <2>2
<1>10. tuning[s].at = "none"
  BY <1>0, <1>1, ScoreFacts, JobStates
<1> HIDE DEF old
<1>11. OwnCount(new, tuning[s]) /\ \A u \in RatedTools : Evident(new, tuning[s], u)
  <2>1. \A u \in RatedTools : Busy(tuning[s], u) <= Busy(tuning[s], u)
    BY BusyIsOne
  <2>2. \A u \in RatedTools : Evident(new, tuning[s], u)
    BY <1>4, <2>1, EvidentAlike
  <2>3. QED
    BY <1>10, <2>2 DEF OwnCount
<1>12. /\ UNCHANGED <<ratings, tuning, everRated, changes>> /\ saved' \in [RatedTools -> Scores]
       /\ tuner'[s] = new /\ tuner'[s].at = "starting" /\ tuning'[s] = tuning[s]
  BY <1>1, <1>4, <1>6, <1>7
<1>13. QED
  BY <1>0, <1>6, <1>9, <1>10, <1>11, <1>12, ServerMoves

LEMMA ServeStep == ASSUME TuningInv, NEW s \in Servers, Serve(s) PROVE TuningInv'
<1> DEFINE new == [tuner[s] EXCEPT !.at = "up"]
<1>0. /\ tuner \in [Servers -> TunerStates] /\ tuning \in [Servers -> TuningStates]
      /\ saved \in [RatedTools -> Scores] /\ TuningTypes /\ tuner[s] \in TunerStates
  BY DEF TuningInv, TuningTypes
<1>1. /\ tuner' = [tuner EXCEPT ![s] = new] /\ OutOfBand(s) = {} /\ tuner[s].at = "starting"
      /\ UNCHANGED <<ratings, saved, tuning, everRated, changes>>
  BY <1>0 DEF Serve
<1>2. /\ new \in TunerStates /\ new.at = "up" /\ new.seen = tuner[s].seen
      /\ new.mark = tuner[s].mark /\ new.moves = tuner[s].moves /\ new.score = tuner[s].score
      /\ new.since = tuner[s].since /\ new.torn = tuner[s].torn
  BY <1>0 DEF TunerStates
<1> HIDE DEF new
<1>3. tuner'[s] = new /\ tuner' \in [Servers -> TunerStates]
      /\ \A q \in Servers \ {s} : tuner'[q] = tuner[q]
  BY <1>0, <1>1, <1>2
<1>4. ASSUME NEW t \in RatedTools
      PROVE  tuner[s].score[t] = Unset \/ tuner[s].score[t] \in Floor[s]..Ceiling[s]
  <2>1. tuner[s].score[t] = Unset \/ tuner[s].score[t] = Clamp(s, tuner[s].score[t])
    BY <1>1 DEF OutOfBand
  <2>2. tuner[s].score[t] = Unset \/ tuner[s].score[t] \in Int
    BY <1>0, TunerShapes DEF Scores
  <2>3. QED
    BY <2>1, <2>2, ClampFacts
<1>5. tuning[s].at = "none"
  BY <1>0, <1>1, ScoreFacts, JobStates
<1>6. OwnCount(new, tuning[s]) /\ \A t \in RatedTools : Evident(new, tuning[s], t)
  BY <1>2, <1>5, BusyIsOne, EvidentAlike DEF OwnCount
<1>7. QED
  BY <1>0, <1>1, <1>2, <1>3, <1>4, <1>5, <1>6, SavedFacts, ScoreFacts, ServerMoves

LEMMA CountToolStep ==
  ASSUME TuningInv, NEW s \in Servers, NEW t \in RatedTools, NEW c \in Attainable,
         CountTool(s, t, c)
  PROVE  TuningInv'
<1> DEFINE own == FeedbackCount({t})
           job == [at |-> "counting", tool |-> t, cap |-> EffectiveCeiling(s, c),
                   own |-> own, since |-> changes]
<1>0. /\ tuner \in [Servers -> TunerStates] /\ tuning \in [Servers -> TuningStates]
      /\ saved \in [RatedTools -> Scores] /\ TuningTypes /\ changes \in Nat
  BY DEF TuningInv, TuningTypes
<1>1. /\ tuning' = [tuning EXCEPT ![s] = job] /\ UNCHANGED <<ratings, saved, tuner, everRated, changes>>
      /\ tuner[s].at = "up"
  BY <1>0 DEF CountTool
<1>2. own \in Nat
  <2>1. RatingKinds \subseteq RatingKinds /\ {t} \subseteq RatedTools
    OBVIOUS
  <2>2. QED
    BY <2>1, CountTyped DEF FeedbackCount
<1>3. /\ job \in TuningStates /\ job.at = "counting" /\ job.tool = t /\ job.cap <= Ceiling[s]
      /\ job.own = own /\ job.since = changes
  <2> HIDE DEF own
  <2>1. QED
    BY <1>0, <1>2, CeilingFacts DEF TuningStates, CountingStates
<1> HIDE DEF job
<1>4. /\ tuning'[s] = job /\ tuning' \in [Servers -> TuningStates]
      /\ \A q \in Servers \ {s} : tuning'[q] = tuning[q]
  BY <1>0, <1>1, <1>3
<1>5. OwnCount(tuner[s], job)
  <2>1. tuner[s].since[t] <= changes
    BY MoveFacts DEF Evident
  <2>2. QED
    BY <1>0, <1>3, <2>1 DEF OwnCount
<1>6. \A u \in RatedTools : Evident(tuner[s], job, u)
  <2>1. \A u : Busy(job, u) = 0
    BY <1>3 DEF Busy
  <2>2. \A u \in RatedTools : Busy(job, u) <= Busy(tuning[s], u)
    BY <2>1, BusyIsOne
  <2>3. QED
    BY <2>2, EvidentAlike
<1>7. QED
  BY <1>0, <1>1, <1>3, <1>4, <1>5, <1>6, SavedFacts, ScoreFacts, ServerMoves

(* An adjustment ends without moving the score.                            *)
LEMMA JobEndsStep ==
  ASSUME TuningInv, NEW s \in Servers, tuning' = [tuning EXCEPT ![s] = NotTuning],
         UNCHANGED <<ratings, saved, tuner, everRated, changes>>
  PROVE  TuningInv'
<1>0. /\ tuner \in [Servers -> TunerStates] /\ tuning \in [Servers -> TuningStates]
      /\ saved \in [RatedTools -> Scores]
  BY DEF TuningInv, TuningTypes
<1>1. /\ tuning'[s] = NotTuning /\ tuning' \in [Servers -> TuningStates]
      /\ \A q \in Servers \ {s} : tuning'[q] = tuning[q]
  BY <1>0, NoJob
<1>2. OwnCount(tuner[s], NotTuning) /\ \A u \in RatedTools : Evident(tuner[s], NotTuning, u)
  <2>1. \A u \in RatedTools : Busy(NotTuning, u) <= Busy(tuning[s], u)
    BY NoJob, BusyIsOne
  <2>2. QED
    BY <2>1, NoJob, EvidentAlike
<1>3. QED
  BY <1>0, <1>1, <1>2, NoJob, SavedFacts, ScoreFacts, ServerMoves

LEMMA CountAllStep == ASSUME TuningInv, NEW s \in Servers, CountAll(s) PROVE TuningInv'
<1> DEFINE t == tuning[s].tool
           all == NewMark(s)
           job == [at |-> "marked", tool |-> t, cap |-> tuning[s].cap]
           new == [tuner[s] EXCEPT !.mark[t] = all, !.since[t] = tuning[s].since,
                                   !.torn[t] = @ + changes - tuning[s].since]
<1>0. /\ tuner \in [Servers -> TunerStates] /\ tuning \in [Servers -> TuningStates]
      /\ saved \in [RatedTools -> Scores] /\ TuningTypes /\ changes \in Nat
      /\ UNCHANGED <<ratings, saved, everRated, changes>> /\ tuning[s].at = "counting"
  BY DEF TuningInv, TuningTypes, CountAll
<1>1. /\ t \in RatedTools /\ tuning[s].cap \in Int /\ tuning[s].cap <= Ceiling[s]
      /\ tuning[s].own \in Nat /\ tuning[s].since \in Nat /\ tuner[s].at = "up"
  BY <1>0, JobStates, ScoreFacts
<1>2. all \in Nat \X Nat /\ all = <<tuning[s].own, FeedbackCount(RatedTools)>>
  <2>1. RatingKinds \subseteq RatingKinds /\ RatedTools \subseteq RatedTools
    OBVIOUS
  <2>2. QED
    BY <1>1, <2>1, CountTyped DEF NewMark, FeedbackCount
<1>3. CASE tuning' = [tuning EXCEPT ![s] = NotTuning] /\ UNCHANGED tuner
  BY <1>0, <1>3, JobEndsStep
<1>4. CASE /\ tuner' = [tuner EXCEPT ![s] = new] /\ tuning' = [tuning EXCEPT ![s] = job]
           /\ tuner[s].mark[t] # all
  <2> DEFINE at == tuning[s].since
             torn == tuner[s].torn[t] + changes - at
  <2>0. at \in Nat /\ at <= changes /\ tuner[s].since[t] <= at /\ torn \in Nat
    <3>1. tuner[s].torn[t] \in Nat
      BY <1>0, <1>1, TunerShapes
    <3>2. tuner[s].since[t] <= at /\ at <= changes
      BY <1>0, MoveFacts DEF OwnCount
    <3>3. QED
      BY <1>0, <1>1, <3>1, <3>2
  <2> HIDE DEF t, all
  <2>1. /\ new \in TunerStates /\ new.at = "up" /\ new.seen = tuner[s].seen
        /\ new.score = tuner[s].score /\ new.moves = tuner[s].moves
        /\ new.mark[t] = all /\ new.since[t] = at /\ new.torn[t] = torn
        /\ \A u \in RatedTools \ {t} : /\ new.mark[u] = tuner[s].mark[u]
                                       /\ new.since[u] = tuner[s].since[u]
                                       /\ new.torn[u] = tuner[s].torn[u]
    <3> DEFINE row == tuner[s]
               marks == [row.mark EXCEPT ![t] = all]
               sinces == [row.since EXCEPT ![t] = at]
               torns == [row.torn EXCEPT ![t] = torn]
    <3>0. row \in TunerStates /\ t \in RatedTools /\ row.at = "up"
      BY <1>0, <1>1 DEF t
    <3> HIDE DEF at
    <3>1. new = [row EXCEPT !.mark = marks, !.since = sinces, !.torn = torns]
      BY <3>0 DEF TunerStates, at
    <3> HIDE DEF torn, row, new
    <3>2. /\ row.mark \in [RatedTools -> (Nat \X Nat) \cup {Unset}]
          /\ row.since \in [RatedTools -> Nat] /\ row.torn \in [RatedTools -> Nat]
      BY <3>0 DEF TunerStates
    <3>3. /\ marks \in [RatedTools -> (Nat \X Nat) \cup {Unset}] /\ marks[t] = all
          /\ \A u \in RatedTools \ {t} : marks[u] = row.mark[u]
      BY <1>2, <3>0, <3>2
    <3>4. /\ sinces \in [RatedTools -> Nat] /\ sinces[t] = at
          /\ \A u \in RatedTools \ {t} : sinces[u] = row.since[u]
      BY <2>0, <3>0, <3>2
    <3>5. /\ torns \in [RatedTools -> Nat] /\ torns[t] = torn
          /\ \A u \in RatedTools \ {t} : torns[u] = row.torn[u]
      BY <2>0, <3>0, <3>2
    <3> HIDE DEF marks, sinces, torns
    <3>6. /\ new \in TunerStates /\ new.at = row.at /\ new.seen = row.seen
          /\ new.score = row.score /\ new.moves = row.moves
          /\ new.mark = marks /\ new.since = sinces /\ new.torn = torns
      BY <3>0, <3>1, <3>3, <3>4, <3>5 DEF TunerStates
    <3>7. QED
      BY <3>0, <3>3, <3>4, <3>5, <3>6 DEF row
  <2>2. /\ job \in TuningStates /\ job.at = "marked" /\ job.tool = t /\ job.cap <= Ceiling[s]
    BY <1>1 DEF TuningStates, MarkedStates, t
  <2> HIDE DEF job, new
  <2>3. /\ tuner'[s] = new /\ tuner' \in [Servers -> TunerStates]
        /\ tuning'[s] = job /\ tuning' \in [Servers -> TuningStates]
        /\ \A q \in Servers \ {s} : tuner'[q] = tuner[q] /\ tuning'[q] = tuning[q]
    BY <1>0, <1>4, <2>1, <2>2
  <2>4. \A u : Busy(tuning[s], u) = 0 /\ Busy(job, u) = IF u = t THEN 1 ELSE 0
    BY <1>0, <2>2 DEF Busy
  <2>5. ASSUME NEW u \in RatedTools PROVE Evident(new, job, u)
    <3>1. Evident(tuner[s], tuning[s], u)
      BY MoveFacts
    <3>2. /\ tuner[s].moves[u] \in Nat /\ tuner[s].since[u] \in Nat /\ tuner[s].torn[u] \in Nat
          /\ tuner[s].seen \in Nat
      BY <1>0, TunerShapes
    <3>3. CASE u # t
      BY <2>1, <2>4, <3>1, <3>3 DEF Evident
    <3>4. CASE u = t
      <4>1. all # Unset => at # changes \/ all = Counts(u)
        <5>1. at = changes => tuning[s].own = FeedbackCount({u})
          BY <1>0, <3>4, MoveFacts DEF OwnCount, t
        <5>2. QED
          BY <1>2, <5>1 DEF Counts
      <4>2. tuner[s].mark[u] # Unset => tuner[s].since[u] < changes
        <5>1. ASSUME tuner[s].mark[u] # Unset, tuner[s].since[u] = changes PROVE FALSE
          <6>1. at = changes
            BY <1>0, <2>0, <3>4, <5>1
          <6>2. tuner[s].mark[u] = Counts(u)
            BY <3>1, <5>1 DEF Evident
          <6>3. all = Counts(u)
            <7>1. tuning[s].own = FeedbackCount({u})
              BY <1>0, <3>4, <6>1, MoveFacts DEF OwnCount, t
            <7>2. QED
              BY <1>2, <7>1 DEF Counts
          <6>4. QED
            BY <1>4, <3>4, <6>2, <6>3
        <5>2. QED
          BY <1>0, <3>1, <3>2, <5>1 DEF Evident
      <4>3. new.moves[u] + Busy(job, u) <= 1 + (at - tuner[s].seen) + torn
        <5>1. torn = tuner[s].torn[u] + changes - at
          BY <3>4
        <5> HIDE DEF torn, at
        <5>2. CASE tuner[s].mark[u] = Unset
          BY <1>0, <2>0, <2>1, <2>4, <3>1, <3>2, <3>4, <5>1, <5>2 DEF Evident
        <5>3. CASE tuner[s].mark[u] # Unset
          BY <1>0, <2>0, <2>1, <2>4, <3>1, <3>2, <3>4, <4>2, <5>1, <5>3 DEF Evident
        <5>4. QED
          BY <5>2, <5>3
      <4>4. all # Unset
        BY <1>2, TuningAssumption
      <4>5. new.seen <= new.since[u] /\ new.since[u] <= changes
        BY <2>0, <2>1, <3>1, <3>2, <3>4 DEF Evident
      <4>6. new.mark[u] = all /\ new.since[u] = at /\ new.torn[u] = torn /\ new.seen = tuner[s].seen
        BY <2>1, <3>4
      <4>7. QED
        BY <4>1, <4>3, <4>4, <4>5, <4>6 DEF Evident
    <3>5. QED
      BY <3>3, <3>4
  <2>6. OwnCount(new, job)
    BY <2>2 DEF OwnCount
  <2>7. QED
    BY <1>0, <2>1, <2>2, <2>3, <2>5, <2>6, SavedFacts, ScoreFacts, ServerMoves
<1>5. QED
  <2>1. /\ Marked(s) = new
        /\ tuning[s].tool = t /\ NewMark(s) = all
    BY DEF Marked
  <2>2. CASE tuner[s].mark[tuning[s].tool] = NewMark(s)
    BY <1>0, <1>3, <2>2 DEF CountAll
  <2>3. CASE tuner[s].mark[tuning[s].tool] # NewMark(s)
    BY <1>0, <1>4, <2>1, <2>3 DEF CountAll
  <2>4. QED
    BY <2>2, <2>3

LEMMA ReadStep ==
  ASSUME TuningInv, NEW s \in Servers, ReadNegative(s) PROVE TuningInv'
<1> DEFINE t == tuning[s].tool
           noisy == Over(t, "negative", 6, 10)
           job == [at |-> "read", tool |-> t, cap |-> tuning[s].cap, noisy |-> noisy]
<1>0. /\ tuner \in [Servers -> TunerStates] /\ tuning \in [Servers -> TuningStates]
      /\ saved \in [RatedTools -> Scores] /\ TuningTypes
  BY DEF TuningInv, TuningTypes
<1>1. /\ tuning' = [tuning EXCEPT ![s] = job] /\ tuning[s].at = "marked"
      /\ UNCHANGED <<ratings, saved, tuner, everRated, changes>>
  BY <1>0 DEF ReadNegative
<1>2. t \in RatedTools /\ tuning[s].cap \in Int /\ tuning[s].cap <= Ceiling[s] /\ tuner[s].at = "up"
  BY <1>0, <1>1, JobStates, ScoreFacts
<1>3. noisy \in BOOLEAN
  BY DEF Over
<1>4. "negative" \notin everRated => ~noisy
  <2>1. "negative" \in RatingKinds
    BY DEF RatingKinds
  <2>2. QED
    BY <1>0, <1>2, <2>1, NoneIsOver DEF TuningInv, AskedInv
<1> HIDE DEF noisy, t
<1>5. /\ job \in TuningStates /\ job.at = "read" /\ job.tool = t /\ job.cap = tuning[s].cap
      /\ (job.noisy <=> noisy)
  BY <1>2, <1>3 DEF TuningStates, ReadStates
<1> HIDE DEF job
<1>6. /\ tuning'[s] = job /\ tuning' \in [Servers -> TuningStates]
      /\ \A q \in Servers \ {s} : tuning'[q] = tuning[q]
  BY <1>0, <1>1, <1>5
<1>7. \A u : Busy(job, u) = Busy(tuning[s], u)
  BY <1>1, <1>5 DEF Busy, t
<1>8. OwnCount(tuner[s], job) /\ \A u \in RatedTools : Evident(tuner[s], job, u)
  BY <1>5, <1>7, BusyIsOne, EvidentAlike DEF OwnCount
<1>9. QED
  BY <1>0, <1>1, <1>2, <1>4, <1>5, <1>6, <1>8, SavedFacts, ScoreFacts, ServerMoves

(* An adjusted score stays in the band; a raise never lowers it, nor the   *)
(* other way round.                                                        *)
LEMMA AdjustedFacts ==
  ASSUME TuningInv, NEW s \in Servers, tuning[s].at = "read"
  PROVE  LET v == Adjusted(s)
             old == Current(s, tuning[s].tool) IN
         /\ v \in Int /\ old \in Int
         /\ v \in Floor[s]..Ceiling[s]
         /\ "negative" \notin everRated => old <= Base /\ v <= old
         /\ "helpful" \notin everRated => old >= Base /\ v >= old
<1> DEFINE t == tuning[s].tool
           old == Current(s, t)
           cap == tuning[s].cap
<1>0. TuningTypes /\ Base \in Int
  BY Bands DEF TuningInv
<1>1. t \in RatedTools /\ cap \in Int /\ cap <= Ceiling[s] /\ tuner[s].at = "up"
  BY <1>0, JobStates, ScoreFacts
<1>2. tuner[s].score[t] \in Int \cup {Unset}
  BY <1>0, <1>1, TunerShapes DEF Scores
<1>3. /\ old \in Int /\ old \in Floor[s]..Ceiling[s]
      /\ "negative" \notin everRated => old <= Base
      /\ "helpful" \notin everRated => old >= Base
  BY <1>0, <1>1, <1>2, Bands, ScoreFacts DEF Current, NoneAbove, NoneBelow
<1> HIDE DEF old, cap, t
<1>4. LET v == Raised(s, t, cap) IN v \in Int /\ v \in Floor[s]..Ceiling[s] /\ v >= old
  <2> DEFINE m == Min({old + 1, cap})
             v == Raised(s, t, cap)
  <2>1. m \in Int /\ m <= Ceiling[s]
    BY <1>1, <1>3, Bands, MinOfTwo
  <2>2. v = Max({old, m})
    BY DEF Raised, old
  <2> HIDE DEF m, v
  <2>3. v = IF old >= m THEN old ELSE m
    BY <1>3, <2>1, <2>2, MaxOfTwo
  <2>4. v \in Int /\ v >= old /\ v <= Ceiling[s] /\ v >= Floor[s]
    BY <1>3, <2>1, <2>3, Bands
  <2>5. QED
    BY <2>4, Bands DEF v
<1>5. LET v == Lowered(s, t, cap) IN v \in Int /\ v \in Floor[s]..Ceiling[s] /\ v <= old
  <2> DEFINE m == Min({old, cap})
             n == Max({m - 1, Floor[s]})
             v == Lowered(s, t, cap)
  <2>1. m \in Int
    BY <1>1, <1>3, MinOfTwo
  <2>2. v = Min({old, n})
    BY DEF Lowered, old
  <2> HIDE DEF m, v
  <2>3. n \in Int /\ n >= Floor[s]
    <3>1. m - 1 \in Int /\ Floor[s] \in Int
      BY <2>1, Bands
    <3>2. n = IF m - 1 >= Floor[s] THEN m - 1 ELSE Floor[s]
      BY <3>1, MaxOfTwo
    <3>3. QED
      BY <3>1, <3>2
  <2> HIDE DEF n
  <2>4. v = IF old <= n THEN old ELSE n
    BY <1>3, <2>2, <2>3, MinOfTwo
  <2>5. v \in Int /\ v <= old /\ v <= Ceiling[s] /\ v >= Floor[s]
    BY <1>3, <2>3, <2>4, Bands
  <2>6. QED
    BY <2>5, Bands DEF v
<1>6. "negative" \notin everRated => ~tuning[s].noisy
  BY ScoreFacts
<1>7. "helpful" \notin everRated => ~Lowers(t)
  <2>1. "helpful" \in RatingKinds
    BY DEF RatingKinds
  <2>2. QED
    BY <1>0, <1>1, <2>1, NoneIsOver DEF TuningInv, AskedInv, Lowers
<1>8. Adjusted(s) = IF tuning[s].noisy THEN Raised(s, t, cap)
                    ELSE IF Lowers(t) THEN Lowered(s, t, cap) ELSE old
  BY DEF Adjusted, t, cap, old
<1>9. QED
  BY <1>3, <1>4, <1>5, <1>6, <1>7, <1>8 DEF old, t

LEMMA DecideStep ==
  ASSUME TuningInv, NEW s \in Servers, Decide(s) PROVE TuningInv'
<1> DEFINE t == tuning[s].tool
           v == Adjusted(s)
           job == [at |-> "moved", tool |-> t]
           new == [tuner[s] EXCEPT !.score[t] = v, !.moves[t] = tuner[s].moves[t] + 1]
<1>0. /\ tuner \in [Servers -> TunerStates] /\ tuning \in [Servers -> TuningStates]
      /\ saved \in [RatedTools -> Scores] /\ TuningTypes /\ tuner[s] \in TunerStates
      /\ UNCHANGED <<ratings, saved, everRated, changes>> /\ tuning[s].at = "read"
  BY DEF TuningInv, TuningTypes, Decide
<1>1. t \in RatedTools /\ tuner[s].at = "up" /\ \A u : Busy(tuning[s], u) = IF u = t THEN 1 ELSE 0
  BY <1>0, JobStates, ScoreFacts DEF Busy
<1>2. /\ v \in Int /\ v \in Floor[s]..Ceiling[s]
      /\ "negative" \notin everRated => v <= Base
      /\ "helpful" \notin everRated => v >= Base
  <2> DEFINE old == Current(s, t)
  <2>1. /\ v \in Int /\ old \in Int /\ v \in Floor[s]..Ceiling[s]
        /\ "negative" \notin everRated => old <= Base /\ v <= old
        /\ "helpful" \notin everRated => old >= Base /\ v >= old
    BY <1>0, AdjustedFacts
  <2> HIDE DEF old, v
  <2>2. QED
    BY <2>1, Bands
<1>3. CASE tuning' = [tuning EXCEPT ![s] = NotTuning] /\ UNCHANGED tuner
  BY <1>0, <1>3, JobEndsStep
<1>4. CASE /\ tuner' = [tuner EXCEPT ![s].score[t] = v, ![s].moves[t] = @ + 1]
           /\ tuning' = [tuning EXCEPT ![s] = job]
  <2> HIDE DEF t, v
  <2>1. tuner' = [tuner EXCEPT ![s] = new]
    BY <1>0, <1>4
  <2>2. /\ new \in TunerStates /\ new.at = "up" /\ new.seen = tuner[s].seen
        /\ new.mark = tuner[s].mark /\ new.score[t] = v /\ new.moves[t] = tuner[s].moves[t] + 1
        /\ new.since = tuner[s].since /\ new.torn = tuner[s].torn
        /\ \A u \in RatedTools \ {t} :
             new.score[u] = tuner[s].score[u] /\ new.moves[u] = tuner[s].moves[u]
    <3> DEFINE row == tuner[s]
               scores == [row.score EXCEPT ![t] = v]
               moved == [row.moves EXCEPT ![t] = row.moves[t] + 1]
    <3>0. row \in TunerStates /\ t \in RatedTools /\ v \in Int /\ row.at = "up"
      BY <1>0, <1>1, <1>2
    <3> HIDE DEF row
    <3>1. row.score \in [RatedTools -> Scores] /\ row.moves \in [RatedTools -> Nat]
      BY <3>0 DEF TunerStates
    <3>2. /\ scores \in [RatedTools -> Scores] /\ scores[t] = v
          /\ \A u \in RatedTools \ {t} : scores[u] = row.score[u]
      BY <3>0, <3>1 DEF Scores
    <3>3. /\ moved \in [RatedTools -> Nat] /\ moved[t] = row.moves[t] + 1
          /\ \A u \in RatedTools \ {t} : moved[u] = row.moves[u]
      BY <3>0, <3>1
    <3>4. new = [row EXCEPT !.score = scores, !.moves = moved]
      BY <3>0 DEF TunerStates, row
    <3> HIDE DEF scores, moved, new
    <3>5. /\ new \in TunerStates /\ new.at = row.at /\ new.seen = row.seen /\ new.mark = row.mark
          /\ new.score = scores /\ new.moves = moved /\ new.since = row.since /\ new.torn = row.torn
      BY <3>0, <3>2, <3>3, <3>4 DEF TunerStates
    <3>6. QED
      BY <3>0, <3>2, <3>3, <3>5 DEF row
  <2>3. job \in TuningStates /\ job.at = "moved"
    BY <1>1 DEF TuningStates, MovedStates
  <2> HIDE DEF job, new
  <2>4. /\ tuner'[s] = new /\ tuner' \in [Servers -> TunerStates]
        /\ tuning'[s] = job /\ tuning' \in [Servers -> TuningStates]
        /\ \A q \in Servers \ {s} : tuner'[q] = tuner[q] /\ tuning'[q] = tuning[q]
    BY <1>0, <1>4, <2>1, <2>2, <2>3
  <2>5. \A u : Busy(job, u) = 0
    BY <2>3 DEF Busy
  <2>6. OwnCount(new, job) /\ \A u \in RatedTools : Evident(new, job, u)
    <3>1. ASSUME NEW u \in RatedTools PROVE Evident(new, job, u)
      <4>1. tuner[s].moves[u] \in Nat
        BY <1>0, TunerShapes
      <4>2. new.moves[u] + Busy(job, u) = tuner[s].moves[u] + Busy(tuning[s], u)
        BY <1>1, <2>2, <2>5, <4>1
      <4>3. Evident(tuner[s], tuning[s], u)
        BY MoveFacts
      <4>4. QED
        BY <2>2, <4>2, <4>3 DEF Evident
    <3>2. QED
      BY <2>3, <3>1 DEF OwnCount
  <2>7. /\ "negative" \notin everRated => NoneAbove(new.score)
        /\ "helpful" \notin everRated => NoneBelow(new.score)
    <3>1. /\ NoneAbove(tuner[s].score) /\ v <= Base => NoneAbove(new.score)
          /\ NoneBelow(tuner[s].score) /\ v >= Base => NoneBelow(new.score)
      BY <1>1, <2>2, NoneSet
    <3>2. QED
      BY <1>2, <3>1, ScoreFacts
  <2>8. \A u \in RatedTools : new.score[u] = Unset \/ new.score[u] \in Floor[s]..Ceiling[s]
    BY <1>1, <1>2, <2>2, ScoreFacts
  <2>9. QED
    BY <1>0, <2>2, <2>3, <2>4, <2>6, <2>7, <2>8, SavedFacts, ServerMoves
<1>5. QED
  BY <1>0, <1>3, <1>4 DEF Decide

LEMMA SaveStep ==
  ASSUME TuningInv, NEW s \in Servers, NEW ok \in BOOLEAN, Save(s, ok) PROVE TuningInv'
<1> DEFINE t == tuning[s].tool
           v == Current(s, t)
<1>0. /\ tuner \in [Servers -> TunerStates] /\ tuning \in [Servers -> TuningStates]
      /\ saved \in [RatedTools -> Scores] /\ TuningTypes /\ tuner[s] \in TunerStates
      /\ UNCHANGED <<ratings, tuner, everRated, changes>> /\ tuning[s].at = "moved"
      /\ tuning' = [tuning EXCEPT ![s] = NotTuning]
      /\ saved' = [saved EXCEPT ![t] = v] \/ saved' = saved
  BY DEF TuningInv, TuningTypes, Save
<1>1. t \in RatedTools /\ tuner[s].at = "up"
  BY <1>0, JobStates, ScoreFacts
<1>2. /\ v \in Int
      /\ "negative" \notin everRated => v <= Base
      /\ "helpful" \notin everRated => v >= Base
  <2>1. tuner[s].score[t] \in Int \cup {Unset} /\ Base \in Int
    BY <1>0, <1>1, TunerShapes, Bands DEF Scores
  <2>2. QED
    BY <1>1, <2>1, ScoreFacts DEF Current, NoneAbove, NoneBelow
<1> HIDE DEF t, v
<1>3. /\ tuning'[s] = NotTuning /\ tuning' \in [Servers -> TuningStates]
      /\ \A q \in Servers \ {s} : tuning'[q] = tuning[q]
  BY <1>0, NoJob
<1>4. /\ saved' \in [RatedTools -> Scores]
      /\ "negative" \notin everRated => NoneAbove(saved')
      /\ "helpful" \notin everRated => NoneBelow(saved')
  <2>1. CASE saved' = saved
    BY <1>0, <2>1, SavedFacts
  <2>2. CASE saved' = [saved EXCEPT ![t] = v]
    <3>1. /\ saved' \in [RatedTools -> Scores] /\ saved'[t] = v
          /\ \A u \in RatedTools \ {t} : saved'[u] = saved[u]
      BY <1>0, <1>1, <1>2, <2>2 DEF Scores
    <3>2. QED
      BY <1>1, <1>2, <3>1, SavedFacts, NoneSet
  <2>3. QED
    BY <1>0, <2>1, <2>2
<1>5. OwnCount(tuner[s], NotTuning) /\ \A u \in RatedTools : Evident(tuner[s], NotTuning, u)
  <2>1. \A u \in RatedTools : Busy(NotTuning, u) <= Busy(tuning[s], u)
    BY NoJob, BusyIsOne
  <2>2. QED
    BY <2>1, NoJob, EvidentAlike
<1>6. QED
  BY <1>0, <1>1, <1>3, <1>4, <1>5, NoJob, ScoreFacts, ServerMoves

LEMMA TuningInvInit == TuningInit => TuningInv
<1> SUFFICES ASSUME TuningInit PROVE TuningInv
  OBVIOUS
<1>1. /\ \A s \in Servers : tuner[s] = Down /\ tuning[s] = NotTuning
      /\ tuner \in [Servers -> TunerStates] /\ tuning \in [Servers -> TuningStates]
  BY DownRow, NoJob DEF TuningInit
<1>2. /\ saved \in [RatedTools -> Scores] /\ ratings \in [RatedTools -> [RatingKinds -> Nat]]
      /\ everRated = {} /\ changes = 0 /\ NoneAbove(saved) /\ NoneBelow(saved)
      /\ \A t \in RatedTools, k \in RatingKinds : ratings[t][k] = 0
  BY DEF TuningInit, Scores, NoneAbove, NoneBelow
<1>3. TuningTypes
  BY <1>1, <1>2 DEF TuningTypes
<1>4. BandInv
  BY <1>1, DownRow, NoJob DEF BandInv
<1>5. AskedInv
  <2>1. NoneAbove(NoScores) /\ NoneBelow(NoScores)
    BY DEF NoneAbove, NoneBelow, NoScores
  <2>2. QED
    BY <1>1, <1>2, <2>1, DownRow, NoJob DEF AskedInv
<1>6. EvidenceInv
  BY <1>1, <1>2, DownRow, NoJob DEF EvidenceInv, Evident, NoScores
<1>7. QED
  BY <1>3, <1>4, <1>5, <1>6 DEF TuningInv

LEMMA TuningInvStep == TuningInv /\ [TuningNext]_tuningVars => TuningInv'
<1> SUFFICES ASSUME TuningInv, [TuningNext]_tuningVars PROVE TuningInv'
  OBVIOUS
<1>1. CASE UNCHANGED tuningVars
  <2>1. UNCHANGED <<ratings, saved, tuner, tuning, everRated, changes>>
    BY <1>1 DEF tuningVars
  <2>2. TuningTypes' /\ BandInv' /\ AskedInv'
    BY <2>1 DEF TuningInv, TuningTypes, BandInv, AskedInv
  <2>3. EvidenceInv'
    BY <2>1, CountsKept DEF TuningInv, EvidenceInv, Evident, OwnCount
  <2>4. QED
    BY <2>2, <2>3 DEF TuningInv
<1>2. CASE TuningNext
  BY <1>2, RatingSteps, StartStep, ServeStep, DiesStep, ReadStep, DecideStep, SaveStep,
     ClampLoadedStep, CountToolStep, CountAllStep, JobEndsStep DEF TuningNext, ReadFails
<1>3. QED
  BY <1>1, <1>2


LEMMA ScoresAreSound == TuningInv => TuningIsSound
<1> SUFFICES ASSUME TuningInv PROVE TuningIsSound
  OBVIOUS
<1>0. TuningTypes
  BY DEF TuningInv
<1>1. ASSUME NEW s \in Servers, NEW t \in RatedTools
      PROVE  /\ tuner[s].score[t] \in Int \cup {Unset} /\ Base \in Int /\ Floor[s] \in Int
             /\ Ceiling[s] \in Int /\ Floor[s] <= Base /\ Base <= Ceiling[s]
  BY <1>0, TunerShapes, Bands DEF Scores
<1>2. ScoresInBand
  <2> SUFFICES ASSUME NEW s \in Servers, NEW t \in RatedTools, tuner[s].at = "up"
               PROVE  /\ Current(s, t) \in Floor[s]..Ceiling[s]
                      /\ \A c \in Attainable : c >= Base => ActiveMinScore(s, t, c) <= c
    BY DEF ScoresInBand
  <2>1. Current(s, t) \in Floor[s]..Ceiling[s] /\ Current(s, t) \in Int
    BY <1>1, ScoreFacts DEF Current
  <2>2. ASSUME NEW c \in Attainable, c >= Base PROVE ActiveMinScore(s, t, c) <= c
    <3>1. EffectiveCeiling(s, c) \in Int /\ EffectiveCeiling(s, c) <= c /\ c \in Int
      BY <2>2, CeilingFacts, TuningAssumption
    <3>2. QED
      BY <1>1, <2>1, <2>2, <3>1, MinOfTwo DEF ActiveMinScore
  <2>3. QED
    BY <2>1, <2>2
<1>3. MovesAreAskedFor
  BY <1>1, ScoreFacts DEF MovesAreAskedFor, Current, NoneAbove, NoneBelow
<1>4. MovesAreEvidenced
  <2> SUFFICES ASSUME NEW s \in Servers, NEW t \in RatedTools
               PROVE  tuner[s].moves[t] <= 1 + (changes - tuner[s].seen) + tuner[s].torn[t]
    BY DEF MovesAreEvidenced
  <2>1. /\ tuner[s].moves[t] \in Nat /\ Busy(tuning[s], t) \in {0, 1}
        /\ tuner[s].since[t] \in Nat /\ tuner[s].torn[t] \in Nat
    BY <1>0, TunerShapes, BusyIsOne
  <2>2. Evident(tuner[s], tuning[s], t) /\ tuner[s].seen \in Nat /\ changes \in Nat
    BY MoveFacts
  <2>3. QED
    BY <2>1, <2>2 DEF Evident
<1>5. QED
  BY <1>2, <1>3, <1>4 DEF TuningIsSound
-----------------------------------------------------------------------------
(* Ratings: what a call rated down is hidden when it ends.                 *)

Entries == [memory : Memories \cup {Every}, rating : {"negative", "helpful"}]

RatingWrites == [by : Requests, event : Events, entries : Forms]

AskedStates == [at : {"waiting"}, event : Events, entries : Forms]
WrittenStates == [at : {"written"}, event : Events, entries : SUBSET Entries]
BoostingStates == [at : {"boosting"}, event : Events, excused : BOOLEAN]
DoneStates == [at : {"done"}, event : Events, excused : BOOLEAN]

RequestStates == {Unasked} \cup AskedStates \cup WrittenStates \cup BoostingStates \cup DoneStates

FeedbackRows == [by : Requests, event : Events, memory : Memories \cup {Every},
                 rating : {"negative", "helpful"}]

EffectsTypes ==
  /\ events \subseteq Events /\ rows \subseteq FeedbackRows
  /\ request \in [Requests -> RequestStates] /\ line \in Seq(RatingWrites)

(* What a rating of a memory, or of all of an event, is about is hidden.   *)
IsHidden(from, e, n) == \A m \in Named(e, n) : <<ToolOf[e], m>> \in from

(* A memory of the event, as far as a rating names one.                    *)
Fits(e, n) == n.memory = Every \/ n.memory \in Delivered[e]

Answers(r) == request[r].at \in {"boosting", "done"} /\ ~request[r].excused

(* A write that waits is its call's, which waits too or has given up and   *)
(* hidden what the write may yet accept.                                   *)
LineInv ==
  /\ \A i, j \in 1..Len(line) : line[i].by = line[j].by => i = j
  /\ \A i \in 1..Len(line) :
       LET asked == request[line[i].by] IN
       /\ asked.at \in {"waiting", "done"}
       /\ asked.at = "waiting" => asked.event = line[i].event /\ asked.entries = line[i].entries
       /\ Answers(line[i].by) =>
            \A n \in line[i].entries :
              line[i].event \in events /\ Fits(line[i].event, n) /\ n.rating = "negative" =>
                IsHidden(hidden, line[i].event, n)

(* A row is of an event that is there, its call has no write in the line;  *)
(* until the call resumes it still has the entry, and then it is hidden.   *)
RowInv(w) ==
  /\ w.event \in events /\ Fits(w.event, w)
  /\ \A i \in 1..Len(line) : line[i].by # w.by
  /\ request[w.by].at \in {"written", "boosting", "done"}
  /\ request[w.by].at = "written" =>
       /\ request[w.by].event = w.event
       /\ \E n \in request[w.by].entries : n.memory = w.memory /\ n.rating = w.rating
  /\ Answers(w.by) /\ w.rating = "negative" => IsHidden(hidden, w.event, w)

RowsInv == \A w \in rows : RowInv(w)

(* A call that boosts, or was counted, and keeps its claim has its event   *)
(* claimed and is alone with it.                                           *)
Boosts(r) == r \notin gaveBack /\ (request[r].at = "boosting" \/ r \in counted)

BoostInv ==
  /\ \A r \in Requests : r \in counted \cup gaveBack => request[r].at = "done"
  /\ \A r \in Requests : Boosts(r) => request[r].event \in claimed
  /\ \A r, q \in Requests :
       Boosts(r) /\ Boosts(q) /\ request[r].event = request[q].event => r = q

EffectsInv == EffectsTypes /\ LineInv /\ RowsInv /\ BoostInv

LEMMA EffectsInvInit == EffectsInit => EffectsInv
<1> SUFFICES ASSUME EffectsInit PROVE EffectsInv
  OBVIOUS
<1> USE DEF EffectsInit
<1>1. EffectsTypes
  <2>1. Unasked \in RequestStates
    BY DEF RequestStates
  <2>2. QED
    BY <2>1, EmptySeq DEF EffectsTypes
<1>2. LineInv /\ RowsInv
  <2>1. Len(line) = 0
    OBVIOUS
  <2>2. QED
    BY <2>1 DEF LineInv, RowsInv
<1>3. BoostInv
  BY DEF BoostInv, Boosts, Unasked
<1>4. QED
  BY <1>1, <1>2, <1>3 DEF EffectsInv

(* How the places of the calls look.                                       *)
LEMMA RequestShapes ==
  ASSUME NEW asked \in RequestStates
  PROVE  /\ asked.at \in {"idle", "waiting", "written", "boosting", "done"}
         /\ asked.at # "idle" => asked.event \in Events
         /\ asked.at = "waiting" => asked.entries \in Forms
         /\ asked.at = "written" => asked.entries \in SUBSET Entries
         /\ asked.at = "boosting" => asked.excused \in BOOLEAN
BY DEF RequestStates, AskedStates, WrittenStates, BoostingStates, DoneStates, Unasked

LEMMA FormsAreEntries ==
  ASSUME NEW form \in Forms, NEW n \in form
  PROVE  n.memory \in Memories \cup {Every} /\ n.rating \in {"negative", "helpful"}
BY EffectsAssumption

(* Hidden memories stay hidden, for every rating of them.                  *)
LEMMA HiddenStays ==
  ASSUME NEW from, NEW more, from \subseteq more, NEW e, NEW n, NEW x, n.memory = x.memory,
         IsHidden(from, e, n)
  PROVE  IsHidden(more, e, x)
BY DEF IsHidden, Named

LEMMA FitsAlike ==
  ASSUME NEW e, NEW n, NEW x, n.memory = x.memory, Fits(e, x)
  PROVE  Fits(e, n)
BY DEF Fits

(* What the negative entries name is hidden by the call that resumes or    *)
(* gives up.                                                               *)
LEMMA HidesNegatives ==
  ASSUME NEW e \in events, NEW entries, NEW n \in entries, Fits(e, n), n.rating = "negative",
         NEW more, HiddenBy(e, entries) \subseteq more
  PROVE  IsHidden(more, e, n)
BY DEF IsHidden, HiddenBy, Named, Accepted, Fits

(* A call that is not excused has hidden all it rated down.                *)
HidesAll(r, more) ==
  \A n \in request[r].entries :
    request[r].event \in events /\ Fits(request[r].event, n) /\ n.rating = "negative" =>
      IsHidden(more, request[r].event, n)

LEMMA ReadAreHidden ==
  ASSUME NEW r, NEW read, Hides(r, read) = hidden', ~Excused(r, read)
  PROVE  HidesAll(r, hidden')
<1> SUFFICES ASSUME NEW n \in request[r].entries, request[r].event \in events,
                    Fits(request[r].event, n), n.rating = "negative"
             PROVE  IsHidden(hidden', request[r].event, n)
  BY DEF HidesAll
<1>1. n \in read
  BY DEF Excused
<1>2. HiddenBy(request[r].event, read) \subseteq hidden'
  BY DEF Hides
<1>3. QED
  BY <1>1, <1>2, HidesNegatives

LEMMA CallMoves ==
  ASSUME EffectsInv, NEW r \in Requests, NEW later \in BoostingStates \cup DoneStates,
         request' = [request EXCEPT ![r] = later], UNCHANGED <<events, rows, line>>,
         hidden \subseteq hidden', request[r].at \in {"waiting", "written", "boosting"},
         request[r].at = "waiting" => later.at = "done",
         request[r].at \in {"waiting", "written"} /\ ~later.excused => HidesAll(r, hidden'),
         request[r].at = "boosting" /\ ~later.excused => ~request[r].excused
  PROVE  EffectsTypes' /\ LineInv' /\ RowsInv'
<1>0. /\ request \in [Requests -> RequestStates] /\ request[r] \in RequestStates
      /\ line \in Seq(RatingWrites) /\ rows \subseteq FeedbackRows
  BY DEF EffectsInv, EffectsTypes
<1>1. /\ request'[r] = later /\ \A q \in Requests \ {r} : request'[q] = request[q]
      /\ later \in RequestStates /\ later.at \in {"boosting", "done"}
  BY <1>0 DEF RequestStates, BoostingStates, DoneStates
<1>2. EffectsTypes'
  BY <1>0, <1>1 DEF EffectsInv, EffectsTypes
<1>3. ASSUME NEW i \in 1..Len(line)
      PROVE  line[i].by \in Requests
  <2>1. line[i] \in RatingWrites
    BY <1>0, ElementOfSeq
  <2>2. QED
    BY <2>1 DEF RatingWrites
<1>4. LineInv'
  <2> SUFFICES ASSUME NEW i \in 1..Len(line)
               PROVE  /\ request'[line[i].by].at \in {"waiting", "done"}
                      /\ request'[line[i].by].at = "waiting" =>
                           /\ request'[line[i].by].event = line[i].event
                           /\ request'[line[i].by].entries = line[i].entries
                      /\ Answers(line[i].by)' =>
                           \A n \in line[i].entries :
                             line[i].event \in events /\ Fits(line[i].event, n)
                               /\ n.rating = "negative" => IsHidden(hidden', line[i].event, n)
    BY <1>3 DEF EffectsInv, LineInv
  <2>1. CASE line[i].by # r
    BY <1>1, <1>3, <2>1, HiddenStays DEF EffectsInv, LineInv, Answers
  <2>2. CASE line[i].by = r
    <3>1. request[r].at = "waiting" /\ later.at = "done"
      BY <2>2 DEF EffectsInv, LineInv
    <3>2. request[r].event = line[i].event /\ request[r].entries = line[i].entries
      BY <2>2, <3>1 DEF EffectsInv, LineInv
    <3>3. QED
      BY <1>1, <2>2, <3>1, <3>2 DEF HidesAll, Answers
  <2>3. QED
    BY <2>1, <2>2
<1>5. RowsInv'
  <2> SUFFICES ASSUME NEW w \in rows PROVE RowInv(w)'
    BY DEF RowsInv
  <2>0. w.by \in Requests
    BY <1>0 DEF FeedbackRows
  <2>1. CASE w.by # r
    <3>1. RowInv(w) /\ request'[w.by] = request[w.by]
      BY <1>1, <2>0, <2>1 DEF EffectsInv, RowsInv
    <3>2. QED
      BY <3>1, HiddenStays DEF RowInv, Answers
  <2>2. CASE w.by = r
    <3>1. request[r].at \in {"written", "boosting"}
      BY <2>2 DEF EffectsInv, RowsInv, RowInv
    <3>2. ASSUME ~later.excused, w.rating = "negative" PROVE IsHidden(hidden', w.event, w)
      <4>1. CASE request[r].at = "boosting"
        BY <2>2, <3>2, <4>1, HiddenStays DEF EffectsInv, RowsInv, RowInv, Answers
      <4>2. CASE request[r].at = "written"
        <5>1. PICK n \in request[r].entries : n.memory = w.memory /\ n.rating = w.rating
          BY <2>2, <4>2 DEF EffectsInv, RowsInv, RowInv
        <5>2. w.event \in events /\ Fits(w.event, n) /\ request[r].event = w.event
          BY <2>2, <4>2, <5>1, FitsAlike DEF EffectsInv, RowsInv, RowInv
        <5>3. IsHidden(hidden', w.event, n)
          BY <3>2, <4>2, <5>1, <5>2 DEF HidesAll
        <5>4. QED
          BY <5>1, <5>3, HiddenStays
      <4>3. QED
        BY <3>1, <4>1, <4>2
    <3>3. RowInv(w)
      BY DEF EffectsInv, RowsInv
    <3>4. QED
      BY <1>1, <2>2, <3>2, <3>3 DEF RowInv, Answers
  <2>3. QED
    BY <2>1, <2>2
<1>6. QED
  BY <1>2, <1>4, <1>5

(* A step that leaves the claims and lets no call begin to boost.          *)
LEMMA BoostKept ==
  ASSUME EffectsInv, UNCHANGED <<claimed, counted, gaveBack>>,
         \A r \in Requests :
           request'[r].at = "boosting" \/ request[r].at = "done" => request'[r] = request[r]
  PROVE  BoostInv'
BY DEF EffectsInv, BoostInv, Boosts

LEMMA AskStep ==
  ASSUME EffectsInv, NEW r \in Requests, NEW e \in Events, NEW entries \in Forms, Ask(r, e, entries)
  PROVE  EffectsInv'
<1>0. /\ request \in [Requests -> RequestStates] /\ line \in Seq(RatingWrites)
      /\ rows \subseteq FeedbackRows /\ Len(line) \in Nat /\ request[r].at = "idle"
      /\ UNCHANGED <<events, rows, hidden, claimed, counted, gaveBack>>
  BY LenProperties DEF EffectsInv, EffectsTypes, Ask
<1>1. \A w \in rows : w.by \in Requests /\ w.by # r
  BY <1>0 DEF EffectsInv, RowsInv, RowInv, FeedbackRows
<1>2. ASSUME NEW i \in 1..Len(line) PROVE line[i].by \in Requests /\ line[i].by # r
  <2>1. line[i] \in RatingWrites
    BY <1>0, ElementOfSeq
  <2>2. request[line[i].by].at # "idle"
    BY DEF EffectsInv, LineInv
  <2>3. QED
    BY <1>0, <2>1, <2>2 DEF RatingWrites
<1> DEFINE asked == [at |-> "waiting", event |-> e, entries |-> entries]
           write == [by |-> r, event |-> e, entries |-> entries]
<1>3. CASE request' = [request EXCEPT ![r] = asked] /\ line' = Append(line, write)
  <2>1. asked \in RequestStates /\ asked.at = "waiting" /\ asked.event = e /\ asked.entries = entries
    BY DEF RequestStates, AskedStates
  <2>2. write \in RatingWrites /\ write.by = r /\ write.event = e /\ write.entries = entries
    BY DEF RatingWrites
  <2> HIDE DEF asked, write
  <2>3. request'[r] = asked /\ \A q \in Requests \ {r} : request'[q] = request[q]
    BY <1>0, <1>3
  <2>4. /\ line' \in Seq(RatingWrites) /\ Len(line') = Len(line) + 1
        /\ line'[Len(line) + 1] = write /\ \A i \in 1..Len(line) : line'[i] = line[i]
    BY <1>0, <1>3, <2>2, AppendProperties
  <2>5. \A i \in 1..Len(line') : i \in 1..Len(line) \/ i = Len(line) + 1
    BY <1>0, <2>4
  <2>6. EffectsTypes'
    BY <1>0, <1>3, <2>1, <2>4 DEF EffectsInv, EffectsTypes
  <2>7. LineInv'
    <3>1. \A i, j \in 1..Len(line') : line'[i].by = line'[j].by => i = j
      BY <1>2, <2>2, <2>4, <2>5 DEF EffectsInv, LineInv
    <3> SUFFICES ASSUME NEW i \in 1..Len(line')
                 PROVE  /\ request'[line'[i].by].at \in {"waiting", "done"}
                        /\ request'[line'[i].by].at = "waiting" =>
                             /\ request'[line'[i].by].event = line'[i].event
                             /\ request'[line'[i].by].entries = line'[i].entries
                        /\ Answers(line[i].by)' =>
                             \A n \in line'[i].entries :
                               line'[i].event \in events' /\ Fits(line'[i].event, n)
                                 /\ n.rating = "negative" => IsHidden(hidden', line'[i].event, n)
      BY <3>1 DEF LineInv
    <3>2. CASE i = Len(line) + 1
      BY <2>1, <2>2, <2>3, <2>4, <3>2 DEF Answers
    <3>3. CASE i \in 1..Len(line)
      <4>1. line'[i] = line[i] /\ request'[line[i].by] = request[line[i].by]
        BY <1>2, <2>3, <2>4, <3>3
      <4>2. QED
        BY <1>0, <3>3, <4>1 DEF EffectsInv, LineInv, Answers
    <3>4. QED
      BY <2>5, <3>2, <3>3
  <2>8. RowsInv'
    BY <1>0, <1>1, <2>2, <2>3, <2>4, <2>5 DEF EffectsInv, RowsInv, RowInv, Answers
  <2>9. BoostInv'
    BY <1>0, <2>1, <2>3, BoostKept
  <2>10. QED
    BY <2>6, <2>7, <2>8, <2>9 DEF EffectsInv
<1>4. CASE request' = [request EXCEPT ![r] = Done(e, FALSE)] /\ line' = line
  <2>1. Done(e, FALSE) \in RequestStates /\ Done(e, FALSE).at = "done"
    BY DEF RequestStates, DoneStates, Done
  <2>2. request'[r] = Done(e, FALSE) /\ \A q \in Requests \ {r} : request'[q] = request[q]
    BY <1>0, <1>4
  <2>3. EffectsTypes'
    BY <1>0, <1>4, <2>1 DEF EffectsInv, EffectsTypes
  <2>4. LineInv'
    BY <1>0, <1>2, <1>4, <2>1, <2>2 DEF EffectsInv, LineInv, Answers, Done
  <2>5. RowsInv'
    <3>1. ASSUME NEW w \in rows' PROVE RowInv(w)'
      <4>1. w \in rows /\ request'[w.by] = request[w.by]
        BY <1>0, <1>1, <2>2
      <4>2. RowInv(w)
        BY <4>1 DEF EffectsInv, RowsInv
      <4>3. QED
        BY <1>0, <1>4, <4>1, <4>2 DEF RowInv, Answers
    <3>2. QED
      BY <3>1 DEF RowsInv
  <2>6. BoostInv'
    BY <1>0, <2>1, <2>2, BoostKept
  <2>7. QED
    BY <2>3, <2>4, <2>5, <2>6 DEF EffectsInv
<1>5. QED
  BY <1>3, <1>4 DEF Ask

(* The write at the head of the line ends: some of its rows are there, its *)
(* call, if it still waits, has them or the error.                         *)
LEMMA RowsLand ==
  ASSUME EffectsInv, line # <<>>, UNCHANGED <<events, hidden, claimed, counted, gaveBack>>,
         NEW taken \in SUBSET Accepted(Head(line).event, Head(line).entries),
         NEW later \in WrittenStates \cup DoneStates, later.event = Head(line).event,
         later.at = "written" => taken \subseteq later.entries, later.at = "done" => later.excused,
         rows' = rows \cup Rows(Head(line), taken), line' = Tail(line),
         request' = IF request[Head(line).by].at # "waiting" THEN request
                    ELSE [request EXCEPT ![Head(line).by] = later]
  PROVE  EffectsInv'
<1> DEFINE write == Head(line)
<1>0. /\ request \in [Requests -> RequestStates] /\ line \in Seq(RatingWrites)
      /\ rows \subseteq FeedbackRows /\ Len(line) \in Nat \ {0}
  BY LenProperties, EmptySeq DEF EffectsInv, EffectsTypes
<1>1. /\ write = line[1] /\ line' \in Seq(RatingWrites) /\ Len(line') = Len(line) - 1
      /\ \A i \in 1..Len(line') : line'[i] = line[i + 1]
  BY <1>0, HeadTailProperties
<1>2. write \in RatingWrites
  BY <1>0, <1>1, ElementOfSeq
<1>3. write.by \in Requests /\ write.event \in Events /\ write.entries \in Forms
  BY <1>2 DEF RatingWrites
<1>4. later \in RequestStates /\ later.at \in {"written", "done"}
  BY DEF RequestStates, WrittenStates, DoneStates
<1> HIDE DEF write
<1>5. /\ \A q \in Requests \ {write.by} : request'[q] = request[q]
      /\ request[write.by].at \in {"waiting", "done"}
      /\ request[write.by].at = "waiting" => request'[write.by] = later
      /\ request[write.by].at = "done" => request'[write.by] = request[write.by]
      /\ request' \in [Requests -> RequestStates]
  <2>1. request[write.by].at \in {"waiting", "done"}
    BY <1>0, <1>1 DEF EffectsInv, LineInv
  <2>2. request' = IF request[write.by].at # "waiting" THEN request
                   ELSE [request EXCEPT ![write.by] = later]
    BY DEF write
  <2>3. QED
    BY <1>0, <1>3, <1>4, <2>1, <2>2
<1>6. ASSUME NEW i \in 1..Len(line')
      PROVE  /\ i + 1 \in 1..Len(line) /\ line'[i] = line[i + 1]
             /\ line'[i].by \in Requests \ {write.by}
  <2>1. i + 1 \in 1..Len(line) /\ i + 1 # 1 /\ line'[i] = line[i + 1]
    BY <1>0, <1>1
  <2>2. line[i + 1] \in RatingWrites
    BY <1>0, <2>1, ElementOfSeq
  <2>3. line[i + 1].by # line[1].by
    BY <1>0, <2>1 DEF EffectsInv, LineInv
  <2>4. QED
    BY <1>1, <2>1, <2>2, <2>3 DEF RatingWrites
<1>7. ASSUME NEW w \in Rows(write, taken)
      PROVE  /\ w \in FeedbackRows /\ w.by = write.by /\ w.event = write.event
             /\ \E n \in taken : n.memory = w.memory /\ n.rating = w.rating
                                  /\ n \in write.entries /\ Fits(write.event, n)
             /\ write.event \in events
  <2>1. PICK n \in taken : w = [by |-> write.by, event |-> write.event, memory |-> n.memory,
                                 rating |-> n.rating]
    BY DEF Rows
  <2>2. n \in write.entries /\ write.event \in events /\ Fits(write.event, n)
    BY DEF Accepted, Fits, write
  <2>3. n.memory \in Memories \cup {Every} /\ n.rating \in {"negative", "helpful"}
    BY <1>3, <2>2, FormsAreEntries
  <2>4. QED
    BY <1>3, <2>1, <2>2, <2>3 DEF FeedbackRows
<1>8. EffectsTypes'
  <2>1. rows' \subseteq FeedbackRows
    BY <1>0, <1>7 DEF write
  <2>2. QED
    BY <1>1, <1>5, <2>1 DEF EffectsInv, EffectsTypes
<1>9. LineInv'
  <2>1. \A i, j \in 1..Len(line') : line'[i].by = line'[j].by => i = j
    <3> SUFFICES ASSUME NEW i \in 1..Len(line'), NEW j \in 1..Len(line'),
                        line'[i].by = line'[j].by
                 PROVE  i = j
      OBVIOUS
    <3>1. i + 1 = j + 1
      BY <1>6 DEF EffectsInv, LineInv
    <3>2. QED
      BY <1>0, <1>1, <3>1
  <2>2. ASSUME NEW i \in 1..Len(line') PROVE request'[line'[i].by] = request[line'[i].by]
    BY <1>5, <1>6
  <2>3. QED
    BY <1>6, <2>1, <2>2 DEF EffectsInv, LineInv, Answers
<1>10. RowsInv'
  <2> SUFFICES ASSUME NEW w \in rows' PROVE RowInv(w)'
    BY DEF RowsInv
  <2>1. CASE w \in rows
    <3>1. RowInv(w) /\ w.by \in Requests
      BY <1>0, <2>1 DEF EffectsInv, RowsInv, FeedbackRows
    <3>2. w.by # write.by
      BY <1>0, <1>1, <3>1 DEF RowInv
    <3>3. request'[w.by] = request[w.by]
      BY <1>5, <3>1, <3>2
    <3>4. \A i \in 1..Len(line') : line'[i].by # w.by
      BY <1>6, <3>1 DEF RowInv
    <3>5. QED
      BY <3>1, <3>3, <3>4 DEF RowInv, Answers
  <2>2. CASE w \in Rows(write, taken)
    <3>1. /\ w.by = write.by /\ w.event = write.event /\ write.event \in events
          /\ \A i \in 1..Len(line') : line'[i].by # w.by
      BY <1>6, <1>7, <2>2
    <3>2. PICK n \in taken : n.memory = w.memory /\ n.rating = w.rating
                              /\ n \in write.entries /\ Fits(write.event, n)
      BY <1>7, <2>2
    <3>3. Fits(w.event, w)
      BY <3>1, <3>2, FitsAlike
    <3>4. CASE request[write.by].at = "waiting"
      <4>1. request'[w.by] = later /\ later.event = w.event
        BY <1>5, <3>1, <3>4 DEF write
      <4>2. later.at = "written" => n \in later.entries
        BY <3>2
      <4>3. later.at = "done" => later.excused
        OBVIOUS
      <4>4. QED
        BY <1>4, <3>1, <3>2, <3>3, <4>1, <4>2, <4>3 DEF RowInv, Answers
    <3>5. CASE request[write.by].at = "done"
      <4>1. request'[w.by] = request[w.by] /\ request[w.by].at = "done"
        BY <1>5, <3>1, <3>5
      <4>2. Answers(write.by) /\ w.rating = "negative" => IsHidden(hidden, w.event, w)
        <5>1. Answers(write.by) /\ n.rating = "negative" => IsHidden(hidden, write.event, n)
          BY <1>0, <1>1, <3>1, <3>2 DEF EffectsInv, LineInv
        <5>2. IsHidden(hidden, write.event, n) => IsHidden(hidden, write.event, w)
          BY <3>2, HiddenStays
        <5>3. QED
          BY <3>1, <3>2, <5>1, <5>2
      <4>3. QED
        BY <3>1, <3>3, <4>1, <4>2 DEF RowInv, Answers
    <3>6. QED
      BY <1>5, <3>4, <3>5
  <2>3. QED
    BY <2>1, <2>2 DEF write
<1>11. BoostInv'
  <2>1. \A r \in Requests :
          request'[r].at = "boosting" \/ request[r].at = "done" => request'[r] = request[r]
    BY <1>4, <1>5
  <2>2. QED
    BY <2>1, BoostKept
<1>12. QED
  BY <1>8, <1>9, <1>10, <1>11 DEF EffectsInv

LEMMA HeadWrite ==
  ASSUME EffectsInv, line # <<>>
  PROVE  /\ Head(line).by \in Requests /\ Head(line).event \in Events
         /\ Accepted(Head(line).event, Head(line).entries) \subseteq Entries
         /\ request[Head(line).by].at = "waiting" =>
              request[Head(line).by].event = Head(line).event
<1>1. line \in Seq(RatingWrites) /\ Len(line) \in Nat \ {0}
  BY LenProperties, EmptySeq DEF EffectsInv, EffectsTypes
<1>2. Head(line) = line[1]
  BY <1>1, HeadTailProperties
<1>3. line[1] \in RatingWrites
  BY <1>1, ElementOfSeq
<1>4. /\ line[1].by \in Requests /\ line[1].event \in Events /\ line[1].entries \in Forms
  BY <1>3 DEF RatingWrites
<1>5. Accepted(line[1].event, line[1].entries) \subseteq Entries
  BY <1>4, EffectsAssumption DEF Accepted, Entries
<1>6. QED
  BY <1>1, <1>2, <1>4, <1>5 DEF EffectsInv, LineInv

LEMMA WriteRowsStep == ASSUME EffectsInv, WriteRows PROVE EffectsInv'
<1> DEFINE write == Head(line)
           accepted == Accepted(write.event, write.entries)
           later == [at |-> "written", event |-> write.event, entries |-> accepted]
<1>1. line # <<>> /\ UNCHANGED <<events, hidden, claimed, counted, gaveBack>>
      /\ rows' = rows \cup Rows(write, accepted) /\ line' = Tail(line)
  BY DEF WriteRows
<1>2. /\ write.by \in Requests /\ write.event \in Events /\ accepted \subseteq Entries
      /\ request[write.by].at = "waiting" => request[write.by].event = write.event
  BY <1>1, HeadWrite
<1>3. later \in WrittenStates /\ later.event = write.event /\ later.at = "written"
      /\ accepted \subseteq later.entries
  BY <1>2 DEF WrittenStates
<1>4. request' = IF request[write.by].at # "waiting" THEN request
                 ELSE [request EXCEPT ![write.by] = later]
  BY <1>2 DEF WriteRows, EffectsInv, EffectsTypes
<1> HIDE DEF later
<1>5. QED
  BY <1>1, <1>3, <1>4, RowsLand

LEMMA RowsRefusedStep == ASSUME EffectsInv, RowsRefused PROVE EffectsInv'
<1> DEFINE write == Head(line)
           later == Done(write.event, TRUE)
<1>1. line # <<>> /\ UNCHANGED <<events, hidden, claimed, counted, gaveBack>> /\ line' = Tail(line)
  BY DEF RowsRefused
<1>2. PICK taken \in SUBSET Accepted(write.event, write.entries) :
        rows' = rows \cup Rows(write, taken)
  BY DEF RowsRefused
<1>3. /\ write.by \in Requests /\ write.event \in Events
      /\ request[write.by].at = "waiting" => request[write.by].event = write.event
  BY <1>1, HeadWrite
<1>4. later \in DoneStates /\ later.event = write.event /\ later.at = "done" /\ later.excused
  BY <1>3 DEF DoneStates, Done
<1>5. request' = IF request[write.by].at # "waiting" THEN request
                 ELSE [request EXCEPT ![write.by] = later]
  BY <1>3 DEF RowsRefused, EffectsInv, EffectsTypes
<1> HIDE DEF later
<1>6. QED
  BY <1>1, <1>2, <1>4, <1>5, RowsLand

(* The steps of a call once it is asked.                                   *)
LEMMA CallSteps ==
  ASSUME EffectsInv, NEW r \in Requests,
         \/ Abandon(r) \/ Resume(r)
         \/ \E happened \in BOOLEAN : BoostEnds(r, happened) \/ BoostFails(r, happened)
  PROVE  EffectsInv'
<1>0. /\ request \in [Requests -> RequestStates] /\ request[r] \in RequestStates
      /\ request[r].at \in {"waiting", "written", "boosting"} /\ request[r].event \in Events
      /\ UNCHANGED <<events, rows, line>>
  BY RequestShapes DEF EffectsInv, EffectsTypes, Abandon, Resume, BoostEnds, BoostFails, BoostReturns
<1> DEFINE e == request[r].event
           ends(excused) == Done(e, excused)
           boosts(excused) == [at |-> "boosting", event |-> e, excused |-> excused]
<1>1. ASSUME NEW excused \in BOOLEAN
      PROVE  /\ ends(excused) \in DoneStates /\ ends(excused).at = "done"
             /\ (ends(excused).excused <=> excused) /\ ends(excused).event = e
             /\ boosts(excused) \in BoostingStates /\ boosts(excused).at = "boosting"
             /\ (boosts(excused).excused <=> excused) /\ boosts(excused).event = e
  BY <1>0 DEF DoneStates, BoostingStates, Done
<1>2. \A read : Excused(r, read) \in BOOLEAN
  BY DEF Excused
<1> HIDE DEF e, ends, boosts
<1>3. ASSUME NEW excused \in BOOLEAN, request' = [request EXCEPT ![r] = ends(excused)]
      PROVE  /\ request'[r] = ends(excused) /\ \A q \in Requests \ {r} : request'[q] = request[q]
             /\ \A q \in Requests :
                  request'[q].at = "boosting" \/ request[q].at = "done" => request'[q] = request[q]
  BY <1>0, <1>1, <1>3
<1>4. CASE Abandon(r)
  <2>1. PICK read : /\ request' = [request EXCEPT ![r] = ends(Excused(r, read))]
                    /\ hidden' = Hides(r, read)
    BY <1>0, <1>4 DEF Abandon, Abandoned, e, ends
  <2>2. UNCHANGED <<claimed, counted, gaveBack>> /\ request[r].at \in {"waiting", "written"}
    BY <1>4 DEF Abandon
  <2>3. ~Excused(r, read) => HidesAll(r, hidden')
    BY <2>1, ReadAreHidden
  <2>4. EffectsTypes' /\ LineInv' /\ RowsInv'
    <3>1. hidden \subseteq hidden'
      BY <2>1 DEF Hides
    <3>2. QED
      BY <1>0, <1>1, <1>2, <2>1, <2>2, <2>3, <3>1, CallMoves
  <2>5. BoostInv'
    BY <1>2, <1>3, <2>1, <2>2, BoostKept
  <2>6. QED
    BY <2>4, <2>5 DEF EffectsInv
<1>5. CASE Resume(r)
  <2>1. request[r].at = "written" /\ UNCHANGED <<counted, gaveBack>>
    BY <1>5 DEF Resume
  <2>2. PICK read :
          /\ hidden' = Hides(r, read)
          /\ \/ /\ request' = [request EXCEPT ![r] = ends(Excused(r, read))]
                /\ UNCHANGED claimed
             \/ /\ request' = [request EXCEPT ![r] = boosts(Excused(r, read))]
                /\ claimed' = claimed \cup {e} /\ e \notin claimed
    BY <1>0, <1>5 DEF Resume, Claimed, e, ends, boosts
  <2>3. hidden \subseteq hidden' /\ (~Excused(r, read) => HidesAll(r, hidden'))
    BY <2>2, ReadAreHidden DEF Hides
  <2>4. CASE request' = [request EXCEPT ![r] = ends(Excused(r, read))] /\ UNCHANGED claimed
    <3>1. EffectsTypes' /\ LineInv' /\ RowsInv'
      BY <1>0, <1>1, <1>2, <2>1, <2>3, <2>4, CallMoves
    <3>2. BoostInv'
      BY <1>2, <1>3, <2>1, <2>4, BoostKept
    <3>3. QED
      BY <3>1, <3>2 DEF EffectsInv
  <2>5. CASE /\ request' = [request EXCEPT ![r] = boosts(Excused(r, read))]
             /\ claimed' = claimed \cup {e} /\ e \notin claimed
    <3>1. EffectsTypes' /\ LineInv' /\ RowsInv'
      BY <1>0, <1>1, <1>2, <2>1, <2>3, <2>5, CallMoves
    <3>2. BoostInv'
      <4>1. /\ request'[r].at = "boosting" /\ request'[r].event = e
            /\ \A q \in Requests \ {r} : request'[q] = request[q]
        BY <1>0, <1>1, <1>2, <2>5
      <4>2. \A q \in Requests : Boosts(q) => request[q].event # e
        BY <2>5 DEF EffectsInv, BoostInv
      <4>3. r \notin counted \cup gaveBack
        BY <2>1 DEF EffectsInv, BoostInv
      <4>4. QED
        BY <2>1, <2>5, <4>1, <4>2, <4>3 DEF EffectsInv, BoostInv, Boosts
    <3>3. QED
      BY <3>1, <3>2 DEF EffectsInv
  <2>6. QED
    BY <2>2, <2>4, <2>5
<1>6. ASSUME NEW happened \in BOOLEAN, BoostEnds(r, happened) \/ BoostFails(r, happened)
      PROVE  EffectsInv'
  <2> DEFINE excused == request[r].excused
  <2>1. /\ request' = [request EXCEPT ![r] = ends(excused)] /\ request[r].at = "boosting"
        /\ UNCHANGED hidden /\ counted \subseteq counted' /\ counted' \subseteq counted \cup {r}
    BY <1>0, <1>6 DEF BoostEnds, BoostFails, BoostReturns, e, ends
  <2>2. excused \in BOOLEAN
    BY <1>0, <2>1, RequestShapes
  <2> HIDE DEF excused
  <2>3. EffectsTypes' /\ LineInv' /\ RowsInv'
    <3>1. ~excused => ~request[r].excused
      BY DEF excused
    <3>2. QED
      BY <1>0, <1>1, <2>1, <2>2, <3>1, CallMoves
  <2>4. /\ request'[r].at = "done" /\ request'[r].event = e /\ request[r].event = e
        /\ \A q \in Requests \ {r} : request'[q] = request[q]
        /\ r \notin gaveBack /\ Boosts(r)
    BY <1>1, <1>3, <2>1, <2>2 DEF EffectsInv, BoostInv, Boosts, e
  <2>5. BoostInv'
    <3>1. CASE BoostEnds(r, happened)
      <4>1. UNCHANGED <<claimed, gaveBack>>
        BY <3>1 DEF BoostEnds
      <4>2. QED
        BY <2>1, <2>4, <4>1 DEF EffectsInv, BoostInv, Boosts
    <3>2. CASE BoostFails(r, happened)
      <4>1. claimed' = claimed \ {e} /\ gaveBack' = gaveBack \cup {r}
        BY <3>2 DEF BoostFails, e
      <4>2. \A q \in Requests \ {r} : Boosts(q) => request[q].event # e
        BY <2>4 DEF EffectsInv, BoostInv
      <4>3. QED
        BY <2>1, <2>4, <4>1, <4>2 DEF EffectsInv, BoostInv, Boosts
    <3>3. QED
      BY <1>6, <3>1, <3>2
  <2>6. QED
    BY <2>3, <2>5 DEF EffectsInv
<1>7. QED
  BY <1>4, <1>5, <1>6

LEMMA EventExpiresStep ==
  ASSUME EffectsInv, NEW gone \in Events, EventExpires(gone) PROVE EffectsInv'
<1>1. /\ events' = events \ {gone} /\ rows' = {w \in rows : w.event # gone}
      /\ UNCHANGED <<request, line, hidden, claimed, counted, gaveBack>>
  BY DEF EventExpires
<1>2. EffectsTypes'
  BY <1>1 DEF EffectsInv, EffectsTypes
<1>3. LineInv'
  BY <1>1 DEF EffectsInv, LineInv, Answers
<1>4. RowsInv'
  BY <1>1 DEF EffectsInv, RowsInv, RowInv, Answers
<1>5. BoostInv'
  BY <1>1, BoostKept
<1>6. QED
  BY <1>2, <1>3, <1>4, <1>5 DEF EffectsInv

LEMMA EffectsInvStep == EffectsInv /\ [EffectsNext]_effectsVars => EffectsInv'
<1> SUFFICES ASSUME EffectsInv, [EffectsNext]_effectsVars PROVE EffectsInv'
  OBVIOUS
<1>1. CASE UNCHANGED effectsVars
  <2>1. UNCHANGED <<events, rows, request, line, hidden, claimed, counted, gaveBack>>
    BY <1>1 DEF effectsVars
  <2>2. EffectsTypes' /\ LineInv' /\ RowsInv' /\ BoostInv'
    BY <2>1 DEF EffectsInv, EffectsTypes, LineInv, RowsInv, RowInv, BoostInv, Boosts, Answers
  <2>3. QED
    BY <2>2 DEF EffectsInv
<1>2. CASE EffectsNext
  BY <1>2, WriteRowsStep, RowsRefusedStep, EventExpiresStep, AskStep, CallSteps DEF EffectsNext
<1>3. QED
  BY <1>1, <1>2


(* A rating takes effect however its write and its call end, and an event  *)
(* is boosted once: handle_feedback.                                       *)
LEMMA EffectsAreSound == EffectsInv => RatingsTakeEffect
<1> SUFFICES ASSUME EffectsInv PROVE RatingsTakeEffect
  OBVIOUS
<1>1. RatedDownStaysHidden
  <2> SUFFICES ASSUME NEW w \in rows, w.rating = "negative", request[w.by].at = "done",
                      ~request[w.by].excused, NEW m \in Named(w.event, w),
                      m \in Renders(ToolOf[w.event])
               PROVE  FALSE
    BY DEF RatedDownStaysHidden
  <2>1. IsHidden(hidden, w.event, w)
    BY DEF EffectsInv, RowsInv, RowInv, Answers
  <2>2. QED
    BY <2>1 DEF IsHidden, Renders
<1>2. CountedOnce
  BY DEF EffectsInv, BoostInv, Boosts, CountedOnce, Boosters
<1>3. QED
  BY <1>1, <1>2 DEF RatingsTakeEffect
-----------------------------------------------------------------------------
(* Metrics: no call is lost or counted twice, no source outgrows its cap.  *)

MetricRows == [id : Nat, source : Origins]

OpenerStates ==
  {Closed} \cup [at : {"create", "inspect", "reconcile", "open"}]
    \cup [at : {"migrate"}, missing : SUBSET Columns]

MetricsTypes ==
  /\ schema \in [table : BOOLEAN, columns : SUBSET Columns, rollup : BOOLEAN]
  /\ kept \subseteq MetricRows /\ IsFiniteSet(kept) /\ seq \in Nat
  /\ daily \in [Origins -> Nat] /\ written \in [Origins -> Nat]
  /\ opener \in [Openers \cup OldBuilds -> OpenerStates]

IdsInv ==
  /\ \A r \in kept : r.id \in 1..seq
  /\ \A r, q \in kept : r.id = q.id => r = q

(* Before the installation nothing is rolled up or marked; after it, what  *)
(* is kept, rolled up and lost are the rows ever written.                  *)
WholeInv ==
  /\ Total(written) = seq
  /\ ~schema.rollup => lost = Unmarked /\ \A s \in Origins : daily[s] = 0
  /\ Installed /\ lost # Unknown => lost \in Int /\ Cardinality(kept) + Total(daily) + lost = seq
  /\ \A s \in Origins : AllTime(s) <= written[s]

Bucket(top, among) == {r \in among : r.id \div TrimInterval = top.id \div TrimInterval}

(* Beyond the cap a source only has rows of the bucket of its last one.    *)
BucketInv ==
  \A s \in Origins : \A top \in Of(s, kept) :
    (\A r \in Of(s, kept) : r.id <= top.id) =>
      Cardinality(Of(s, kept)) < MaxHistory + Cardinality(Bucket(top, Of(s, kept)))

(* A step of opening finds what the steps before it have built.            *)
OpenersInv ==
  /\ stamp = "current" => schema.table /\ schema.rollup /\ Columns \subseteq schema.columns
  /\ \A p \in Openers :
       /\ opener[p].at \in {"inspect", "migrate", "reconcile", "open"} => schema.table
       /\ opener[p].at = "migrate" => Columns \subseteq opener[p].missing \cup schema.columns
       /\ opener[p].at \in {"reconcile", "open"} => Columns \subseteq schema.columns

MetricsInv == MetricsTypes /\ IdsInv /\ WholeInv /\ BucketInv /\ OpenersInv

(* What Total counts.                                                      *)
CountRows(counts) == UNION {{s} \X (1..counts[s]) : s \in Origins}

LEMMA TotalTyped ==
  ASSUME NEW counts \in [Origins -> Nat]
  PROVE  /\ IsFiniteSet(CountRows(counts)) /\ Total(counts) \in Nat
         /\ Total(counts) = Cardinality(CountRows(counts))
<1> DEFINE g == [s \in Origins |-> {s} \X (1..counts[s])]
           S == {{s} \X (1..counts[s]) : s \in Origins}
<1>1. IsFiniteSet(Origins)
  BY MetricsAssumption
<1>2. g \in Surjection(Origins, S)
  <2>1. g \in [Origins -> S] /\ \A x \in S : \E s \in Origins : g[s] = x
    OBVIOUS
  <2> HIDE DEF g, S
  <2>2. QED
    BY <2>1 DEF Surjection
<1>3. ASSUME NEW x \in S PROVE IsFiniteSet(x)
  <2>1. PICK s \in Origins : x = {s} \X (1..counts[s])
    OBVIOUS
  <2>2. IsFiniteSet({s}) /\ IsFiniteSet(1..counts[s])
    <3>1. 1 \in Int /\ counts[s] \in Int
      OBVIOUS
    <3>2. QED
      BY <3>1, FS_Singleton, FS_Interval
  <2>3. QED
    BY <2>1, <2>2, FS_Product
<1> HIDE DEF g
<1>4. IsFiniteSet(S)
  BY <1>1, <1>2, FS_Surjection
<1>5. IsFiniteSet(UNION S)
  <2> HIDE DEF S
  <2>1. QED
    BY <1>3, <1>4, FS_UNION
<1>6. QED
  BY <1>5, FS_CardinalityType DEF CountRows, Total

LEMMA TotalOfNone ==
  ASSUME NEW counts \in [Origins -> Nat], \A s \in Origins : counts[s] = 0
  PROVE  Total(counts) = 0
<1>1. CountRows(counts) = {}
  BY DEF CountRows
<1>2. QED
  BY <1>1, TotalTyped, FS_EmptySet

LEMMA TotalAdds ==
  ASSUME NEW counts \in [Origins -> Nat], NEW s \in Origins, NEW n \in Nat,
         NEW sums \in [Origins -> Nat], sums[s] = counts[s] + n, \A o \in Origins \ {s} : sums[o] = counts[o]
  PROVE  Total(sums) = Total(counts) + n
<1> DEFINE k == counts[s]
           A == CountRows(counts)
           B == {s} \X ((k + 1)..(k + n))
<1>0. k \in Nat /\ sums[s] = k + n /\ \A o \in Origins \ {s} : sums[o] = counts[o]
  OBVIOUS
<1>1. CountRows(sums) = A \cup B
  <2>1. ASSUME NEW x \in CountRows(sums) PROVE x \in A \cup B
    <3>1. PICK o \in Origins : x \in {o} \X (1..sums[o])
      BY DEF CountRows
    <3>2. CASE o = s
      <4>1. x[2] \in 1..k \/ x[2] \in (k + 1)..(k + n)
        BY <1>0, <3>1, <3>2
      <4>2. x \in {s} \X (1..k) \/ x \in B
        BY <3>1, <3>2, <4>1
      <4>3. QED
        BY <4>2 DEF CountRows
    <3>3. CASE o # s
      BY <1>0, <3>1, <3>3 DEF CountRows
    <3>4. QED
      BY <3>2, <3>3
  <2>2. ASSUME NEW x \in A PROVE x \in CountRows(sums)
    <3>1. PICK o \in Origins : x \in {o} \X (1..counts[o])
      BY DEF CountRows
    <3>2. x \in {o} \X (1..sums[o])
      BY <1>0, <3>1
    <3>3. QED
      BY <3>2 DEF CountRows
  <2>3. ASSUME NEW x \in B PROVE x \in CountRows(sums)
    <3>1. x \in {s} \X (1..sums[s])
      BY <1>0
    <3>2. QED
      BY <3>1 DEF CountRows
  <2>4. QED
    BY <2>1, <2>2, <2>3
<1>2. A \cap B = {}
  <2>1. ASSUME NEW x \in A, x \in B PROVE FALSE
    <3>1. PICK o \in Origins : x \in {o} \X (1..counts[o])
      BY DEF CountRows
    <3>2. x[1] = s /\ x[2] \in (k + 1)..(k + n) /\ x[1] = o /\ x[2] \in 1..counts[o]
      BY <2>1, <3>1
    <3>3. QED
      BY <1>0, <3>2
  <2>2. QED
    BY <2>1
<1>3. IsFiniteSet(B) /\ Cardinality(B) = n
  <2>1. IsFiniteSet({s}) /\ Cardinality({s}) = 1
    BY FS_Singleton
  <2>2. IsFiniteSet((k + 1)..(k + n)) /\ Cardinality((k + 1)..(k + n)) = n
    <3> DEFINE i == k + 1
               j == k + n
    <3>1. i \in Int /\ j \in Int /\ (IF i > j THEN 0 ELSE j - i + 1) = n
      BY <1>0
    <3> HIDE DEF i, j
    <3>2. IsFiniteSet(i..j) /\ Cardinality(i..j) = IF i > j THEN 0 ELSE j - i + 1
      BY <3>1, FS_Interval
    <3>3. QED
      BY <3>1, <3>2 DEF i, j
  <2>3. IsFiniteSet(B) /\ Cardinality(B) = Cardinality({s}) * Cardinality((k + 1)..(k + n))
    BY <2>1, <2>2, FS_Product
  <2>4. QED
    BY <2>1, <2>2, <2>3
<1>4. IsFiniteSet(A) /\ Total(counts) = Cardinality(A) /\ Cardinality(A) \in Nat
  BY TotalTyped
<1> HIDE DEF A, B
<1>5. Cardinality(A \cup B) = Cardinality(A) + Cardinality(B) - Cardinality(A \cap B)
  BY <1>3, <1>4, FS_Union
<1>6. Cardinality(A \cap B) = 0
  BY <1>2, FS_EmptySet
<1>7. Total(sums) = Cardinality(A \cup B)
  BY <1>1, TotalTyped
<1>8. QED
  BY <1>3, <1>4, <1>5, <1>6, <1>7

(* The rows a trim takes, and the row an insert brings.                    *)
LEMMA RowsGone ==
  ASSUME NEW S \in SUBSET MetricRows, IsFiniteSet(S), NEW s \in Origins, NEW gone \in SUBSET Of(s, S)
  PROVE  /\ IsFiniteSet(S \ gone) /\ Cardinality(gone) \in Nat /\ Cardinality(S) \in Nat
         /\ Cardinality(S \ gone) = Cardinality(S) - Cardinality(gone)
         /\ IsFiniteSet(Of(s, S)) /\ Cardinality(Of(s, S)) \in Nat
         /\ Cardinality(Of(s, S \ gone)) = Cardinality(Of(s, S)) - Cardinality(gone)
         /\ \A o \in Origins \ {s} : Of(o, S \ gone) = Of(o, S)
<1>1. Of(s, S) \subseteq S /\ gone \subseteq S
  BY DEF Of
<1>2. /\ IsFiniteSet(Of(s, S)) /\ IsFiniteSet(gone) /\ IsFiniteSet(S \ gone)
      /\ Cardinality(S) \in Nat /\ Cardinality(Of(s, S)) \in Nat /\ Cardinality(gone) \in Nat
  BY <1>1, FS_Subset, FS_CardinalityType
<1>3. S \cap gone = gone /\ Of(s, S) \cap gone = gone
  BY <1>1
<1>4. Of(s, S \ gone) = Of(s, S) \ gone
  BY DEF Of
<1>5. Cardinality(S \ gone) = Cardinality(S) - Cardinality(gone)
  BY <1>2, <1>3, FS_Difference
<1>6. Cardinality(Of(s, S) \ gone) = Cardinality(Of(s, S)) - Cardinality(gone)
  <2> DEFINE A == Of(s, S)
  <2>1. IsFiniteSet(A) /\ A \cap gone = gone
    BY <1>2, <1>3
  <2> HIDE DEF A
  <2>2. Cardinality(A \ gone) = Cardinality(A) - Cardinality(gone)
    BY <2>1, FS_Difference
  <2>3. QED
    BY <2>2 DEF A
<1>7. ASSUME NEW o \in Origins \ {s} PROVE Of(o, S \ gone) = Of(o, S)
  BY DEF Of
<1>8. QED
  BY <1>2, <1>4, <1>5, <1>6, <1>7

LEMMA RowCame ==
  ASSUME NEW S \in SUBSET MetricRows, IsFiniteSet(S), NEW row \in MetricRows, row \notin S
  PROVE  /\ IsFiniteSet(S \cup {row}) /\ Cardinality(S \cup {row}) = Cardinality(S) + 1
         /\ Of(row.source, S \cup {row}) = Of(row.source, S) \cup {row}
         /\ Cardinality(Of(row.source, S \cup {row})) = Cardinality(Of(row.source, S)) + 1
         /\ \A o \in Origins \ {row.source} : Of(o, S \cup {row}) = Of(o, S)
<1>1. IsFiniteSet(Of(row.source, S)) /\ row \notin Of(row.source, S)
  <2>1. Of(row.source, S) \subseteq S
    BY DEF Of
  <2>2. QED
    BY <2>1, FS_Subset
<1>2. Of(row.source, S \cup {row}) = Of(row.source, S) \cup {row}
  BY DEF Of
<1>3. /\ IsFiniteSet(S \cup {row}) /\ Cardinality(S \cup {row}) = Cardinality(S) + 1
      /\ Cardinality(Of(row.source, S) \cup {row}) = Cardinality(Of(row.source, S)) + 1
  BY <1>1, FS_AddElement
<1>4. \A o \in Origins \ {row.source} : Of(o, S \cup {row}) = Of(o, S)
  BY DEF Of
<1>5. QED
  BY <1>2, <1>3, <1>4

(* A trim leaves a source within its cap.                                  *)
LEMMA TrimLeaves ==
  ASSUME NEW S \in SUBSET MetricRows, IsFiniteSet(S), NEW s \in Origins, NEW gone \in Oldest(s, S)
  PROVE  gone \in SUBSET Of(s, S) /\ Cardinality(Of(s, S \ gone)) <= MaxHistory
<1>1. gone \in SUBSET Of(s, S) /\ Cardinality(gone) = Excess(s, S)
  BY DEF Oldest, kSubset
<1>2. /\ Cardinality(Of(s, S)) \in Nat /\ MaxHistory \in Nat
      /\ Cardinality(Of(s, S \ gone)) = Cardinality(Of(s, S)) - Cardinality(gone)
  BY <1>1, RowsGone, MetricsAssumption
<1>3. QED
  BY <1>1, <1>2 DEF Excess

LEMMA LastRow ==
  ASSUME NEW S \in SUBSET MetricRows, S # {}, NEW n \in Nat, \A r \in S : r.id <= n
  PROVE  \E top \in S : \A r \in S : r.id <= top.id
<1> DEFINE T == {n - r.id : r \in S}
<1>1. \A r \in S : r.id \in Nat /\ n - r.id \in Nat
  BY DEF MetricRows
<1>2. T \subseteq Nat /\ T # {}
  BY <1>1
<1>3. \E x \in T : \A y \in T : ~(<<y, x>> \in OpToRel(<, Nat))
  <2> HIDE DEF T
  <2>1. QED
    BY <1>2, NatLessThanWellFounded, WFMin, Zenon
<1>4. PICK x \in T : \A y \in T : ~(<<y, x>> \in OpToRel(<, Nat))
  BY <1>3
<1>5. PICK top \in S : x = n - top.id
  OBVIOUS
<1>6. ASSUME NEW r \in S PROVE r.id <= top.id
  <2>1. n - r.id \in T /\ <<n - r.id, x>> \in Nat \X Nat
    BY <1>1, <1>2
  <2>2. ~(n - r.id < x)
    BY <1>4, <2>1 DEF OpToRel
  <2>3. QED
    BY <1>1, <1>5, <2>2
<1>7. QED
  BY <1>6

LEMMA NoFewerThanOne ==
  ASSUME NEW S, IsFiniteSet(S), NEW x \in S PROVE Cardinality(S) \in Nat /\ Cardinality(S) >= 1
BY FS_EmptySet, FS_CardinalityType

(* The ids of a bucket.                                                    *)
LEMMA BucketIsSmall ==
  ASSUME NEW S \in SUBSET MetricRows, IsFiniteSet(S), NEW top \in S,
         \A r, q \in S : r.id = q.id => r = q
  PROVE  /\ IsFiniteSet(Bucket(top, S)) /\ Cardinality(Bucket(top, S)) \in Nat
         /\ Cardinality(Bucket(top, S)) <= TrimInterval
<1> DEFINE B == Bucket(top, S)
           T == TrimInterval
           first == T * (top.id \div T)
           last == first + (T - 1)
           f == [r \in B |-> r.id]
<1>0. T \in Nat \ {0} /\ \A r \in S : r.id \in Nat
  BY MetricsAssumption DEF MetricRows
<1>1. B \subseteq S /\ IsFiniteSet(B) /\ Cardinality(B) \in Nat
  BY FS_Subset, FS_CardinalityType DEF Bucket
<1>2. ASSUME NEW i \in Nat PROVE T * (i \div T) <= i /\ i < T * (i \div T) + T /\ i \div T \in Nat
  BY <1>0
<1>3. first \in Int /\ last \in Int
  <2>1. top.id \div T \in Nat
    BY <1>0, <1>2
  <2> HIDE DEF T
  <2>2. first \in Nat
    BY <1>0, <2>1
  <2> HIDE DEF first
  <2>3. QED
    BY <1>0, <2>2
<1>4. ASSUME NEW r \in B PROVE r.id \in first..last
  <2>1. r.id \in Nat /\ r.id \div T = top.id \div T
    BY <1>0 DEF Bucket
  <2>2. first <= r.id /\ r.id < first + T
    BY <1>2, <2>1
  <2> HIDE DEF first
  <2>3. QED
    BY <1>0, <1>3, <2>1, <2>2
<1>5. f \in Injection(B, first..last)
  <2> HIDE DEF first, last
  <2>1. f \in [B -> first..last]
    BY <1>4
  <2>2. \A r, q \in B : f[r] = f[q] => r = q
    BY <1>1
  <2> HIDE DEF f, B
  <2>3. QED
    BY <2>1, <2>2 DEF Injection, IsInjective
<1>6. IsFiniteSet(first..last) /\ Cardinality(first..last) = T
  <2> HIDE DEF first
  <2>1. Cardinality(first..last) = (IF first > last THEN 0 ELSE last - first + 1)
        /\ IsFiniteSet(first..last)
    <3> HIDE DEF last
    <3>1. QED
      BY <1>3, FS_Interval
  <2>2. QED
    BY <1>0, <1>3, <2>1
<1> HIDE DEF B, f, first, last
<1>7. Cardinality(B) <= Cardinality(first..last)
  BY <1>5, <1>6, FS_Injection
<1>8. QED
  BY <1>1, <1>6, <1>7 DEF B

LEMMA RolledRows ==
  ASSUME MetricsTypes, NEW s \in Origins, NEW gone, Cardinality(gone) \in Nat,
         NEW sums, sums = RolledUp(s, gone)
  PROVE  /\ sums \in [Origins -> Nat] /\ \A o \in Origins \ {s} : sums[o] = daily[o]
         /\ schema.rollup => /\ Total(sums) = Total(daily) + Cardinality(gone)
                             /\ sums[s] = daily[s] + Cardinality(gone)
         /\ ~schema.rollup => sums = daily
<1> DEFINE n == Cardinality(gone)
<1>0. daily \in [Origins -> Nat]
  BY DEF MetricsTypes
<1>1. CASE schema.rollup
  <2>1. sums = [daily EXCEPT ![s] = daily[s] + n]
    BY <1>1 DEF RolledUp
  <2> HIDE DEF n
  <2>2. n \in Nat
    BY DEF n
  <2>3. sums \in [Origins -> Nat] /\ sums[s] = daily[s] + n /\ \A o \in Origins \ {s} : sums[o] = daily[o]
    BY <1>0, <2>1, <2>2
  <2>4. Total(sums) = Total(daily) + n
    BY <1>0, <2>2, <2>3, TotalAdds, ZenonT(40)
  <2>5. QED
    BY <1>1, <2>3, <2>4 DEF n
<1>2. CASE ~schema.rollup
  BY <1>0, <1>2 DEF RolledUp
<1>3. QED
  BY <1>1, <1>2

(* n rows come to a source, 0 or 1, and some of its rows go.               *)
LEMMA WholeStays ==
  ASSUME MetricsInv, NEW s \in Origins, NEW n \in {0, 1}, NEW S \in SUBSET MetricRows, IsFiniteSet(S),
         Cardinality(S) = Cardinality(kept) + n,
         Cardinality(Of(s, S)) = Cardinality(Of(s, kept)) + n,
         \A o \in Origins \ {s} : Of(o, S) = Of(o, kept),
         NEW gone \in SUBSET Of(s, S), kept' = S \ gone, daily' = RolledUp(s, gone),
         seq' = seq + n, written' = [written EXCEPT ![s] = written[s] + n], UNCHANGED <<schema, lost>>
  PROVE  /\ kept' \subseteq MetricRows /\ IsFiniteSet(kept') /\ seq' \in Nat
         /\ daily' \in [Origins -> Nat] /\ written' \in [Origins -> Nat] /\ WholeInv'
<1> DEFINE g == Cardinality(gone)
<1>0. /\ MetricsTypes /\ IsFiniteSet(kept) /\ seq \in Nat /\ daily \in [Origins -> Nat]
      /\ written \in [Origins -> Nat] /\ kept \in SUBSET MetricRows
  BY DEF MetricsInv, MetricsTypes
<1>1. /\ g \in Nat /\ IsFiniteSet(kept') /\ Cardinality(kept') = Cardinality(kept) + n - g
      /\ Cardinality(Of(s, kept')) = Cardinality(Of(s, kept)) + n - g
      /\ \A o \in Origins \ {s} : Of(o, kept') = Of(o, kept)
  <2> DEFINE K == S \ gone
  <2>1. /\ IsFiniteSet(K) /\ Cardinality(gone) \in Nat
        /\ Cardinality(K) = Cardinality(S) - Cardinality(gone)
        /\ Cardinality(Of(s, K)) = Cardinality(Of(s, S)) - Cardinality(gone)
        /\ \A o \in Origins \ {s} : Of(o, K) = Of(o, S)
    BY RowsGone
  <2>2. kept' = K /\ n \in Nat /\ Cardinality(kept) \in Nat /\ Cardinality(Of(s, kept)) \in Nat
    <3>1. Of(s, kept) \subseteq kept
      BY DEF Of
    <3>2. QED
      BY <1>0, <3>1, FS_Subset, FS_CardinalityType
  <2> HIDE DEF K
  <2>3. /\ Cardinality(K) = Cardinality(kept) + n - g
        /\ Cardinality(Of(s, K)) = Cardinality(Of(s, kept)) + n - g
    BY <2>1, <2>2
  <2>4. QED
    BY <2>1, <2>2, <2>3
<1>2. Cardinality(kept) \in Nat /\ \A o \in Origins : Cardinality(Of(o, kept)) \in Nat
  <2>1. \A o \in Origins : Of(o, kept) \subseteq kept
    BY DEF Of
  <2>2. QED
    BY <1>0, <2>1, FS_Subset, FS_CardinalityType
<1>3. /\ written' \in [Origins -> Nat] /\ written'[s] = written[s] + n
      /\ \A o \in Origins \ {s} : written'[o] = written[o]
  <2>1. n \in Nat /\ written' = [written EXCEPT ![s] = written[s] + n]
    OBVIOUS
  <2>2. QED
    BY <1>0, <2>1
<1>4. Total(written') = Total(written) + n
  <2>1. n \in Nat
    OBVIOUS
  <2>2. s \in Origins /\ written \in [Origins -> Nat]
    BY <1>0
  <2>3. ASSUME NEW sums \in [Origins -> Nat], sums[s] = written[s] + n,
               \A o \in Origins \ {s} : sums[o] = written[o]
        PROVE  Total(sums) = Total(written) + n
    BY <2>1, <2>2, <2>3, TotalAdds, Zenon
  <2>4. QED
    BY <1>3, <2>3, Zenon
<1>5. /\ daily' \in [Origins -> Nat] /\ \A o \in Origins \ {s} : daily'[o] = daily[o]
      /\ schema.rollup => Total(daily') = Total(daily) + g /\ daily'[s] = daily[s] + g
      /\ ~schema.rollup => daily' = daily
  BY <1>0, <1>1, RolledRows
<1>6. /\ Total(daily) \in Nat /\ Total(written) = seq
      /\ ~schema.rollup => lost = Unmarked /\ \A o \in Origins : daily[o] = 0
      /\ Installed /\ lost # Unknown =>
           lost \in Int /\ Cardinality(kept) + Total(daily) + lost = seq
      /\ \A o \in Origins : Cardinality(Of(o, kept)) + daily[o] <= written[o]
  BY <1>0, TotalTyped DEF MetricsInv, WholeInv, AllTime
<1> HIDE DEF g
<1>7. WholeInv'
  <2>1. Total(written') = seq'
    BY <1>4, <1>6
  <2>2. ~schema'.rollup => lost' = Unmarked /\ \A o \in Origins : daily'[o] = 0
    BY <1>5, <1>6
  <2>3. Installed' /\ lost' # Unknown =>
          lost' \in Int /\ Cardinality(kept') + Total(daily') + lost' = seq'
    <3> SUFFICES ASSUME Installed, lost # Unknown
                 PROVE  lost \in Int /\ Cardinality(kept') + Total(daily') + lost = seq'
      BY DEF Installed
    <3>1. lost \in Int /\ Cardinality(kept) + Total(daily) + lost = seq /\ Total(daily') = Total(daily) + g
      BY <1>5, <1>6 DEF Installed
    <3>2. QED
      BY <1>1, <1>2, <1>6, <3>1
  <2>4. ASSUME NEW o \in Origins PROVE Cardinality(Of(o, kept')) + daily'[o] <= written'[o]
    <3>1. Cardinality(Of(o, kept)) + daily[o] <= written[o] /\ daily[o] \in Nat /\ written[o] \in Nat
          /\ Cardinality(Of(o, kept)) \in Nat
      BY <1>0, <1>2, <1>6
    <3>2. CASE o # s
      BY <1>1, <1>3, <1>5, <3>1, <3>2
    <3>3. CASE o = s
      <4>1. daily'[s] = daily[s] + g \/ daily'[s] = daily[s]
        BY <1>5
      <4>2. QED
        BY <1>1, <1>3, <3>1, <3>3, <4>1
    <3>4. QED
      BY <3>2, <3>3
  <2>5. QED
    BY <2>1, <2>2, <2>3, <2>4 DEF WholeInv, AllTime
<1>8. QED
  BY <1>0, <1>1, <1>3, <1>5, <1>7

(* A trim of a source keeps the bound, whatever the source had before.     *)
LEMMA TrimBounds ==
  ASSUME MetricsInv, NEW s \in Origins, kept' \subseteq MetricRows, IsFiniteSet(kept'),
         \A o \in Origins \ {s} : Of(o, kept') = Of(o, kept),
         Cardinality(Of(s, kept')) <= MaxHistory
  PROVE  BucketInv'
<1> SUFFICES ASSUME NEW o \in Origins, NEW top \in Of(o, kept'),
                    \A r \in Of(o, kept') : r.id <= top.id
             PROVE  Cardinality(Of(o, kept')) < MaxHistory + Cardinality(Bucket(top, Of(o, kept')))
  BY DEF BucketInv
<1>1. CASE o # s
  BY <1>1 DEF MetricsInv, BucketInv
<1>2. CASE o = s
  <2> DEFINE A == Of(s, kept')
             B == Bucket(top, A)
  <2>1. A \subseteq kept' /\ B \subseteq A /\ top \in B
    BY <1>2 DEF Of, Bucket
  <2> HIDE DEF B, A
  <2>2. IsFiniteSet(A) /\ IsFiniteSet(B) /\ Cardinality(A) \in Nat
    BY <2>1, FS_Subset, FS_CardinalityType
  <2>3. Cardinality(B) \in Nat /\ Cardinality(B) >= 1
    BY <2>1, <2>2, NoFewerThanOne
  <2>4. MaxHistory \in Nat
    BY MetricsAssumption
  <2>5. Cardinality(A) < MaxHistory + Cardinality(B)
    BY <2>2, <2>3, <2>4 DEF A
  <2>6. QED
    BY <1>2, <2>5 DEF A, B
<1>3. QED
  BY <1>1, <1>2

LEMMA ReconcileStep ==
  ASSUME MetricsInv, NEW p \in Openers, NEW s \in Origins, Reconcile(p, s) PROVE MetricsInv'
<1>0. /\ MetricsTypes /\ IsFiniteSet(kept) /\ seq \in Nat /\ written \in [Origins -> Nat]
      /\ kept \in SUBSET MetricRows
  BY DEF MetricsInv, MetricsTypes
<1>1. PICK gone \in Oldest(s, kept) : kept' = kept \ gone /\ daily' = RolledUp(s, gone)
  BY DEF Reconcile
<1>2. UNCHANGED <<schema, stamp, lost, seq, written, opener, damage>>
  BY DEF Reconcile
<1>3. gone \in SUBSET Of(s, kept) /\ Cardinality(Of(s, kept')) <= MaxHistory
  BY <1>0, <1>1, TrimLeaves
<1>4. /\ Cardinality(kept) \in Nat /\ Cardinality(Of(s, kept)) \in Nat
      /\ \A o \in Origins \ {s} : Of(o, kept') = Of(o, kept)
  <2> DEFINE K == kept \ gone
  <2>1. \A o \in Origins \ {s} : Of(o, K) = Of(o, kept)
    BY <1>0, <1>3, RowsGone
  <2>2. Cardinality(kept) \in Nat /\ Cardinality(Of(s, kept)) \in Nat
    BY <1>0, <1>3, RowsGone
  <2>3. kept' = K
    BY <1>1
  <2> HIDE DEF K
  <2>4. QED
    BY <2>1, <2>2, <2>3
<1>5. /\ kept' \subseteq MetricRows /\ IsFiniteSet(kept') /\ seq' \in Nat
      /\ daily' \in [Origins -> Nat] /\ written' \in [Origins -> Nat] /\ WholeInv'
  <2>1. /\ Cardinality(kept) = Cardinality(kept) + 0 /\ seq' = seq + 0
        /\ Cardinality(Of(s, kept)) = Cardinality(Of(s, kept)) + 0
        /\ written' = [written EXCEPT ![s] = written[s] + 0]
    BY <1>0, <1>2, <1>4
  <2>2. QED
    BY <1>0, <1>1, <1>2, <1>3, <2>1, WholeStays
<1>6. IdsInv'
  BY <1>1, <1>2 DEF MetricsInv, IdsInv
<1>7. BucketInv'
  BY <1>3, <1>4, <1>5, TrimBounds
<1>8. OpenersInv'
  BY <1>2 DEF MetricsInv, OpenersInv
<1>9. QED
  BY <1>0, <1>2, <1>5, <1>6, <1>7, <1>8 DEF MetricsInv, MetricsTypes

(* A row that comes without a trim is of the bucket of its source's last.  *)
LEMMA SameBucket ==
  ASSUME MetricsInv, NEW s \in Origins, NEW row \in MetricRows, row.id = seq + 1, row.source = s,
         ~Crosses(s, seq + 1), kept' = kept \cup {row}
  PROVE  BucketInv'
<1>0. /\ kept \in SUBSET MetricRows /\ IsFiniteSet(kept) /\ seq \in Nat /\ row \notin kept
      /\ \A r \in kept : r.id \in Nat /\ r.id <= seq
  BY DEF MetricsInv, MetricsTypes, IdsInv
<1> DEFINE A == Of(s, kept)
<1>1. /\ Of(s, kept') = A \cup {row} /\ Cardinality(Of(s, kept')) = Cardinality(A) + 1
      /\ \A o \in Origins \ {s} : Of(o, kept') = Of(o, kept)
  <2> DEFINE K == kept \cup {row}
  <2>1. Of(s, K) = A \cup {row} /\ Cardinality(Of(s, K)) = Cardinality(A) + 1
        /\ \A o \in Origins \ {s} : Of(o, K) = Of(o, kept)
    BY <1>0, RowCame
  <2>2. kept' = K
    OBVIOUS
  <2> HIDE DEF K
  <2>3. QED
    BY <2>1, <2>2
<1>2. A \subseteq kept /\ A \subseteq MetricRows /\ row \notin A /\ IsFiniteSet(A) /\ Cardinality(A) \in Nat
  <2>1. A \subseteq kept
    BY DEF Of
  <2>2. QED
    BY <1>0, <2>1, FS_Subset, FS_CardinalityType
<1>3. A # {} /\ (seq + 1) \div TrimInterval = Max(Previous(s)) \div TrimInterval
  BY DEF Crosses, Previous
<1> HIDE DEF A
<1>4. PICK top \in A : \A r \in A : r.id <= top.id
  BY <1>0, <1>2, <1>3, LastRow
<1>5. Max(Previous(s)) = top.id
  <2> DEFINE P == Previous(s)
  <2>1. /\ top.id \in P /\ \A y \in P : top.id >= y
        /\ \A y \in P : y \in Nat
    BY <1>0, <1>2, <1>4 DEF Previous, A
  <2> HIDE DEF P
  <2>2. Max(P) \in P /\ \A y \in P : Max(P) >= y
    BY <2>1 DEF Max
  <2>3. QED
    BY <2>1, <2>2 DEF P
<1>6. Cardinality(A) < MaxHistory + Cardinality(Bucket(top, A))
  BY <1>4 DEF A, MetricsInv, BucketInv
<1>7. Bucket(row, A \cup {row}) = Bucket(top, A) \cup {row}
  BY <1>3, <1>5 DEF Bucket
<1>8. /\ IsFiniteSet(Bucket(top, A)) /\ Cardinality(Bucket(top, A)) \in Nat
      /\ Cardinality(Bucket(top, A) \cup {row}) = Cardinality(Bucket(top, A)) + 1
  <2>1. Bucket(top, A) \subseteq A /\ row \notin Bucket(top, A)
    BY <1>2 DEF Bucket
  <2>2. QED
    BY <1>2, <2>1, FS_Subset, FS_CardinalityType, FS_AddElement
<1>9. Cardinality(A \cup {row}) < MaxHistory + Cardinality(Bucket(row, A \cup {row}))
  <2>1. Cardinality(A \cup {row}) = Cardinality(A) + 1 /\ MaxHistory \in Nat
    BY <1>1, MetricsAssumption
  <2>2. QED
    <3> DEFINE B == Bucket(top, A) \cup {row}
    <3>1. Cardinality(B) = Cardinality(Bucket(top, A)) + 1 /\ Bucket(row, A \cup {row}) = B
      BY <1>7, <1>8
    <3> HIDE DEF B
    <3>2. Cardinality(A \cup {row}) < MaxHistory + Cardinality(B)
      BY <1>2, <1>6, <1>8, <2>1, <3>1
    <3>3. QED
      BY <3>1, <3>2, Zenon
<1>10. SUFFICES ASSUME NEW o \in Origins, NEW last \in Of(o, kept'),
                       \A r \in Of(o, kept') : r.id <= last.id
                PROVE  Cardinality(Of(o, kept')) < MaxHistory + Cardinality(Bucket(last, Of(o, kept')))
  BY DEF BucketInv
<1>11. CASE o # s
  <2>1. Of(o, kept') = Of(o, kept)
    BY <1>1, <1>11
  <2>2. \A r \in Of(o, kept) : r.id <= last.id
    BY <1>10, <2>1
  <2>3. last \in Of(o, kept)
    BY <2>1
  <2>4. Cardinality(Of(o, kept)) < MaxHistory + Cardinality(Bucket(last, Of(o, kept)))
    BY <2>2, <2>3 DEF MetricsInv, BucketInv
  <2>5. QED
    BY <2>1, <2>4, Zenon
<1>12. CASE o = s
  <2>1. last = row
    <3>1. last \in A \/ last = row
      BY <1>1, <1>12
    <3>2. row \in Of(o, kept')
      BY <1>1, <1>12
    <3>3. seq + 1 <= last.id
      BY <3>2, <1>10
    <3>4. QED
      BY <1>0, <1>2, <3>1, <3>3
  <2>2. QED
    BY <1>1, <1>9, <1>12, <2>1
<1>13. QED
  BY <1>11, <1>12

LEMMA InsertKeeps ==
  ASSUME MetricsInv, NEW s \in Origins, NEW trims \in BOOLEAN, trims \/ ~Crosses(s, seq + 1),
         Insert(s, trims), UNCHANGED <<schema, stamp, lost, opener>>
  PROVE  MetricsInv'
<1> DEFINE row == [id |-> seq + 1, source |-> s]
           S == kept \cup {row}
<1>0. /\ MetricsTypes /\ IsFiniteSet(kept) /\ seq \in Nat /\ written \in [Origins -> Nat]
      /\ kept \in SUBSET MetricRows
  BY DEF MetricsInv, MetricsTypes
<1>1. row \in MetricRows /\ row.id = seq + 1 /\ row.source = s /\ row \notin kept
  BY <1>0 DEF MetricsInv, IdsInv, MetricRows
<1>2. PICK gone \in IF trims THEN Oldest(s, S) ELSE {{}} : kept' = S \ gone /\ daily' = RolledUp(s, gone)
  BY DEF Insert
<1>3. seq' = seq + 1 /\ written' = [written EXCEPT ![s] = written[s] + 1]
  BY DEF Insert
<1> HIDE DEF row
<1>4. /\ S \in SUBSET MetricRows /\ IsFiniteSet(S) /\ Cardinality(S) = Cardinality(kept) + 1
      /\ Cardinality(Of(s, S)) = Cardinality(Of(s, kept)) + 1
      /\ \A o \in Origins \ {s} : Of(o, S) = Of(o, kept)
  BY <1>0, <1>1, RowCame
<1> HIDE DEF S
<1>5. gone \in SUBSET Of(s, S) /\ (trims => Cardinality(Of(s, S \ gone)) <= MaxHistory)
  BY <1>2, <1>4, TrimLeaves
<1>6. /\ kept' \subseteq MetricRows /\ IsFiniteSet(kept') /\ seq' \in Nat
      /\ daily' \in [Origins -> Nat] /\ written' \in [Origins -> Nat] /\ WholeInv'
  BY <1>2, <1>3, <1>4, <1>5, WholeStays
<1>7. IdsInv'
  <2>1. kept' \subseteq kept \cup {row}
    BY <1>2 DEF S
  <2>2. \A r \in kept' : r.id \in 1..(seq + 1)
    BY <1>0, <1>1, <2>1 DEF MetricsInv, IdsInv
  <2>3. ASSUME NEW r \in kept', NEW q \in kept', r.id = q.id PROVE r = q
    BY <1>0, <1>1, <2>1, <2>3 DEF MetricsInv, IdsInv
  <2>4. QED
    BY <1>3, <2>2, <2>3 DEF IdsInv
<1>8. BucketInv'
  <2>1. CASE trims
    <3>1. /\ \A o \in Origins \ {s} : Of(o, kept') = Of(o, kept)
          /\ Cardinality(Of(s, kept')) <= MaxHistory
      <4> DEFINE K == S \ gone
      <4>1. Cardinality(Of(s, K)) <= MaxHistory /\ \A o \in Origins \ {s} : Of(o, K) = Of(o, kept)
        <5>1. \A o \in Origins \ {s} : Of(o, K) = Of(o, S)
          BY <1>4, <1>5, RowsGone
        <5>2. QED
          BY <1>4, <1>5, <2>1, <5>1
      <4>2. kept' = K
        BY <1>2
      <4> HIDE DEF K
      <4>3. QED
        BY <4>1, <4>2
    <3>2. QED
      BY <1>6, <3>1, TrimBounds
  <2>2. CASE ~trims
    <3>1. kept' = kept \cup {row}
      BY <1>2, <2>2 DEF S
    <3>2. QED
      BY <1>1, <2>2, <3>1, SameBucket
  <2>3. QED
    BY <2>1, <2>2
<1>9. OpenersInv'
  BY DEF MetricsInv, OpenersInv
<1>10. QED
  BY <1>0, <1>6, <1>7, <1>8, <1>9 DEF MetricsInv, MetricsTypes

LEMMA RecordStep ==
  ASSUME MetricsInv, NEW p \in Openers, NEW s \in Origins, Record(p, s) PROVE MetricsInv'
<1> DEFINE trims == Crosses(s, seq + 1)
<1>1. Insert(s, trims) /\ UNCHANGED <<schema, stamp, lost, opener>> /\ trims \in BOOLEAN
  BY DEF Record, Crosses
<1>2. trims \/ ~Crosses(s, seq + 1)
  OBVIOUS
<1> HIDE DEF trims
<1>3. QED
  BY <1>1, <1>2, InsertKeeps

LEMMA OldRecordStep ==
  ASSUME MetricsInv, NEW p \in OldBuilds, NEW s \in Origins, OldRecord(p, s) PROVE MetricsInv'
<1>1. Insert(s, TRUE) /\ UNCHANGED <<schema, stamp, lost, opener>>
  BY DEF OldRecord
<1>2. QED
  BY <1>1, InsertKeeps

(* What opening may do to the schema.                                      *)
SchemaGrows(from, to) ==
  /\ to \in [table : BOOLEAN, columns : SUBSET Columns, rollup : BOOLEAN]
  /\ (to.rollup <=> from.rollup) /\ (from.table => to.table) /\ from.columns \subseteq to.columns

(* Opening moves no row.                                                   *)
LEMMA OpeningStep ==
  ASSUME MetricsInv,
         (\E p \in Openers : Probe(p) \/ Create(p) \/ Inspect(p) \/ OpenStore(p) \/ \E c \in Columns : AddColumn(p, c))
           \/ (\E p \in OldBuilds : OldOpen(p)) \/ \E p \in Openers \cup OldBuilds : Close(p)
  PROVE  MetricsInv'
<1>0. /\ MetricsTypes /\ opener \in [Openers \cup OldBuilds -> OpenerStates]
      /\ schema \in [table : BOOLEAN, columns : SUBSET Columns, rollup : BOOLEAN]
      /\ \A p \in Openers : p \notin OldBuilds
  BY MetricsAssumption DEF MetricsInv, MetricsTypes
<1>1. UNCHANGED <<lost, kept, seq, daily, written>> /\ (stamp' = stamp \/ stamp' = "old")
  BY DEF Probe, Create, Inspect, OpenStore, AddColumn, OldOpen, Close
<1>2. SchemaGrows(schema, schema')
  <2>1. ASSUME NEW c \in Columns, schema' = [schema EXCEPT !.columns = schema.columns \cup {c}]
        PROVE  SchemaGrows(schema, schema')
    BY <1>0, <2>1 DEF SchemaGrows
  <2>2. ASSUME schema' = [schema EXCEPT !.table = TRUE] PROVE SchemaGrows(schema, schema')
    BY <1>0, <2>2 DEF SchemaGrows
  <2>3. ASSUME schema' = schema PROVE SchemaGrows(schema, schema')
    BY <1>0, <2>3 DEF SchemaGrows
  <2>4. \/ \E c \in Columns : schema' = [schema EXCEPT !.columns = schema.columns \cup {c}]
        \/ schema' = [schema EXCEPT !.table = TRUE] \/ schema' = schema
    BY DEF Probe, Create, Inspect, OpenStore, AddColumn, OldOpen, Close
  <2>5. QED
    BY <2>1, <2>2, <2>3, <2>4
<1>3. opener' \in [Openers \cup OldBuilds -> OpenerStates]
  BY <1>0 DEF Probe, Create, Inspect, OpenStore, AddColumn, OldOpen, Close, Continue, Closed, OpenerStates
<1>4. WholeInv' /\ IdsInv' /\ BucketInv'
  BY <1>1, <1>2 DEF SchemaGrows, MetricsInv, WholeInv, AllTime, Installed, IdsInv, BucketInv
<1>5. OpenersInv'
  <2>1. stamp' = "current" => schema'.table /\ schema'.rollup /\ Columns \subseteq schema'.columns
    BY <1>1, <1>2 DEF SchemaGrows, MetricsInv, OpenersInv
  <2>2. ASSUME NEW q \in Openers, opener'[q] = opener[q]
        PROVE  /\ opener'[q].at \in {"inspect", "migrate", "reconcile", "open"} => schema'.table
               /\ opener'[q].at = "migrate" => Columns \subseteq opener'[q].missing \cup schema'.columns
               /\ opener'[q].at \in {"reconcile", "open"} => Columns \subseteq schema'.columns
    BY <1>2, <2>2 DEF SchemaGrows, MetricsInv, OpenersInv
  <2>3. QED
    BY <1>0, <1>2, <2>1, <2>2
    DEF SchemaGrows, MetricsInv, OpenersInv, Probe, Create, Inspect, OpenStore, AddColumn, OldOpen, Close, Continue, Closed
<1>6. QED
  BY <1>0, <1>1, <1>2, <1>3, <1>4, <1>5 DEF SchemaGrows, MetricsInv, MetricsTypes

LEMMA InstallStep ==
  ASSUME MetricsInv, NEW p \in Openers, Install(p) PROVE MetricsInv'
<1>0. /\ MetricsTypes /\ opener \in [Openers \cup OldBuilds -> OpenerStates]
      /\ schema \in [table : BOOLEAN, columns : SUBSET Columns, rollup : BOOLEAN]
      /\ daily \in [Origins -> Nat] /\ seq \in Nat /\ Cardinality(kept) \in Nat
  BY FS_CardinalityType DEF MetricsInv, MetricsTypes
<1>1. UNCHANGED <<kept, seq, daily, written>> /\ opener' = [opener EXCEPT ![p] = [at |-> "reconcile"]]
  BY DEF Install, Continue
<1>2. /\ schema' \in [table : BOOLEAN, columns : SUBSET Columns, rollup : BOOLEAN]
      /\ schema'.rollup /\ (schema.table <=> schema'.table) /\ schema'.columns = schema.columns
  BY <1>0 DEF Install
<1>3. opener' \in [Openers \cup OldBuilds -> OpenerStates]
  BY <1>0, <1>1 DEF OpenerStates
<1>4. IdsInv' /\ BucketInv'
  BY <1>1 DEF MetricsInv, IdsInv, BucketInv
<1>5. WholeInv'
  <2>1. Total(written') = seq' /\ \A s \in Origins : Cardinality(Of(s, kept')) + daily'[s] <= written'[s]
    BY <1>1 DEF MetricsInv, WholeInv, AllTime
  <2>2. ASSUME lost' # Unmarked, lost' # Unknown
        PROVE  lost' \in Int /\ Cardinality(kept') + Total(daily') + lost' = seq'
    <3>1. CASE lost # Unmarked
      <4>1. lost' = lost /\ schema.rollup
        BY <3>1 DEF Install, MetricsInv, WholeInv
      <4>2. QED
        BY <1>1, <2>2, <4>1 DEF MetricsInv, WholeInv, Installed
    <3>2. CASE lost = Unmarked
      <4>1. lost' = seq - Cardinality(kept) /\ ~schema.rollup
        BY <2>2, <3>2 DEF Install, Loss
      <4>2. Total(daily) = 0
        BY <1>0, <4>1, TotalOfNone DEF MetricsInv, WholeInv
      <4>3. QED
        BY <1>0, <1>1, <4>1, <4>2
    <3>3. QED
      BY <3>1, <3>2
  <2>3. QED
    BY <1>2, <2>1, <2>2 DEF WholeInv, AllTime, Installed
<1>6. OpenersInv'
  <2>1. schema.table /\ Columns \subseteq schema.columns /\ opener[p].at = "migrate"
    BY DEF Install, MetricsInv, OpenersInv
  <2>2. \A q \in Openers : opener'[q] = IF q = p THEN [at |-> "reconcile"] ELSE opener[q]
    BY <1>0, <1>1
  <2>3. QED
    BY <1>2, <2>1, <2>2 DEF MetricsInv, OpenersInv
<1>7. QED
  BY <1>0, <1>1, <1>2, <1>3, <1>4, <1>5, <1>6 DEF MetricsInv, MetricsTypes

LEMMA MarkersStep ==
  ASSUME MetricsInv, LoseMarkers PROVE MetricsInv'
<1>1. UNCHANGED <<schema, kept, seq, daily, written, opener>> /\ stamp' = "none" /\ lost' = Unmarked
  BY DEF LoseMarkers
<1>2. WholeInv'
  BY <1>1 DEF MetricsInv, WholeInv, AllTime, Installed
<1>3. QED
  BY <1>1, <1>2 DEF MetricsInv, MetricsTypes, IdsInv, BucketInv, OpenersInv

LEMMA MetricsInvInit == MetricsInit => MetricsInv
<1> SUFFICES ASSUME MetricsInit PROVE MetricsInv
  OBVIOUS
<1> USE DEF MetricsInit
<1>1. IsFiniteSet(kept) /\ Cardinality(kept) = 0
  BY FS_EmptySet
<1>2. Total(written) = 0
  BY TotalOfNone
<1>3. MetricsTypes
  BY <1>1 DEF MetricsTypes, MetricRows, OpenerStates, Closed
<1>4. WholeInv
  <2>1. \A s \in Origins : Of(s, kept) = {}
    BY DEF Of
  <2>2. \A s \in Origins : Cardinality(Of(s, kept)) = 0
    BY <2>1, FS_EmptySet
  <2>3. QED
    BY <1>2, <2>2 DEF WholeInv, AllTime, Installed
<1>5. QED
  BY <1>3, <1>4 DEF MetricsInv, IdsInv, BucketInv, Of, OpenersInv, Closed

LEMMA MetricsInvStep == MetricsInv /\ [MetricsNext]_metricsVars => MetricsInv'
<1> SUFFICES ASSUME MetricsInv, [MetricsNext]_metricsVars PROVE MetricsInv'
  OBVIOUS
<1>1. CASE UNCHANGED metricsVars
  BY <1>1 DEF metricsVars, MetricsInv, MetricsTypes, IdsInv, WholeInv, AllTime, Installed, BucketInv, OpenersInv
<1>2. CASE MetricsNext
  BY <1>2, OpeningStep, InstallStep, ReconcileStep, RecordStep, OldRecordStep, MarkersStep DEF MetricsNext
<1>3. QED
  BY <1>1, <1>2

LEMMA RecordsAreSound == MetricsInv => MetricsAreSound
<1> SUFFICES ASSUME MetricsInv PROVE MetricsAreSound
  OBVIOUS
<1>1. HistoryIsWhole
  BY DEF HistoryIsWhole, MetricsInv, WholeInv
<1>2. ASSUME NEW s \in Origins PROVE Cardinality(Of(s, kept)) <= MaxHistory + TrimInterval - 1
  <2> DEFINE A == Of(s, kept)
  <2>1. A \subseteq kept /\ A \subseteq MetricRows /\ kept \subseteq MetricRows /\ IsFiniteSet(kept) /\ seq \in Nat
    BY DEF Of, MetricsInv, MetricsTypes
  <2>2. IsFiniteSet(A) /\ Cardinality(A) \in Nat
    BY <2>1, FS_Subset, FS_CardinalityType
  <2>3. MaxHistory \in Nat /\ TrimInterval \in Nat \ {0}
    BY MetricsAssumption
  <2>4. CASE A = {}
    BY <2>3, <2>4, FS_EmptySet
  <2>5. CASE A # {}
    <3>1. \A r \in A : r.id <= seq
      BY <2>1 DEF MetricsInv, IdsInv
    <3> HIDE DEF A
    <3>2. PICK top \in A : \A r \in A : r.id <= top.id
      BY <2>1, <2>5, <3>1, LastRow
    <3>3. Cardinality(A) < MaxHistory + Cardinality(Bucket(top, A))
      BY <3>2 DEF A, MetricsInv, BucketInv
    <3>4. \A r, q \in A : r.id = q.id => r = q
      BY <2>1 DEF MetricsInv, IdsInv
    <3>5. Cardinality(Bucket(top, A)) \in Nat /\ Cardinality(Bucket(top, A)) <= TrimInterval
      BY <2>1, <2>2, <3>4, BucketIsSmall
    <3>6. QED
      BY <2>2, <2>3, <3>3, <3>5 DEF A
  <2>6. QED
    BY <2>4, <2>5
<1>3. StampIsEarned
  BY DEF StampIsEarned, MetricsInv, OpenersInv
<1>4. QED
  BY <1>1, <1>2, <1>3 DEF MetricsAreSound, SourcesStayBounded

-----------------------------------------------------------------------------
(* The log: what was reported of a record is what its readers find.        *)

Pieces == [kind : {"newline", "whole", "torn"}, of : Nat]

Appending == {"full", "ready", "rotating", "open", "written", "unended", "torn"}

AppendStates == {NotAppending} \cup [at : Appending, record : Nat, fd : Nat]

LabelStates == {[at |-> "idle"]} \cup [at : {"asked", "append", "reported"}, target : Nat]

LogTypes ==
  /\ files \in Seq(Seq(Pieces)) /\ named \in [Slots -> 0..Len(files)]
  /\ locked \in Writers \cup {Labeller, Nobody}
  /\ append \in [Processes -> AppendStates]
  /\ status \in Seq({"none", "old", "written", "unconfirmed", "failed"})
  /\ label \in LabelStates

Has(content, piece) == \E i \in DOMAIN content : content[i] = piece

(* A line of its own in the file of a slot, the log or a backup.           *)
LineOf(content, slot, r) ==
  \E i \in DOMAIN content :
    /\ content[i] = Whole(r) /\ (i > 1 => content[i - 1] = NewLine)
    /\ IF i < Len(content) THEN content[i + 1] = NewLine ELSE slot # 0

RunOn(content, told, r) ==
  \E i \in DOMAIN content, o \in DOMAIN told :
    /\ content[i] = Whole(r) /\ (i > 1 => content[i - 1] = NewLine)
    /\ i < Len(content) /\ told[o] = "old" /\ content[i + 1] \in {Whole(o), Torn(o)}

PiecesFit(contents, told) ==
  \A f \in DOMAIN contents : \A i \in DOMAIN contents[f] :
    contents[f][i] = NewLine \/ \E r \in DOMAIN told : contents[f][i] \in {Whole(r), Torn(r)}

(* What holds of an append under way: nothing of its record is anywhere    *)
(* before its write, and after it only where it was written.               *)
AppendFits(p, a, contents, told) ==
  a.at # "idle" =>
    /\ a.record \in DOMAIN told /\ told[a.record] = IF p \in OldWriters THEN "old" ELSE "none"
    /\ a.at \in {"full", "rotating"} => p \in Writers
    /\ a.at = "rotating" => a.fd \in Slots
    /\ a.at \in {"open", "written", "unended", "torn"} => a.fd \in DOMAIN contents
    /\ a.at \in {"full", "ready", "rotating", "open"} =>
         \A f \in DOMAIN contents : ~Has(contents[f], Whole(a.record)) /\ ~Has(contents[f], Torn(a.record))
    /\ a.at = "torn" => \A f \in DOMAIN contents : ~Has(contents[f], Whole(a.record))
    /\ a.at \in {"written", "unended"} =>
         \A f \in DOMAIN contents : Has(contents[f], Whole(a.record)) => f = a.fd
    /\ a.at = "written" /\ p \notin OldWriters => LineOf(contents[a.fd], 0, a.record)

(* What was reported of a record stays true.                               *)
ToldFits(contents, told, names) ==
  \A r \in DOMAIN told :
    /\ told[r] = "written" => \E f \in DOMAIN contents : LineOf(contents[f], 0, r)
    /\ told[r] = "failed" => \A n \in Slots : names[n] # 0 => ~Has(contents[names[n]], Whole(r))

Found(contents, told, names, r) ==
  /\ r \in DOMAIN told
  /\ \E n \in Slots : /\ names[n] # 0
                      /\ \/ LineOf(contents[names[n]], n, r)
                         \/ RunOn(contents[names[n]], told, r)

ApartInv ==
  \A p, q \in Processes :
    append[p].at # "idle" /\ append[q].at # "idle" /\ append[p].record = append[q].record => p = q

LockInv ==
  /\ locked = Labeller <=> label.at \in {"append", "reported"}
  /\ append[Labeller].at # "idle" => label.at = "append"
  /\ \A p \in Processes : append[p].at = "rotating" => locked = p

LogInv ==
  /\ LogTypes /\ PiecesFit(files, status)
  /\ \A p \in Processes : AppendFits(p, append[p], files, status)
  /\ ApartInv /\ ToldFits(files, status, named) /\ LockInv
  /\ label.at = "append" => Found(files, status, named, label.target)

Statuses == {"none", "old", "written", "unconfirmed", "failed"}

LEMMA PieceFacts ==
  /\ \A r, q : /\ Whole(r) # NewLine /\ Torn(r) # NewLine /\ Whole(r) # Torn(q)
               /\ Whole(r) = Whole(q) => r = q
               /\ Torn(r) = Torn(q) => r = q
  /\ NewLine \in Pieces /\ \A r \in Nat : Whole(r) \in Pieces /\ Torn(r) \in Pieces
BY DEF Whole, Torn, NewLine, Pieces

LEMMA Joined ==
  ASSUME NEW c \in Seq(Pieces), NEW d \in Seq(Pieces)
  PROVE  /\ c \o d \in Seq(Pieces) /\ Len(c \o d) = Len(c) + Len(d)
         /\ Len(c) \in Nat /\ Len(d) \in Nat
         /\ DOMAIN c = 1..Len(c) /\ DOMAIN d = 1..Len(d) /\ DOMAIN (c \o d) = 1..(Len(c) + Len(d))
         /\ \A i \in 1..Len(c) : (c \o d)[i] = c[i]
         /\ \A i \in 1..Len(d) : (c \o d)[Len(c) + i] = d[i]
OBVIOUS

LEMMA HasJoined ==
  ASSUME NEW c \in Seq(Pieces), NEW d \in Seq(Pieces), NEW x
  PROVE  Has(c \o d, x) <=> Has(c, x) \/ Has(d, x)
<1> DEFINE e == c \o d
<1>1. /\ Len(c) \in Nat /\ Len(d) \in Nat
      /\ DOMAIN c = 1..Len(c) /\ DOMAIN d = 1..Len(d) /\ DOMAIN e = 1..(Len(c) + Len(d))
      /\ \A i \in 1..Len(c) : e[i] = c[i]
      /\ \A i \in 1..Len(d) : e[Len(c) + i] = d[i]
  BY Joined
<1> HIDE DEF e
<1>2. ASSUME Has(e, x) PROVE Has(c, x) \/ Has(d, x)
  <2>1. PICK i \in 1..(Len(c) + Len(d)) : e[i] = x
    BY <1>1, <1>2 DEF Has
  <2>2. CASE i <= Len(c)
    BY <1>1, <2>1, <2>2 DEF Has
  <2>3. CASE i > Len(c)
    <3>1. i - Len(c) \in 1..Len(d) /\ i = Len(c) + (i - Len(c))
      BY <1>1, <2>1, <2>3
    <3>2. d[i - Len(c)] = x
      BY <1>1, <2>1, <3>1
    <3>3. QED
      BY <1>1, <3>1, <3>2 DEF Has
  <2>4. QED
    BY <1>1, <2>1, <2>2, <2>3
<1>3. ASSUME Has(c, x) PROVE Has(e, x)
  BY <1>1, <1>3 DEF Has
<1>4. ASSUME Has(d, x) PROVE Has(e, x)
  <2>1. PICK i \in 1..Len(d) : d[i] = x
    BY <1>1, <1>4 DEF Has
  <2>2. Len(c) + i \in DOMAIN e /\ e[Len(c) + i] = x
    BY <1>1, <2>1
  <2>3. QED
    BY <2>2 DEF Has
<1>5. QED
  BY <1>2, <1>3, <1>4 DEF e

LEMMA LineStays ==
  ASSUME NEW c \in Seq(Pieces), NEW d \in Seq(Pieces), NEW r, LineOf(c, 0, r)
  PROVE  LineOf(c \o d, 0, r)
<1> DEFINE e == c \o d
<1>1. /\ Len(c) \in Nat /\ Len(d) \in Nat /\ Len(e) = Len(c) + Len(d)
      /\ DOMAIN c = 1..Len(c) /\ DOMAIN e = 1..(Len(c) + Len(d))
      /\ \A i \in 1..Len(c) : e[i] = c[i]
  BY Joined
<1> HIDE DEF e
<1>2. PICK i \in 1..Len(c) : /\ c[i] = Whole(r) /\ (i > 1 => c[i - 1] = NewLine)
                             /\ i < Len(c) /\ c[i + 1] = NewLine
  BY <1>1 DEF LineOf
<1>3. /\ i \in DOMAIN e /\ i < Len(e) /\ e[i] = c[i] /\ e[i + 1] = c[i + 1]
      /\ i > 1 => e[i - 1] = c[i - 1]
  BY <1>1, <1>2
<1>4. LineOf(e, 0, r)
  BY <1>2, <1>3 DEF LineOf
<1>5. QED
  BY <1>4 DEF e

(* A line of a named file is only spoiled by an older build's record.      *)
LEMMA LineOrRunOn ==
  ASSUME NEW c \in Seq(Pieces), NEW d \in Seq(Pieces), NEW told, NEW slot, NEW r, NEW o,
         Len(d) >= 1, d[1] = NewLine \/ (o \in DOMAIN told /\ told[o] = "old" /\ d[1] \in {Whole(o), Torn(o)}),
         LineOf(c, slot, r) \/ RunOn(c, told, r)
  PROVE  LineOf(c \o d, slot, r) \/ RunOn(c \o d, told, r)
<1> DEFINE e == c \o d
<1>1. /\ Len(c) \in Nat /\ Len(d) \in Nat /\ Len(e) = Len(c) + Len(d)
      /\ DOMAIN c = 1..Len(c) /\ DOMAIN e = 1..(Len(c) + Len(d))
      /\ \A i \in 1..Len(c) : e[i] = c[i]
      /\ e[Len(c) + 1] = d[1]
  BY Joined
<1> HIDE DEF e
<1>2. CASE LineOf(c, slot, r)
  <2>1. PICK i \in 1..Len(c) : /\ c[i] = Whole(r) /\ (i > 1 => c[i - 1] = NewLine)
                               /\ i < Len(c) => c[i + 1] = NewLine
    BY <1>1, <1>2 DEF LineOf
  <2>2. /\ i \in DOMAIN e /\ i < Len(e) /\ e[i] = c[i] /\ (i < Len(c) => e[i + 1] = c[i + 1])
        /\ i > 1 => e[i - 1] = c[i - 1]
        /\ i = Len(c) \/ i < Len(c)
        /\ i = Len(c) => e[i + 1] = d[1]
    <3>1. i \in DOMAIN e /\ i < Len(e) /\ e[i] = c[i] /\ (i = Len(c) \/ i < Len(c))
      <4>1. i \in Nat /\ i >= 1 /\ i <= Len(c) /\ Len(d) >= 1
        BY <1>1, <2>1
      <4>2. i < Len(e) /\ i \in 1..(Len(c) + Len(d))
        BY <1>1, <4>1
      <4>3. i = Len(c) \/ i < Len(c)
        <5> DEFINE n == Len(c)
        <5>1. n \in Nat /\ i \in Nat /\ i <= n
          BY <1>1, <4>1
        <5> HIDE DEF n
        <5>2. i = n \/ i < n
          BY <5>1
        <5>3. QED
          BY <5>2 DEF n
      <4>4. QED
        BY <1>1, <4>2, <4>3
    <3>2. (i < Len(c) => e[i + 1] = c[i + 1]) /\ (i > 1 => e[i - 1] = c[i - 1])
      BY <1>1, <2>1
    <3>3. i = Len(c) => e[i + 1] = d[1]
      BY <1>1, <2>1
    <3>4. QED
      BY <3>1, <3>2, <3>3
  <2>3. CASE i < Len(c) \/ d[1] = NewLine
    <3>1. e[i + 1] = NewLine
      BY <2>1, <2>2, <2>3
    <3>2. LineOf(e, slot, r)
      BY <2>1, <2>2, <3>1 DEF LineOf
    <3>3. QED
      BY <3>2 DEF e
  <2>4. CASE i = Len(c) /\ d[1] # NewLine
    <3>1. RunOn(e, told, r)
      BY <2>1, <2>2, <2>4 DEF RunOn
    <3>2. QED
      BY <3>1 DEF e
  <2>5. QED
    BY <2>2, <2>3, <2>4
<1>3. CASE RunOn(c, told, r)
  <2>1. PICK i \in 1..Len(c), x \in DOMAIN told :
          /\ c[i] = Whole(r) /\ (i > 1 => c[i - 1] = NewLine)
          /\ i < Len(c) /\ told[x] = "old" /\ c[i + 1] \in {Whole(x), Torn(x)}
    BY <1>1, <1>3 DEF RunOn
  <2>2. /\ i \in DOMAIN e /\ i < Len(e) /\ e[i] = c[i] /\ e[i + 1] = c[i + 1]
        /\ i > 1 => e[i - 1] = c[i - 1]
    BY <1>1, <2>1
  <2>3. RunOn(e, told, r)
    BY <2>1, <2>2 DEF RunOn
  <2>4. QED
    BY <2>3 DEF e
<1>4. QED
  BY <1>2, <1>3

(* A write to a file leaves what holds of every other record.              *)
LEMMA PutKeeps ==
  ASSUME LogInv, NEW p \in Processes, append[p].at # "idle",
         NEW f \in DOMAIN files, NEW d \in Seq(Pieces), Len(d) >= 1,
         NEW x, x = append[p].record, \A i \in DOMAIN d : d[i] \in {NewLine, Whole(x), Torn(x)},
         d[1] = NewLine \/ p \in OldWriters,
         NEW contents, DOMAIN contents = DOMAIN files, contents[f] = files[f] \o d,
         \A g \in DOMAIN files : g # f => contents[g] = files[g]
  PROVE  /\ \A g \in DOMAIN files : \A r : r # x => (Has(contents[g], Whole(r)) => Has(files[g], Whole(r)))
         /\ PiecesFit(contents, status)
         /\ \A q \in Processes \ {p} : AppendFits(q, append[q], contents, status)
         /\ ToldFits(contents, status, named)
         /\ label.at = "append" => Found(contents, status, named, label.target)
<1>0. /\ files \in Seq(Seq(Pieces)) /\ named \in [Slots -> 0..Len(files)] /\ Len(files) \in Nat
      /\ DOMAIN files = 1..Len(files) /\ files[f] \in Seq(Pieces) /\ \A g \in DOMAIN files : files[g] \in Seq(Pieces)
      /\ x \in DOMAIN status /\ status[x] = IF p \in OldWriters THEN "old" ELSE "none"
  <2>1. files \in Seq(Seq(Pieces)) /\ named \in [Slots -> 0..Len(files)] /\ Len(files) \in Nat
    BY DEF LogInv, LogTypes
  <2>2. AppendFits(p, append[p], files, status)
    BY DEF LogInv
  <2>3. x \in DOMAIN status /\ status[x] = IF p \in OldWriters THEN "old" ELSE "none"
    BY <2>2 DEF AppendFits
  <2>4. QED
    BY <2>1, <2>3
<1> DEFINE c == files[f]
           e == c \o d
<1>1. e \in Seq(Pieces)
  BY <1>0, Joined
<1>2. \A y : Has(e, y) <=> Has(c, y) \/ Has(d, y)
  BY <1>0, HasJoined
<1>3. \A r : r # x => ~Has(d, Whole(r)) /\ ~Has(d, Torn(r))
  BY PieceFacts DEF Has
<1>4. \A r : LineOf(c, 0, r) => LineOf(e, 0, r)
  BY <1>0, LineStays
<1>5. \A slot, r : LineOf(c, slot, r) \/ RunOn(c, status, r) =>
                                   LineOf(e, slot, r) \/ RunOn(e, status, r)
  <2>1. Len(d) >= 1 /\ 1 \in DOMAIN d
    OBVIOUS
  <2>2. d[1] \in {NewLine, Whole(x), Torn(x)}
    BY <2>1
  <2>3. d[1] = NewLine \/ (x \in DOMAIN status /\ status[x] = "old" /\ d[1] \in {Whole(x), Torn(x)})
    BY <1>0, <2>2
  <2>4. QED
    BY <1>0, <2>1, <2>3, LineOrRunOn
<1>6. \A i \in DOMAIN e : e[i] = NewLine \/ \E r \in DOMAIN status : e[i] \in {Whole(r), Torn(r)}
  <2> SUFFICES ASSUME NEW i \in DOMAIN e
               PROVE  e[i] = NewLine \/ \E r \in DOMAIN status : e[i] \in {Whole(r), Torn(r)}
    OBVIOUS
  <2>1. Has(c, e[i]) \/ Has(d, e[i])
    BY <1>2 DEF Has
  <2>2. CASE Has(c, e[i])
    BY <2>2 DEF Has, LogInv, PiecesFit
  <2>3. CASE Has(d, e[i])
    BY <1>0, <2>3 DEF Has
  <2>4. QED
    BY <2>1, <2>2, <2>3
<1> HIDE DEF e
<1>7. /\ DOMAIN contents = DOMAIN files
      /\ contents[f] = e /\ \A g \in DOMAIN files : g # f => contents[g] = files[g]
  BY DEF e
<1> HIDE DEF c
<1>8. \A g \in DOMAIN files : \A r : r # x /\ Has(contents[g], Whole(r)) => Has(files[g], Whole(r))
  BY <1>2, <1>3, <1>7 DEF c
<1>14. \A g \in DOMAIN files : \A r : r # x /\ Has(contents[g], Torn(r)) => Has(files[g], Torn(r))
  BY <1>2, <1>3, <1>7 DEF c
<1>15. \A g \in DOMAIN files : \A r : LineOf(files[g], 0, r) => LineOf(contents[g], 0, r)
  BY <1>4, <1>7 DEF c
<1>16. ASSUME NEW g \in DOMAIN files, NEW slot, NEW r,
              LineOf(files[g], slot, r) \/ RunOn(files[g], status, r)
       PROVE  LineOf(contents[g], slot, r) \/ RunOn(contents[g], status, r)
  <2>1. CASE g # f
    BY <1>7, <1>16, <2>1
  <2>2. CASE g = f
    BY <1>5, <1>7, <1>16, <2>2 DEF c
  <2>3. QED
    BY <2>1, <2>2
<1>9. PiecesFit(contents, status)
  BY <1>6, <1>7 DEF PiecesFit, LogInv
<1>10. ASSUME NEW q \in Processes \ {p} PROVE AppendFits(q, append[q], contents, status)
  <2>1. AppendFits(q, append[q], files, status)
    BY DEF LogInv
  <2>2. append[q].at # "idle" => append[q].record # x
    BY DEF LogInv, ApartInv
  <2> DEFINE a == append[q]
  <2> SUFFICES ASSUME a.at # "idle" PROVE AppendFits(q, a, contents, status)
    BY DEF AppendFits
  <2> HIDE DEF a
  <2>3. a.record # x /\ AppendFits(q, a, files, status)
    BY <2>1, <2>2 DEF a
  <2>4. \A g \in DOMAIN files : /\ Has(contents[g], Whole(a.record)) => Has(files[g], Whole(a.record))
                                /\ Has(contents[g], Torn(a.record)) => Has(files[g], Torn(a.record))
                                /\ LineOf(files[g], 0, a.record) => LineOf(contents[g], 0, a.record)
    BY <1>8, <1>14, <1>15, <2>3
  <2>5. DOMAIN contents = DOMAIN files
    BY <1>7
  <2>6. QED
    BY <2>3, <2>4, <2>5 DEF AppendFits
<1>11. ToldFits(contents, status, named)
  <2>1. \A r \in DOMAIN status : status[r] = "written" \/ status[r] = "failed" => r # x
    BY <1>0
  <2>2. \A n \in Slots : named[n] # 0 => named[n] \in DOMAIN files
    BY <1>0
  <2>3. ToldFits(files, status, named)
    BY DEF LogInv
  <2>4. ASSUME NEW r \in DOMAIN status, status[r] = "written"
        PROVE  \E g \in DOMAIN contents : LineOf(contents[g], 0, r)
    <3>1. PICK g \in DOMAIN files : LineOf(files[g], 0, r)
      BY <2>3, <2>4 DEF ToldFits
    <3>2. LineOf(contents[g], 0, r)
      BY <1>15, <3>1
    <3>3. QED
      BY <1>7, <3>2
  <2>5. ASSUME NEW r \in DOMAIN status, status[r] = "failed", NEW n \in Slots, named[n] # 0
        PROVE  ~Has(contents[named[n]], Whole(r))
    <3>1. ~Has(files[named[n]], Whole(r)) /\ r # x /\ named[n] \in DOMAIN files
      BY <2>1, <2>2, <2>3, <2>5 DEF ToldFits
    <3>2. QED
      BY <1>8, <3>1
  <2>6. QED
    BY <2>4, <2>5 DEF ToldFits
<1>12. label.at = "append" => Found(contents, status, named, label.target)
  <2>1. \A n \in Slots : named[n] # 0 => named[n] \in DOMAIN files
    BY <1>0
  <2>2. label.at = "append" => Found(files, status, named, label.target)
    BY DEF LogInv
  <2>4. SUFFICES ASSUME label.at = "append" PROVE Found(contents, status, named, label.target)
    OBVIOUS
  <2> DEFINE r == label.target
  <2>5. PICK n \in Slots : /\ named[n] # 0
                            /\ (LineOf(files[named[n]], n, r) \/ RunOn(files[named[n]], status, r))
    BY <2>2, <2>4 DEF Found
  <2>6. LineOf(contents[named[n]], n, r) \/ RunOn(contents[named[n]], status, r)
    <3>1. named[n] \in DOMAIN files
      BY <2>1, <2>5
    <3>2. QED
      BY <1>16, <2>5, <3>1
  <2>7. QED
    BY <2>2, <2>4, <2>5, <2>6 DEF Found
<1>13. QED
  BY <1>7, <1>8, <1>9, <1>10, <1>11, <1>12 DEF e, c

(* A report of a record leaves what holds of every other.                  *)
LEMMA ReportKeeps ==
  ASSUME LogInv, NEW p \in Processes, append[p].at # "idle", NEW x, x = append[p].record,
         NEW contents, PiecesFit(contents, status),
         \A q \in Processes \ {p} : AppendFits(q, append[q], contents, status),
         ToldFits(contents, status, named), NEW said \in Statuses,
         said = "written" => \E f \in DOMAIN contents : LineOf(contents[f], 0, x),
         said = "failed" => \A n \in Slots : named[n] # 0 => ~Has(contents[named[n]], Whole(x)),
         NEW told, told = [status EXCEPT ![x] = said]
  PROVE  /\ told \in Seq(Statuses) /\ DOMAIN told = DOMAIN status
         /\ PiecesFit(contents, told)
         /\ \A q \in Processes \ {p} : AppendFits(q, append[q], contents, told)
         /\ ToldFits(contents, told, named)
<1>0. x \in DOMAIN status /\ status \in Seq(Statuses)
  BY DEF LogInv, LogTypes, AppendFits, Statuses
<1>1. /\ told \in Seq(Statuses) /\ DOMAIN told = DOMAIN status
      /\ told[x] = said /\ \A r \in DOMAIN status : r # x => told[r] = status[r]
  BY <1>0
<1>2. PiecesFit(contents, told)
  BY <1>1 DEF PiecesFit
<1>3. ASSUME NEW q \in Processes \ {p} PROVE AppendFits(q, append[q], contents, told)
  <2>1. append[q].at # "idle" => append[q].record # x
    BY DEF LogInv, ApartInv
  <2>2. QED
    BY <1>1, <2>1 DEF AppendFits
<1>4. ToldFits(contents, told, named)
  BY <1>1 DEF ToldFits
<1>5. QED
  BY <1>1, <1>2, <1>3, <1>4

LEMMA MoveTyped ==
  ASSUME LogInv, NEW p \in Processes, append[p].at # "idle", NEW at \in Appending, NEW fd \in Nat
  PROVE  /\ GoTo(p, at, fd) => /\ append' \in [Processes -> AppendStates]
                               /\ \A q \in Processes \ {p} : append'[q] = append[q]
                               /\ append'[p].at = at /\ append'[p].fd = fd
                               /\ append'[p].record = append[p].record
         /\ Go(p, at) => /\ append' \in [Processes -> AppendStates]
                         /\ \A q \in Processes \ {p} : append'[q] = append[q]
                         /\ append'[p].at = at /\ append'[p].fd = append[p].fd
                         /\ append'[p].record = append[p].record
<1>1. append \in [Processes -> AppendStates] /\ append[p] \in [at : Appending, record : Nat, fd : Nat]
  BY DEF LogInv, LogTypes, AppendStates, NotAppending
<1>2. PICK row \in [at : Appending, record : Nat, fd : Nat] : row = append[p]
  BY <1>1
<1>3. ASSUME GoTo(p, at, fd)
      PROVE  /\ append' \in [Processes -> AppendStates]
             /\ \A q \in Processes \ {p} : append'[q] = append[q]
             /\ append'[p].at = at /\ append'[p].fd = fd /\ append'[p].record = append[p].record
  <2> DEFINE new == [row EXCEPT !.at = at, !.fd = fd]
  <2>1. append' = [append EXCEPT ![p] = new]
    BY <1>2, <1>3 DEF GoTo
  <2>2. /\ new \in [at : Appending, record : Nat, fd : Nat]
        /\ new.at = at /\ new.fd = fd /\ new.record = row.record
    OBVIOUS
  <2> HIDE DEF new
  <2>3. QED
    BY <1>1, <1>2, <2>1, <2>2 DEF AppendStates
<1>4. ASSUME Go(p, at)
      PROVE  /\ append' \in [Processes -> AppendStates]
             /\ \A q \in Processes \ {p} : append'[q] = append[q]
             /\ append'[p].at = at /\ append'[p].fd = append[p].fd /\ append'[p].record = append[p].record
  <2> DEFINE new == [row EXCEPT !.at = at]
  <2>1. append' = [append EXCEPT ![p] = new]
    BY <1>2, <1>4 DEF Go
  <2>2. /\ new \in [at : Appending, record : Nat, fd : Nat]
        /\ new.at = at /\ new.fd = row.fd /\ new.record = row.record
    OBVIOUS
  <2> HIDE DEF new
  <2>3. QED
    BY <1>1, <1>2, <2>1, <2>2 DEF AppendStates
<1>5. QED
  BY <1>3, <1>4

(* An append that moves on, its own part shown apart.                      *)
LEMMA AppendMoves ==
  ASSUME LogInv, NEW p \in Processes, append[p].at # "idle", append' \in [Processes -> AppendStates],
         \A q \in Processes \ {p} : append'[q] = append[q], append'[p].record = append[p].record
  PROVE  ApartInv'
BY DEF LogInv, ApartInv

LEMMA AppendBegins == ASSUME LogInv, NEW p \in Processes, Begin(p) PROVE LogInv'
<1> DEFINE x == Len(status) + 1
           s == IF p \in OldWriters THEN "old" ELSE "none"
           at == IF p \in Writers /\ named[0] # 0 /\ Len(files[named[0]]) >= Full THEN "full" ELSE "ready"
           new == [at |-> at, record |-> x, fd |-> 0]
<1>0. /\ LogTypes /\ status \in Seq(Statuses) /\ append \in [Processes -> AppendStates] /\ Len(status) \in Nat
      /\ DOMAIN status = 1..Len(status) /\ append[p].at = "idle"
  BY DEF LogInv, LogTypes, Begin, Statuses
<1>1. status' = Append(status, s) /\ append' = [append EXCEPT ![p] = new]
      /\ UNCHANGED <<files, named, locked, label>> /\ (p = Labeller => label.at = "append")
  BY DEF Begin
<1>2. /\ new \in [at : Appending, record : Nat, fd : Nat] /\ new.at \in {"full", "ready"} /\ new.record = x
      /\ new.at = "full" => p \in Writers
  BY <1>0 DEF Appending
<1>3. /\ s \in Statuses /\ status' \in Seq(Statuses) /\ Len(status') = Len(status) + 1
      /\ DOMAIN status' = DOMAIN status \cup {x} /\ x \notin DOMAIN status
      /\ \A r \in DOMAIN status : status'[r] = status[r]
      /\ status'[x] = s
  BY <1>0, <1>1 DEF Statuses
<1>4. append' \in [Processes -> AppendStates] /\ append'[p] = new
      /\ \A q \in Processes \ {p} : append'[q] = append[q]
  BY <1>0, <1>1, <1>2 DEF AppendStates
<1> HIDE DEF new, x, s
<1>5. PiecesFit(files', status')
  BY <1>1, <1>3 DEF LogInv, PiecesFit
<1>6. ASSUME NEW q \in Processes PROVE AppendFits(q, append'[q], files', status')
  <2>1. CASE q # p
    BY <1>1, <1>3, <1>4, <2>1 DEF LogInv, AppendFits
  <2>2. CASE q = p
    <3>1. \A f \in DOMAIN files : ~Has(files[f], Whole(x)) /\ ~Has(files[f], Torn(x))
      BY <1>3, PieceFacts DEF LogInv, PiecesFit, Has
    <3>2. QED
      BY <1>1, <1>2, <1>3, <1>4, <2>2, <3>1 DEF AppendFits, s
  <2>3. QED
    BY <2>1, <2>2
<1>7. ApartInv'
  <2>1. \A q \in Processes \ {p} : append[q].at # "idle" => append[q].record \in DOMAIN status
    BY DEF LogInv, AppendFits
  <2>2. QED
    BY <1>2, <1>3, <1>4, <2>1 DEF LogInv, ApartInv
<1>8. ToldFits(files', status', named')
  BY <1>1, <1>3 DEF LogInv, ToldFits, s
<1>9. LockInv'
  BY <1>1, <1>2, <1>4 DEF LogInv, LockInv
<1>10. label'.at = "append" => Found(files', status', named', label'.target)
  <2>1. \A c, r : RunOn(c, status, r) => RunOn(c, status', r)
    BY <1>3 DEF RunOn
  <2>2. QED
    BY <1>1, <1>3, <2>1 DEF LogInv, Found
<1>11. LogTypes'
  BY <1>0, <1>1, <1>3, <1>4 DEF LogTypes, Statuses
<1>12. QED
  BY <1>5, <1>6, <1>7, <1>8, <1>9, <1>10, <1>11 DEF LogInv

(* Nothing is written, named or reported.                                  *)
LEMMA QuietStep ==
  ASSUME LogInv, UNCHANGED <<files, named, status>>, LogTypes', LockInv',
         \A p \in Processes : AppendFits(p, append'[p], files, status),
         ApartInv', label'.at = "append" => Found(files, status, named, label'.target)
  PROVE  LogInv'
BY DEF LogInv

LEMMA RotatorHolds ==
  ASSUME LogInv
  PROVE  /\ Labeller \in Processes /\ Labeller # Nobody
         /\ \A p \in Processes : append[p].at = "rotating" =>
              locked = p /\ p \in Writers /\ p # Nobody /\ p # Labeller
<1>1. Labeller \in Processes /\ Labeller # Nobody
  BY LogAssumption DEF Processes
<1>2. ASSUME NEW p \in Processes, append[p].at = "rotating"
      PROVE  locked = p /\ p \in Writers /\ p # Nobody /\ p # Labeller
  <2>1. AppendFits(p, append[p], files, status) /\ locked = p
    BY <1>2 DEF LogInv, LockInv
  <2>2. QED
    BY <1>2, <2>1, LogAssumption DEF AppendFits
<1>3. QED
  BY <1>1, <1>2

LEMMA FullStep ==
  ASSUME LogInv, NEW p \in Processes, LockRotation(p) \/ DeferRotation(p) PROVE LogInv'
<1>0. LogTypes /\ append[p].at = "full" /\ p \in Writers /\ UNCHANGED <<files, named, status, label>>
      /\ AppendFits(p, append[p], files, status) /\ p # Labeller /\ p # Nobody
  BY LogAssumption DEF LogInv, AppendFits, LockRotation, DeferRotation
<1>1. CASE LockRotation(p)
  <2>1. locked' = p /\ GoTo(p, "rotating", Backups[p]) /\ locked = Nobody /\ Backups[p] \in Nat /\ Backups[p] \in Slots
    BY <1>0, <1>1, LogAssumption DEF LockRotation, MayRotate, Slots
  <2>2. /\ append' \in [Processes -> AppendStates] /\ \A q \in Processes \ {p} : append'[q] = append[q]
        /\ append'[p].at = "rotating" /\ append'[p].fd = Backups[p] /\ append'[p].record = append[p].record
    BY <1>0, <2>1, MoveTyped DEF Appending
  <2>3. ASSUME NEW q \in Processes PROVE AppendFits(q, append'[q], files, status)
    BY <1>0, <2>1, <2>2 DEF LogInv, AppendFits
  <2>4. LockInv'
    BY <1>0, <2>1, <2>2, RotatorHolds DEF LogInv, LockInv
  <2>5. LogTypes'
    BY <1>0, <2>1, <2>2 DEF LogTypes
  <2>6. ApartInv'
    BY <1>0, <2>2, AppendMoves
  <2>7. QED
    BY <1>0, <2>3, <2>4, <2>5, <2>6, QuietStep DEF LogInv
<1>2. CASE DeferRotation(p)
  <2>1. locked' = locked /\ Go(p, "ready")
    BY <1>2 DEF DeferRotation
  <2>2. /\ append' \in [Processes -> AppendStates] /\ \A q \in Processes \ {p} : append'[q] = append[q]
        /\ append'[p].at = "ready" /\ append'[p].record = append[p].record
    BY <1>0, <2>1, MoveTyped DEF Appending
  <2>3. ASSUME NEW q \in Processes PROVE AppendFits(q, append'[q], files, status)
    BY <1>0, <2>2 DEF LogInv, AppendFits
  <2>4. LockInv'
    BY <1>0, <2>1, <2>2, RotatorHolds DEF LogInv, LockInv
  <2>5. LogTypes'
    BY <1>0, <2>1, <2>2 DEF LogTypes
  <2>6. ApartInv'
    BY <1>0, <2>2, AppendMoves
  <2>7. QED
    BY <1>0, <2>3, <2>4, <2>5, <2>6, QuietStep DEF LogInv
<1>3. QED
  BY <1>1, <1>2

LEMMA AppenderGoes == ASSUME LogInv, NEW p \in Processes, AppenderDies(p) PROVE LogInv'
<1>0. LogTypes /\ UNCHANGED <<files, named, status>> /\ append' = [append EXCEPT ![p] = NotAppending]
      /\ locked' = (IF locked = p THEN Nobody ELSE locked)
      /\ label' = (IF p = Labeller THEN [at |-> "idle"] ELSE label) /\ append[p].at # "idle"
  BY DEF LogInv, AppenderDies
<1>1. append' \in [Processes -> AppendStates] /\ append'[p].at = "idle"
      /\ \A q \in Processes \ {p} : append'[q] = append[q]
  BY <1>0 DEF LogTypes, AppendStates, NotAppending
<1>2. ASSUME NEW q \in Processes PROVE AppendFits(q, append'[q], files, status)
  BY <1>1 DEF LogInv, AppendFits
<1>3. ApartInv'
  BY <1>1 DEF LogInv, ApartInv
<1>4. LockInv'
  <2>1. Labeller \in Processes /\ Labeller # Nobody
    BY LogAssumption DEF Processes
  <2>2. CASE p = Labeller
    BY <1>0, <1>1, <2>1, <2>2 DEF LogInv, LockInv
  <2>3. CASE p # Labeller
    BY <1>0, <1>1, <2>1, <2>3 DEF LogInv, LockInv
  <2>4. QED
    BY <2>2, <2>3
<1>5. LogTypes'
  BY <1>0, <1>1 DEF LogTypes, LabelStates
<1>6. label'.at = "append" => Found(files, status, named, label'.target)
  BY <1>0 DEF LogInv
<1>7. QED
  BY <1>0, <1>2, <1>3, <1>4, <1>5, <1>6, QuietStep

LEMMA LabelStep ==
  ASSUME LogInv, (\E r \in DOMAIN status : Resolve(r)) \/ Verify \/ GiveUp \/ Labelled PROVE LogInv'
<1>0. LogTypes /\ UNCHANGED <<files, named, status, append>> /\ Labeller # Nobody
  BY LogAssumption DEF LogInv, Resolve, Verify, GiveUp, Labelled
<1>1. ApartInv' /\ \A p \in Processes : AppendFits(p, append'[p], files, status)
  BY <1>0 DEF LogInv, ApartInv
<1>2. CASE \E r \in DOMAIN status : Resolve(r)
  <2>1. PICK r \in DOMAIN status : Resolve(r)
    BY <1>2
  <2>2. label' = [at |-> "asked", target |-> r] /\ label.at = "idle" /\ locked' = locked /\ r \in Nat
    BY <1>0, <2>1 DEF Resolve, LogTypes
  <2>3. label' \in LabelStates /\ label'.at = "asked"
    BY <2>2 DEF LabelStates
  <2>4. LogTypes'
    BY <1>0, <2>2, <2>3 DEF LogTypes
  <2>5. LockInv'
    BY <1>0, <2>2, <2>3 DEF LogInv, LockInv
  <2>6. QED
    BY <1>0, <1>1, <2>3, <2>4, <2>5, QuietStep
<1>3. CASE Verify
  <2>1. label.at = "asked" /\ locked = Nobody /\ label \in LabelStates
    BY <1>0, <1>3 DEF Verify, LogTypes
  <2>2. CASE StillThere
    <3>1. label' = [label EXCEPT !.at = "append"] /\ locked' = Labeller
      BY <1>3, <2>2 DEF Verify
    <3>2. label' \in LabelStates /\ label'.at = "append" /\ label'.target = label.target
      BY <2>1, <3>1 DEF LabelStates
    <3>3. Found(files, status, named, label.target)
      BY <2>2 DEF StillThere, Readable, Reads, Found, LineOf
    <3>4. LogTypes'
      BY <1>0, <3>1, <3>2 DEF LogTypes
    <3>5. LockInv'
      BY <1>0, <2>1, <3>1, <3>2, RotatorHolds DEF LogInv, LockInv
    <3>6. QED
      BY <1>0, <1>1, <3>2, <3>3, <3>4, <3>5, QuietStep
  <2>3. CASE ~StillThere
    <3>1. label' = [at |-> "idle"] /\ locked' = locked
      BY <1>3, <2>3 DEF Verify
    <3>2. LogTypes' /\ LockInv' /\ label'.at = "idle"
      BY <1>0, <2>1, <3>1 DEF LogInv, LockInv, LogTypes, LabelStates
    <3>3. QED
      BY <1>0, <1>1, <3>2, QuietStep
  <2>4. QED
    BY <2>2, <2>3
<1>4. CASE GiveUp
  <2>1. label' = [at |-> "idle"] /\ locked' = locked /\ label.at = "asked"
    BY <1>4 DEF GiveUp
  <2>2. LogTypes' /\ LockInv' /\ label'.at = "idle"
    BY <1>0, <2>1 DEF LogInv, LockInv, LogTypes, LabelStates
  <2>3. QED
    BY <1>0, <1>1, <2>2, QuietStep
<1>5. CASE Labelled
  <2>1. label' = [at |-> "idle"] /\ locked' = Nobody /\ label.at = "reported"
    BY <1>5 DEF Labelled
  <2>2. LogTypes' /\ label'.at = "idle"
    BY <1>0, <2>1 DEF LogTypes, LabelStates
  <2>3. LockInv'
    <3>1. locked = Labeller /\ \A p \in Processes : append[p].at = "rotating" => locked = p /\ p \in Writers
      BY <2>1 DEF LogInv, LockInv, AppendFits
    <3>2. \A p \in Processes : append[p].at # "rotating"
      BY <3>1, LogAssumption
    <3>3. QED
      BY <1>0, <2>1, <2>2, <3>2 DEF LogInv, LockInv
  <2>4. QED
    BY <1>0, <1>1, <2>2, <2>3, QuietStep
<1>6. QED
  BY <1>2, <1>3, <1>4, <1>5

(* A rotation gives no file a name that had none.                          *)
LEMMA RenameKeeps ==
  ASSUME LogInv, NEW p \in Processes, append[p].at = "rotating",
         named' \in [Slots -> 0..Len(files)],
         \A n \in Slots : named'[n] # 0 => \E m \in Slots : named'[n] = named[m],
         UNCHANGED <<files, status, label>>, LogTypes', ApartInv', LockInv',
         \A q \in Processes : AppendFits(q, append'[q], files, status)
  PROVE  LogInv'
<1>1. label.at # "append"
  BY RotatorHolds DEF LogInv, LockInv
<1>2. ToldFits(files, status, named')
  BY DEF LogInv, ToldFits
<1>3. QED
  BY <1>1, <1>2 DEF LogInv

LEMMA ShiftStep == ASSUME LogInv, NEW p \in Processes, ShiftBackup(p) PROVE LogInv'
<1> DEFINE i == append[p].fd - 1
<1>0. /\ LogTypes /\ append[p].at = "rotating" /\ AppendFits(p, append[p], files, status)
      /\ named \in [Slots -> 0..Len(files)] /\ UNCHANGED <<files, locked, status, label>>
  BY DEF LogInv, LogTypes, ShiftBackup
<1>1. i \in Slots /\ i + 1 \in Slots /\ i \in Nat /\ i \in 1..MaxBackups
  <2>1. append[p].fd \in 0..MaxBackups /\ append[p].fd > 1 /\ MaxBackups \in Nat
    BY <1>0, LogAssumption DEF AppendFits, ShiftBackup, Slots
  <2>2. QED
    BY <2>1 DEF Slots
<1>2. /\ named' = IF named[i] = 0 THEN named ELSE [named EXCEPT ![i + 1] = named[i], ![i] = 0]
      /\ GoTo(p, "rotating", i)
  BY DEF ShiftBackup
<1>3. /\ append' \in [Processes -> AppendStates] /\ \A q \in Processes \ {p} : append'[q] = append[q]
      /\ append'[p].at = "rotating" /\ append'[p].fd = i /\ append'[p].record = append[p].record
  BY <1>0, <1>1, <1>2, MoveTyped DEF Appending
<1> HIDE DEF i
<1>4. /\ named' \in [Slots -> 0..Len(files)]
      /\ \A n \in Slots : named'[n] # 0 => \E m \in Slots : named'[n] = named[m]
  <2>1. Len(files) \in Nat
    BY <1>0 DEF LogTypes
  <2>2. CASE named[i] = 0
    BY <1>0, <1>2, <2>2
  <2>3. CASE named[i] # 0
    <3>1. named' = [named EXCEPT ![i + 1] = named[i], ![i] = 0]
      BY <1>2, <2>3
    <3>2. \A n \in Slots : named'[n] = IF n = i THEN 0 ELSE IF n = i + 1 THEN named[i] ELSE named[n]
      BY <1>0, <1>1, <3>1
    <3>3. named' \in [Slots -> 0..Len(files)]
      BY <1>0, <1>1, <2>1, <3>1, <3>2
    <3>4. QED
      BY <1>1, <3>2, <3>3
  <2>4. QED
    BY <2>2, <2>3
<1>5. ASSUME NEW q \in Processes PROVE AppendFits(q, append'[q], files, status)
  BY <1>0, <1>1, <1>3 DEF LogInv, AppendFits
<1>6. LogTypes'
  BY <1>0, <1>3, <1>4 DEF LogTypes
<1>7. ApartInv'
  BY <1>0, <1>3, AppendMoves
<1>8. LockInv'
  BY <1>0, <1>3, RotatorHolds DEF LogInv, LockInv
<1>9. QED
  BY <1>0, <1>4, <1>5, <1>6, <1>7, <1>8, RenameKeeps

LEMMA MoveLogStep == ASSUME LogInv, NEW p \in Processes, MoveLog(p) PROVE LogInv'
<1>0. /\ LogTypes /\ append[p].at = "rotating" /\ AppendFits(p, append[p], files, status)
      /\ named \in [Slots -> 0..Len(files)] /\ UNCHANGED <<files, status, label>> /\ locked' = Nobody
      /\ GoTo(p, "ready", 0)
  BY DEF LogInv, LogTypes, MoveLog
<1>1. /\ append' \in [Processes -> AppendStates] /\ \A q \in Processes \ {p} : append'[q] = append[q]
      /\ append'[p].at = "ready" /\ append'[p].record = append[p].record
  BY <1>0, MoveTyped DEF Appending
<1>2. /\ named' \in [Slots -> 0..Len(files)]
      /\ \A n \in Slots : named'[n] # 0 => \E m \in Slots : named'[n] = named[m]
  <2>1. Len(files) \in Nat /\ 0 \in Slots
    BY <1>0, LogAssumption DEF LogTypes, Slots
  <2> DEFINE moved == IF append[p].fd = 1 THEN named[0] ELSE named[1]
  <2>2. named' = [named EXCEPT ![0] = 0, ![1] = moved]
    BY DEF MoveLog
  <2>3. \A n \in Slots : named'[n] = IF n = 1 THEN moved ELSE IF n = 0 THEN 0 ELSE named[n]
    BY <1>0, <2>2
  <2>4. named' \in [Slots -> 0..Len(files)]
    <3>1. \A n \in Slots : named'[n] \in 0..Len(files)
      <4>1. named[0] \in 0..Len(files) /\ 0 \in 0..Len(files) /\ (1 \in Slots => named[1] \in 0..Len(files))
        BY <1>0, <2>1
      <4>2. QED
        BY <1>0, <2>3, <4>1
    <3>2. \E g : named' = [n \in Slots |-> g[n]]
      <4>1. named' = [n \in Slots |-> named'[n]]
        BY <1>0, <2>2
      <4>2. QED
        BY <4>1
    <3>3. QED
      BY <3>1, <3>2
  <2>5. QED
    BY <2>1, <2>3, <2>4
<1>3. ASSUME NEW q \in Processes PROVE AppendFits(q, append'[q], files, status)
  BY <1>0, <1>1 DEF LogInv, AppendFits
<1>4. LogTypes'
  BY <1>0, <1>1, <1>2 DEF LogTypes
<1>5. ApartInv'
  BY <1>0, <1>1, AppendMoves
<1>6. LockInv'
  BY <1>0, <1>1, RotatorHolds DEF LogInv, LockInv
<1>7. QED
  BY <1>0, <1>2, <1>3, <1>4, <1>5, <1>6, RenameKeeps

LEMMA OpenLogStep == ASSUME LogInv, NEW p \in Processes, OpenLog(p) PROVE LogInv'
<1>0. /\ LogTypes /\ append[p].at = "ready" /\ AppendFits(p, append[p], files, status) /\ Len(files) \in Nat
      /\ named \in [Slots -> 0..Len(files)] /\ UNCHANGED <<locked, status, label>>
      /\ files \in Seq(Seq(Pieces)) /\ DOMAIN files = 1..Len(files) /\ 0 \in Slots
  BY LogAssumption DEF LogInv, LogTypes, OpenLog, Slots
<1>1. CASE named[0] # 0
  <2>1. UNCHANGED <<files, named>> /\ GoTo(p, "open", named[0]) /\ named[0] \in DOMAIN files /\ named[0] \in Nat
    BY <1>0, <1>1 DEF OpenLog
  <2>2. /\ append' \in [Processes -> AppendStates] /\ \A q \in Processes \ {p} : append'[q] = append[q]
        /\ append'[p].at = "open" /\ append'[p].fd = named[0] /\ append'[p].record = append[p].record
    BY <1>0, <2>1, MoveTyped DEF Appending
  <2>3. ASSUME NEW q \in Processes PROVE AppendFits(q, append'[q], files, status)
    <3>1. AppendFits(q, append[q], files, status)
      BY DEF LogInv
    <3>2. CASE q # p
      BY <2>2, <3>1, <3>2
    <3>3. CASE q = p
      BY <1>0, <2>1, <2>2, <3>3 DEF AppendFits
    <3>4. QED
      BY <3>2, <3>3
  <2>4. LockInv'
    BY <1>0, <2>2, RotatorHolds DEF LogInv, LockInv
  <2>5. LogTypes'
    BY <1>0, <2>1, <2>2 DEF LogTypes
  <2>6. ApartInv'
    BY <1>0, <2>2, AppendMoves
  <2>7. QED
    BY <1>0, <2>1, <2>3, <2>4, <2>5, <2>6, QuietStep DEF LogInv
<1>2. CASE named[0] = 0
  <2> DEFINE new == Len(files) + 1
  <2>1. /\ files' = Append(files, <<>>) /\ named' = [named EXCEPT ![0] = new] /\ GoTo(p, "open", new)
        /\ new \in Nat
    BY <1>0, <1>2 DEF OpenLog
  <2>2. /\ append' \in [Processes -> AppendStates] /\ \A q \in Processes \ {p} : append'[q] = append[q]
        /\ append'[p].at = "open" /\ append'[p].fd = new /\ append'[p].record = append[p].record
    BY <1>0, <2>1, MoveTyped DEF Appending
  <2>3. /\ files' \in Seq(Seq(Pieces)) /\ Len(files') = new /\ DOMAIN files' = DOMAIN files \cup {new}
        /\ files'[new] = <<>> /\ \A f \in DOMAIN files : files'[f] = files[f]
    BY <1>0, <2>1
  <2>4. /\ named' \in [Slots -> 0..Len(files')] /\ named'[0] = new
        /\ \A n \in Slots : n # 0 => named'[n] = named[n]
        /\ \A n \in Slots : named[n] # 0 => named[n] \in DOMAIN files
    BY <1>0, <2>1, <2>3
  <2> HIDE DEF new
  <2>5. \A y : ~Has(<<>>, y)
    BY DEF Has
  <2>6. PiecesFit(files', status)
    BY <2>3 DEF LogInv, PiecesFit
  <2>7. ASSUME NEW q \in Processes PROVE AppendFits(q, append'[q], files', status)
    <3>1. CASE q # p
      BY <2>2, <2>3, <2>5, <3>1 DEF LogInv, AppendFits
    <3>2. CASE q = p
      BY <1>0, <2>2, <2>3, <2>5, <3>2 DEF AppendFits
    <3>3. QED
      BY <3>1, <3>2
  <2>8. ToldFits(files', status, named')
    <3>1. ToldFits(files, status, named)
      BY DEF LogInv
    <3>2. QED
      BY <2>3, <2>4, <2>5, <3>1 DEF ToldFits
  <2>9. label.at = "append" => Found(files', status, named', label.target)
    <3>1. label.at = "append" => Found(files, status, named, label.target)
      BY DEF LogInv
    <3>2. QED
      BY <1>2, <2>3, <2>4, <3>1 DEF Found
  <2>10. LockInv'
    BY <1>0, <2>2, RotatorHolds DEF LogInv, LockInv
  <2>11. LogTypes'
    BY <1>0, <2>2, <2>3, <2>4 DEF LogTypes
  <2>12. ApartInv'
    BY <1>0, <2>2, AppendMoves
  <2>13. QED
    BY <1>0, <2>6, <2>7, <2>8, <2>9, <2>10, <2>11, <2>12 DEF LogInv
<1>3. QED
  BY <1>1, <1>2

(* A write of an append's own record, whole, unended or torn.              *)
LEMMA WriteStep ==
  ASSUME LogInv, NEW p \in Processes, Write(p) \/ WriteUnended(p) \/ WriteShort(p) PROVE LogInv'
<1> DEFINE a == append[p]
           f == a.fd
           x == a.record
           head == Framed(p)
           tail == IF Write(p) THEN <<Whole(x), NewLine>> ELSE IF WriteUnended(p) THEN <<Whole(x)>> ELSE <<Torn(x)>>
           at == IF Write(p) THEN "written" ELSE IF WriteUnended(p) THEN "unended" ELSE "torn"
           d == head \o tail
<1>0. /\ LogTypes /\ a.at = "open" /\ AppendFits(p, a, files, status) /\ UNCHANGED <<named, locked, status, label>>
      /\ a \in [at : Appending, record : Nat, fd : Nat]
      /\ files \in Seq(Seq(Pieces)) /\ f \in DOMAIN files /\ files[f] \in Seq(Pieces) /\ x \in Nat
  <2>1. LogTypes /\ a.at = "open" /\ AppendFits(p, a, files, status) /\ UNCHANGED <<named, locked, status, label>>
    BY DEF LogInv, Write, WriteUnended, WriteShort
  <2>2. a \in [at : Appending, record : Nat, fd : Nat]
    BY <2>1 DEF LogTypes, AppendStates, NotAppending
  <2>3. f \in DOMAIN files /\ files \in Seq(Seq(Pieces))
    BY <2>1 DEF AppendFits, LogTypes
  <2>4. QED
    BY <2>1, <2>2, <2>3
<1>1. files' = [files EXCEPT ![f] = files[f] \o d] /\ Go(p, at) /\ at \in Appending
  <2>1. CASE Write(p)
    BY <2>1 DEF Write, Put, Appending
  <2>2. CASE ~Write(p) /\ WriteUnended(p)
    BY <2>2 DEF WriteUnended, Put, Appending
  <2>3. CASE ~Write(p) /\ ~WriteUnended(p) /\ WriteShort(p)
    BY <2>3 DEF WriteShort, Put, Appending
  <2>4. QED
    BY <2>1, <2>2, <2>3
<1>2. /\ append' \in [Processes -> AppendStates] /\ \A q \in Processes \ {p} : append'[q] = append[q]
      /\ append'[p].at = at /\ append'[p].fd = f /\ append'[p].record = x
  BY <1>0, <1>1, MoveTyped
<1>3. head = (IF p \in OldWriters THEN <<>> ELSE <<NewLine>>)
  BY DEF Framed
<1>4. /\ at \in {"written", "unended", "torn"}
      /\ at = "written" => tail = <<Whole(x), NewLine>>
      /\ at = "unended" => tail = <<Whole(x)>>
      /\ at = "torn" => tail = <<Torn(x)>>
  OBVIOUS
<1> HIDE DEF at, tail, head, d
<1>5. Whole(x) \in Pieces /\ Torn(x) \in Pieces /\ NewLine \in Pieces
  BY <1>0, PieceFacts
<1>6. /\ d \in Seq(Pieces) /\ Len(d) >= 1 /\ \A i \in DOMAIN d : d[i] \in {NewLine, Whole(x), Torn(x)}
      /\ d[1] = NewLine \/ p \in OldWriters
      /\ at = "torn" => \A i \in DOMAIN d : d[i] # Whole(x)
      /\ at = "written" /\ p \notin OldWriters =>
           Len(d) = 3 /\ d[1] = NewLine /\ d[2] = Whole(x) /\ d[3] = NewLine
  <2>1. /\ head \in Seq(Pieces) /\ DOMAIN head = 1..Len(head) /\ \A i \in DOMAIN head : head[i] = NewLine
        /\ p \in OldWriters => Len(head) = 0
        /\ p \notin OldWriters => Len(head) = 1
    <3>1. CASE p \in OldWriters
      <4>1. head = <<>>
        BY <1>3, <3>1
      <4>2. QED
        BY <3>1, <4>1
    <3>2. CASE p \notin OldWriters
      <4>1. head = <<NewLine>>
        BY <1>3, <3>2
      <4>2. QED
        BY <1>5, <3>2, <4>1
    <3>3. QED
      BY <3>1, <3>2
  <2>2. /\ tail \in Seq(Pieces) /\ DOMAIN tail = 1..Len(tail) /\ Len(tail) \in {1, 2}
        /\ \A i \in DOMAIN tail : tail[i] \in {NewLine, Whole(x), Torn(x)}
        /\ at = "written" => Len(tail) = 2 /\ tail[1] = Whole(x) /\ tail[2] = NewLine
        /\ at = "torn" => \A i \in DOMAIN tail : tail[i] # Whole(x)
    <3>1. CASE at = "written"
      <4>1. tail = <<Whole(x), NewLine>>
        BY <1>4, <3>1
      <4>2. QED
        BY <1>5, <3>1, <4>1
    <3>2. CASE at = "unended"
      <4>1. tail = <<Whole(x)>>
        BY <1>4, <3>2
      <4>2. QED
        BY <1>5, <3>2, <4>1
    <3>3. CASE at = "torn"
      <4>1. tail = <<Torn(x)>> /\ Torn(x) # Whole(x)
        BY <1>4, <3>3, PieceFacts
      <4>2. QED
        BY <1>5, <3>3, <4>1
    <3>4. QED
      BY <1>4, <3>1, <3>2, <3>3
  <2>3. /\ d \in Seq(Pieces) /\ Len(d) = Len(head) + Len(tail) /\ DOMAIN d = 1..(Len(head) + Len(tail))
        /\ Len(head) \in Nat
        /\ \A i \in 1..Len(head) : d[i] = head[i]
        /\ \A i \in 1..Len(tail) : d[Len(head) + i] = tail[i]
    BY <2>1, <2>2, Joined DEF d
  <2>4. \A i \in DOMAIN d : \/ i \in DOMAIN head /\ d[i] = head[i]
                            \/ i - Len(head) \in DOMAIN tail /\ d[i] = tail[i - Len(head)]
    <3> SUFFICES ASSUME NEW i \in DOMAIN d
                 PROVE  \/ i \in DOMAIN head /\ d[i] = head[i]
                        \/ i - Len(head) \in DOMAIN tail /\ d[i] = tail[i - Len(head)]
      OBVIOUS
    <3>1. CASE i <= Len(head)
      BY <2>1, <2>3, <3>1
    <3>2. CASE i > Len(head)
      <4>1. i - Len(head) \in 1..Len(tail) /\ Len(head) + (i - Len(head)) = i
        BY <2>2, <2>3, <3>2
      <4>2. QED
        BY <2>2, <2>3, <4>1
    <3>3. QED
      BY <2>3, <3>1, <3>2
  <2>5. \A i \in DOMAIN d : d[i] \in {NewLine, Whole(x), Torn(x)}
    BY <2>1, <2>2, <2>4
  <2>6. d[1] = NewLine \/ p \in OldWriters
    BY <2>1, <2>3
  <2>7. at = "torn" => \A i \in DOMAIN d : d[i] # Whole(x)
    BY <2>1, <2>2, <2>4, PieceFacts
  <2>8. at = "written" /\ p \notin OldWriters =>
          Len(d) = 3 /\ d[1] = NewLine /\ d[2] = Whole(x) /\ d[3] = NewLine
    BY <2>1, <2>2, <2>3
  <2>9. QED
    BY <2>2, <2>3, <2>5, <2>6, <2>7, <2>8
<1>7. /\ files' \in Seq(Seq(Pieces)) /\ Len(files') = Len(files) /\ DOMAIN files' = DOMAIN files
      /\ files'[f] = files[f] \o d
      /\ PiecesFit(files', status)
      /\ \A q \in Processes \ {p} : AppendFits(q, append[q], files', status)
      /\ ToldFits(files', status, named)
      /\ label.at = "append" => Found(files', status, named, label.target)
  <2>1. append[p].at # "idle" /\ x = append[p].record
    BY <1>0
  <2>2. files[f] \o d \in Seq(Pieces)
    BY <1>0, <1>6, Joined
  <2>3. /\ files' \in Seq(Seq(Pieces)) /\ Len(files') = Len(files) /\ DOMAIN files' = DOMAIN files
        /\ files'[f] = files[f] \o d /\ \A g \in DOMAIN files : g # f => files'[g] = files[g]
    BY <1>0, <1>1, <2>2
  <2>4. /\ d \in Seq(Pieces) /\ Len(d) >= 1 /\ \A i \in DOMAIN d : d[i] \in {NewLine, Whole(x), Torn(x)}
        /\ d[1] = NewLine \/ p \in OldWriters
    BY <1>6
  <2>5. f \in DOMAIN files
    BY <1>0
  <2> HIDE DEF x, f
  <2>6. /\ PiecesFit(files', status)
        /\ \A q \in Processes \ {p} : AppendFits(q, append[q], files', status)
        /\ ToldFits(files', status, named)
        /\ label.at = "append" => Found(files', status, named, label.target)
    BY <2>1, <2>3, <2>4, <2>5, PutKeeps
  <2>7. QED
    BY <2>3, <2>6
<1>8. AppendFits(p, append'[p], files', status)
  <2>1. /\ x \in DOMAIN status /\ status[x] = IF p \in OldWriters THEN "old" ELSE "none"
        /\ \A g \in DOMAIN files : ~Has(files[g], Whole(x))
    BY <1>0 DEF AppendFits
  <2>2. \A g \in DOMAIN files : g # f => files'[g] = files[g]
    BY <1>0, <1>1
  <2>3. at = "torn" => ~Has(files'[f], Whole(x))
    <3>1. ~Has(files[f], Whole(x))
      BY <1>0, <2>1
    <3>2. at = "torn" => ~Has(d, Whole(x))
      BY <1>6 DEF Has
    <3>3. Has(files[f] \o d, Whole(x)) <=> Has(files[f], Whole(x)) \/ Has(d, Whole(x))
      BY <1>0, <1>6, HasJoined
    <3>4. QED
      BY <1>7, <3>1, <3>2, <3>3
  <2>4. at = "written" /\ p \notin OldWriters => LineOf(files'[f], 0, x)
    <3> SUFFICES ASSUME at = "written", p \notin OldWriters PROVE LineOf(files'[f], 0, x)
      OBVIOUS
    <3> DEFINE c == files[f]
               e == c \o d
               n == Len(c)
    <3>1. Len(d) = 3 /\ d[1] = NewLine /\ d[2] = Whole(x) /\ d[3] = NewLine
      BY <1>6
    <3>2. /\ Len(e) = n + 3 /\ n \in Nat /\ DOMAIN e = 1..(n + 3)
          /\ \A i \in 1..3 : e[n + i] = d[i]
      <4>1. c \in Seq(Pieces) /\ d \in Seq(Pieces)
        BY <1>0, <1>6
      <4> HIDE DEF c
      <4>2. /\ Len(e) = n + Len(d) /\ n \in Nat /\ DOMAIN e = 1..(n + Len(d))
            /\ \A i \in 1..Len(d) : e[n + i] = d[i]
        BY <4>1, Joined
      <4> HIDE DEF e, n
      <4>3. QED
        BY <3>1, <4>2
    <3> HIDE DEF c, e
    <3>3. e[n + 1] = NewLine /\ e[n + 2] = Whole(x) /\ e[n + 3] = NewLine
      BY <3>1, <3>2
    <3>4. n + 2 \in DOMAIN e /\ n + 2 < Len(e) /\ (n + 2) - 1 = n + 1 /\ (n + 2) + 1 = n + 3
      BY <3>2
    <3>5. LineOf(e, 0, x)
      BY <3>3, <3>4 DEF LineOf
    <3>6. QED
      BY <1>7, <3>5 DEF e, c
  <2>5. QED
    BY <1>0, <1>2, <1>4, <1>7, <2>1, <2>2, <2>3, <2>4 DEF AppendFits
<1>9. \A q \in Processes : AppendFits(q, append'[q], files', status)
  BY <1>2, <1>7, <1>8
<1>10. LockInv'
  BY <1>0, <1>2, <1>4, RotatorHolds DEF LogInv, LockInv
<1>11. LogTypes'
  BY <1>0, <1>2, <1>7 DEF LogTypes
<1>12. ApartInv'
  BY <1>0, <1>2, AppendMoves
<1>13. QED
  BY <1>0, <1>7, <1>9, <1>10, <1>11, <1>12 DEF LogInv

(* An append ends with its report.                                         *)
LEMMA ReportEnds ==
  ASSUME LogInv, NEW p \in Processes, append[p].at # "idle", NEW said \in Statuses, Report(p, said),
         files' \in Seq(Seq(Pieces)), Len(files') = Len(files), UNCHANGED named,
         locked' = locked \/ (locked = p /\ p \in Writers /\ locked' = Nobody),
         PiecesFit(files', status),
         \A q \in Processes \ {p} : AppendFits(q, append[q], files', status),
         ToldFits(files', status, named),
         label.at = "append" => Found(files', status, named, label.target),
         said = "written" => \E f \in DOMAIN files' : LineOf(files'[f], 0, append[p].record),
         said = "failed" => \A n \in Slots : named[n] # 0 => ~Has(files'[named[n]], Whole(append[p].record)),
         p \in OldWriters => said = "old" \/ \A f \in DOMAIN files' : /\ ~Has(files'[f], Whole(append[p].record))
                                                                     /\ ~Has(files'[f], Torn(append[p].record))
  PROVE  LogInv'
<1> DEFINE x == append[p].record
<1>0. /\ LogTypes /\ status' = [status EXCEPT ![x] = said] /\ append' = [append EXCEPT ![p] = NotAppending]
      /\ label' = IF p = Labeller THEN [label EXCEPT !.at = "reported"] ELSE label
      /\ status \in Seq(Statuses)
  BY DEF LogInv, LogTypes, Report, Statuses
<1>1. /\ append' \in [Processes -> AppendStates] /\ append'[p].at = "idle"
      /\ \A q \in Processes \ {p} : append'[q] = append[q]
  BY <1>0 DEF LogTypes, AppendStates, NotAppending
<1>2. /\ status' \in Seq(Statuses) /\ DOMAIN status' = DOMAIN status
      /\ PiecesFit(files', status')
      /\ \A q \in Processes \ {p} : AppendFits(q, append[q], files', status')
      /\ ToldFits(files', status', named)
  BY <1>0, ReportKeeps
<1>3. \A q \in Processes : AppendFits(q, append'[q], files', status')
  <2>1. AppendFits(p, append'[p], files', status')
    BY <1>1 DEF AppendFits
  <2>2. QED
    BY <1>1, <1>2, <2>1
<1>4. ApartInv'
  BY <1>1 DEF LogInv, ApartInv
<1>5. p = Labeller => label.at = "append" /\ label'.at = "reported" /\ label' \in LabelStates /\ p \notin Writers
  <2> SUFFICES ASSUME p = Labeller
               PROVE  label.at = "append" /\ label'.at = "reported" /\ label' \in LabelStates /\ p \notin Writers
    OBVIOUS
  <2>1. label.at = "append" /\ p \notin Writers
    BY LogAssumption DEF LogInv, LockInv
  <2>2. label \in [at : {"asked", "append", "reported"}, target : Nat]
    BY <1>0, <2>1 DEF LogTypes, LabelStates
  <2>3. label' = [label EXCEPT !.at = "reported"]
    BY <1>0
  <2>4. QED
    BY <2>1, <2>2, <2>3 DEF LabelStates
<1>6. LockInv'
  <2>1. CASE p = Labeller
    BY <1>0, <1>1, <1>5, <2>1, RotatorHolds DEF LogInv, LockInv
  <2>2. CASE p # Labeller /\ locked' = locked
    BY <1>0, <1>1, <2>2, RotatorHolds DEF LogInv, LockInv
  <2>3. CASE p # Labeller /\ locked = p /\ locked' = Nobody
    <3>1. label' = label /\ locked # Labeller /\ locked' # Labeller
      BY <1>0, <2>3, RotatorHolds
    <3>2. \A q \in Processes : append'[q].at # "rotating"
      BY <1>1, <2>3, RotatorHolds
    <3>3. append'[Labeller] = append[Labeller]
      BY <1>1, <2>3, RotatorHolds
    <3>4. QED
      BY <3>1, <3>2, <3>3 DEF LogInv, LockInv
  <2>4. QED
    BY <1>5, <2>1, <2>2, <2>3
<1>7. LogTypes'
  BY <1>0, <1>1, <1>2, <1>5 DEF LogTypes, Statuses
<1>8. label'.at = "append" => Found(files', status', named', label'.target)
  <2> SUFFICES ASSUME label'.at = "append" PROVE Found(files', status', named', label'.target)
    OBVIOUS
  <2>1. p # Labeller /\ label' = label /\ Found(files', status, named, label.target)
    BY <1>0, <1>5
  <2> DEFINE r == label.target
  <2>2. PICK n \in Slots : /\ named[n] # 0
                           /\ (LineOf(files'[named[n]], n, r) \/ RunOn(files'[named[n]], status, r))
    BY <2>1 DEF Found
  <2>3. r \in DOMAIN status'
    BY <1>2, <2>1 DEF Found
  <2>4. CASE LineOf(files'[named[n]], n, r)
    BY <2>1, <2>2, <2>3, <2>4 DEF Found
  <2>5. CASE RunOn(files'[named[n]], status, r)
    <3> DEFINE c == files'[named[n]]
    <3>1. named[n] \in DOMAIN files'
      <4>1. named[n] \in 0..Len(files) /\ Len(files) \in Nat
        BY <1>0 DEF LogTypes
      <4>2. QED
        BY <2>2, <4>1
    <3> HIDE DEF c
    <3>2. PICK i \in DOMAIN c, o \in DOMAIN status :
            /\ c[i] = Whole(r) /\ (i > 1 => c[i - 1] = NewLine)
            /\ i < Len(c) /\ status[o] = "old" /\ c[i + 1] \in {Whole(o), Torn(o)}
      BY <2>5 DEF RunOn, c
    <3>3. status'[o] = "old"
      <4>1. CASE o # x
        BY <1>0, <3>2, <4>1
      <4>2. CASE o = x
        <5>1. AppendFits(p, append[p], files, status)
          BY DEF LogInv
        <5>2. p \in OldWriters
          BY <3>2, <4>2, <5>1 DEF AppendFits
        <5>3. i + 1 \in DOMAIN c
          <6>1. c \in Seq(Pieces)
            BY <3>1 DEF c
          <6>2. QED
            BY <3>2, <6>1
        <5>4. Has(c, Whole(x)) \/ Has(c, Torn(x))
          BY <3>2, <4>2, <5>3 DEF Has
        <5>5. said = "old"
          BY <3>1, <5>2, <5>4 DEF c
        <5>6. QED
          BY <1>0, <4>2, <5>5
      <4>3. QED
        BY <4>1, <4>2
    <3>4. RunOn(c, status', r)
      BY <1>2, <3>2, <3>3 DEF RunOn
    <3>5. QED
      BY <2>1, <2>2, <2>3, <3>4 DEF Found, c
  <2>6. QED
    BY <2>2, <2>4, <2>5
<1>9. QED
  BY <1>2, <1>3, <1>4, <1>6, <1>7, <1>8 DEF LogInv

(* A report that writes nothing.                                           *)
LEMMA PlainReport ==
  ASSUME LogInv, NEW p \in Processes, append[p].at # "idle", NEW said \in Statuses, Report(p, said),
         UNCHANGED <<files, named>>, locked' = locked \/ (locked = p /\ p \in Writers /\ locked' = Nobody),
         said = "written" => LineOf(files[append[p].fd], 0, append[p].record) /\ append[p].fd \in DOMAIN files,
         said = "failed" => \A n \in Slots : named[n] # 0 => ~Has(files[named[n]], Whole(append[p].record)),
         p \in OldWriters => said = "old" \/ append[p].at \in {"full", "ready", "rotating", "open"}
  PROVE  LogInv'
<1>1. /\ files' \in Seq(Seq(Pieces)) /\ Len(files') = Len(files)
      /\ PiecesFit(files', status)
      /\ \A q \in Processes \ {p} : AppendFits(q, append[q], files', status)
      /\ ToldFits(files', status, named)
      /\ label.at = "append" => Found(files', status, named, label.target)
  BY DEF LogInv, LogTypes
<1>2. said = "written" => \E f \in DOMAIN files' : LineOf(files'[f], 0, append[p].record)
  OBVIOUS
<1>3. p \in OldWriters => said = "old" \/ \A f \in DOMAIN files' : /\ ~Has(files'[f], Whole(append[p].record))
                                                                   /\ ~Has(files'[f], Torn(append[p].record))
  BY DEF LogInv, AppendFits
<1>4. QED
  BY <1>1, <1>2, <1>3, ReportEnds

LEMMA UnwrittenIsNowhere ==
  ASSUME LogInv, NEW p \in Processes, append[p].at \in {"full", "ready", "rotating", "open", "torn"}
  PROVE  \A n \in Slots : named[n] # 0 => ~Has(files[named[n]], Whole(append[p].record))
<1>1. \A f \in DOMAIN files : ~Has(files[f], Whole(append[p].record))
  BY DEF LogInv, AppendFits
<1>2. \A n \in Slots : named[n] # 0 => named[n] \in DOMAIN files
  BY DEF LogInv, LogTypes
<1>3. QED
  BY <1>1, <1>2

LEMMA FailsStep == ASSUME LogInv, NEW p \in Processes, MoveFails(p) \/ WriteFails(p) PROVE LogInv'
<1>1. /\ append[p].at \in {"rotating", "open"} /\ Report(p, "failed") /\ UNCHANGED <<files, named>>
      /\ "failed" \in Statuses /\ append[p].at # "idle"
  BY DEF MoveFails, WriteFails, Statuses
<1>2. locked' = locked \/ (locked = p /\ p \in Writers /\ locked' = Nobody)
  BY RotatorHolds DEF MoveFails, WriteFails
<1>3. QED
  BY <1>1, <1>2, UnwrittenIsNowhere, PlainReport

LEMMA ConfirmStep == ASSUME LogInv, NEW p \in Processes, Confirm(p) PROVE LogInv'
<1>1. /\ append[p].at = "written" /\ p \notin OldWriters /\ UNCHANGED <<files, named, locked>>
      /\ AppendFits(p, append[p], files, status) /\ append[p].at # "idle"
  BY DEF LogInv, Confirm
<1>2. LineOf(files[append[p].fd], 0, append[p].record) /\ append[p].fd \in DOMAIN files
  BY <1>1 DEF AppendFits
<1>3. CASE Reachable(append[p].fd)
  <2>1. PICK said \in {"written", "unconfirmed"} : Report(p, said)
    BY <1>3 DEF Confirm
  <2>2. said \in Statuses
    BY DEF Statuses
  <2>3. QED
    BY <1>1, <1>2, <2>1, <2>2, PlainReport
<1>4. CASE ~Reachable(append[p].fd)
  <2>1. Report(p, "failed") /\ "failed" \in Statuses
    BY <1>4 DEF Confirm, Statuses
  <2>2. ASSUME NEW n \in Slots, named[n] # 0 PROVE ~Has(files[named[n]], Whole(append[p].record))
    <3>1. named[n] \in DOMAIN files /\ named[n] # append[p].fd
      BY <1>4, <2>2 DEF Reachable, LogInv, LogTypes
    <3>2. QED
      BY <1>1, <3>1 DEF AppendFits
  <2>3. QED
    BY <1>1, <2>1, <2>2, PlainReport
<1>5. QED
  BY <1>3, <1>4

LEMMA OldReportStep == ASSUME LogInv, NEW p \in Processes, OldReport(p) PROVE LogInv'
<1>1. /\ append[p].at # "idle" /\ Report(p, "old") /\ UNCHANGED <<files, named, locked>> /\ "old" \in Statuses
  BY DEF OldReport, Statuses
<1>2. QED
  BY <1>1, PlainReport

LEMMA TerminateStep ==
  ASSUME LogInv, NEW p \in Processes, NEW closes \in BOOLEAN, Terminate(p, closes) PROVE LogInv'
<1> DEFINE said == ShortStatus(p)
           x == append[p].record
           f == append[p].fd
<1>1. /\ append[p].at \in {"unended", "torn"} /\ p \notin OldWriters /\ Report(p, said)
      /\ UNCHANGED <<named, locked>> /\ append[p].at # "idle"
      /\ said \in Statuses /\ said # "written" /\ (said = "failed" => append[p].at = "torn")
  BY DEF Terminate, ShortStatus, Statuses
<1> HIDE DEF said
<1>2. said = "failed" => \A n \in Slots : named[n] # 0 => ~Has(files[named[n]], Whole(x))
  BY <1>1, UnwrittenIsNowhere
<1>3. CASE ~closes
  <2>1. UNCHANGED files
    BY <1>3 DEF Terminate
  <2>2. QED
    BY <1>1, <1>2, <2>1, PlainReport
<1>4. CASE closes
  <2> DEFINE d == <<NewLine>>
  <2>1. files' = [files EXCEPT ![f] = files[f] \o d]
    BY <1>4 DEF Terminate, Put
  <2>2. /\ d \in Seq(Pieces) /\ Len(d) = 1 /\ DOMAIN d = {1} /\ d[1] = NewLine
    BY PieceFacts
  <2>3. /\ files \in Seq(Seq(Pieces)) /\ f \in DOMAIN files /\ files[f] \in Seq(Pieces)
        /\ named \in [Slots -> 0..Len(files)] /\ DOMAIN files = 1..Len(files)
    <3>1. AppendFits(p, append[p], files, status) /\ files \in Seq(Seq(Pieces))
          /\ named \in [Slots -> 0..Len(files)]
      BY DEF LogInv, LogTypes
    <3>2. f \in DOMAIN files
      BY <1>1, <3>1 DEF AppendFits
    <3>3. QED
      BY <3>1, <3>2
  <2> HIDE DEF d
  <2>4. files[f] \o d \in Seq(Pieces)
    BY <2>2, <2>3, Joined
  <2>5. /\ files' \in Seq(Seq(Pieces)) /\ Len(files') = Len(files) /\ DOMAIN files' = DOMAIN files
        /\ files'[f] = files[f] \o d /\ \A g \in DOMAIN files : g # f => files'[g] = files[g]
    BY <2>1, <2>3, <2>4
  <2>6. /\ Len(d) >= 1 /\ \A i \in DOMAIN d : d[i] \in {NewLine, Whole(x), Torn(x)}
    BY <2>2
  <2>7. x = append[p].record
    OBVIOUS
  <2> HIDE DEF x, f
  <2>8. /\ PiecesFit(files', status)
        /\ \A q \in Processes \ {p} : AppendFits(q, append[q], files', status)
        /\ ToldFits(files', status, named)
        /\ label.at = "append" => Found(files', status, named, label.target)
    BY <1>1, <2>2, <2>3, <2>5, <2>6, <2>7, PutKeeps
  <2>9. ASSUME said = "failed", NEW n \in Slots, named[n] # 0 PROVE ~Has(files'[named[n]], Whole(x))
    <3>1. ~Has(files[named[n]], Whole(x)) /\ named[n] \in DOMAIN files
      BY <1>2, <2>3, <2>9
    <3>2. ~Has(d, Whole(x))
      BY <2>2, PieceFacts DEF Has
    <3>3. Has(files[f] \o d, Whole(x)) <=> Has(files[f], Whole(x)) \/ Has(d, Whole(x))
      BY <2>2, <2>3, HasJoined
    <3>4. QED
      BY <2>5, <3>1, <3>2, <3>3
  <2>10. QED
    BY <1>1, <2>5, <2>8, <2>9, ReportEnds DEF x
<1>5. QED
  BY <1>3, <1>4

LEMMA LogInvInit == LogInit => LogInv
<1> SUFFICES ASSUME LogInit PROVE LogInv
  OBVIOUS
<1>1. LogTypes
  BY DEF LogInit, LogTypes, AppendStates, LabelStates, Slots
<1>2. LockInv
  <2>1. Labeller # Nobody
    BY LogAssumption
  <2>2. \A p \in Processes : append[p].at = "idle"
    BY DEF LogInit, NotAppending
  <2>3. Labeller \in Processes
    BY DEF Processes
  <2>4. QED
    BY <2>1, <2>2, <2>3 DEF LogInit, LockInv
<1>3. \A p \in Processes : append[p].at = "idle"
  BY DEF LogInit, NotAppending
<1>4. DOMAIN files = {} /\ DOMAIN status = {} /\ label.at = "idle"
  BY DEF LogInit
<1>5. QED
  BY <1>1, <1>2, <1>3, <1>4 DEF LogInv, PiecesFit, AppendFits, ApartInv, ToldFits

LEMMA LogInvStep == LogInv /\ [LogNext]_logVars => LogInv'
<1> SUFFICES ASSUME LogInv, [LogNext]_logVars PROVE LogInv'
  OBVIOUS
<1>1. CASE UNCHANGED logVars
  BY <1>1 DEF logVars, LogInv, LogTypes, ApartInv, LockInv
<1>2. CASE LogNext
  BY <1>2, AppendBegins, FullStep, ShiftStep, MoveLogStep, FailsStep, OpenLogStep, WriteStep, TerminateStep,
     ConfirmStep, OldReportStep, AppenderGoes, LabelStep DEF LogNext
<1>3. QED
  BY <1>1, <1>2

LEMMA LogIsKept == LogInv => LogIsTruthful
<1> SUFFICES ASSUME LogInv PROVE LogIsTruthful
  OBVIOUS
<1>1. WrittenReads
  BY DEF WrittenReads, LogInv, ToldFits, Reads, LineOf
<1>2. FailedNeverReads
  BY DEF FailedNeverReads, LogInv, ToldFits, Readable, Reads, Has
<1>3. LabelsMeetTheirSelection
  BY DEF LabelsMeetTheirSelection, LogInv, Found, Readable, Reads, RunInto, LineOf, RunOn
<1>4. QED
  BY <1>1, <1>2, <1>3 DEF LogIsTruthful

-----------------------------------------------------------------------------
(* The stores side by side: a behaviour moves one of them.                 *)

(* Ratings do what they promise, whatever else the server keeps in files:  *)
(* what a call rated down stays hidden, whoever rated, waited or failed,   *)
(* and a tool's score says what its ratings say (handle_feedback, the      *)
(* auto-tuner).                                                            *)
THEOREM RatingsStaySound == StoresSpec => []RatingsAreSound
<1> DEFINE Inv == TuningInv /\ EffectsInv
<1>1. StoresInit => Inv
  BY TuningInvInit, EffectsInvInit DEF StoresInit
<1>2. Inv /\ [StoresNext]_storeVars => Inv'
  <2> SUFFICES ASSUME Inv, [StoresNext]_storeVars PROVE Inv'
    OBVIOUS
  <2>1. [TuningNext]_tuningVars /\ [EffectsNext]_effectsVars
    BY DEF StoresNext, InWorker, TuningMoves, EffectsMove, MetricsMove, LogMoves, storeVars
  <2>2. QED
    BY <2>1, TuningInvStep, EffectsInvStep
<1>3. Inv => RatingsAreSound
  BY ScoresAreSound, EffectsAreSound DEF RatingsAreSound
<1>4. QED
  BY <1>1, <1>2, <1>3, PTL DEF StoresSpec

(* What is recorded is kept: no call of the metrics is lost or counted     *)
(* twice whatever builds share the file, no source outgrows its cap, and   *)
(* what an append to the selection log reported is what readers find       *)
(* there, across rotations, crashes and torn writes.                       *)
THEOREM RecordsStayKept == StoresSpec => []RecordsAreKept
<1> DEFINE Inv == MetricsInv /\ LogInv
<1>1. StoresInit => Inv
  BY MetricsInvInit, LogInvInit DEF StoresInit
<1>2. Inv /\ [StoresNext]_storeVars => Inv'
  <2> SUFFICES ASSUME Inv, [StoresNext]_storeVars PROVE Inv'
    OBVIOUS
  <2>1. [MetricsNext]_metricsVars /\ [LogNext]_logVars
    BY DEF StoresNext, InWorker, TuningMoves, EffectsMove, MetricsMove, LogMoves, storeVars
  <2>2. QED
    BY <2>1, MetricsInvStep, LogInvStep
<1>3. Inv => RecordsAreKept
  BY RecordsAreSound, LogIsKept DEF RecordsAreKept
<1>4. QED
  BY <1>1, <1>2, <1>3, PTL DEF StoresSpec
=============================================================================
