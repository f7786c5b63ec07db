------------------------- MODULE GuardedCallsProofs --------------------------
(***************************************************************************)
(* What GuardedCalls promises, for any callers and snapshots, and what     *)
(* ServerLifespan does, for any grace, frames and misread samples.         *)
(***************************************************************************)
EXTENDS GuardedCalls, ServerLifespan, TLAPS

Active(c) == pc[c] # "idle"
Forwarded(c) == pc[c] \in {"fetching", "rpc", "processing"}

(* Every call has what its place in the code has computed by then.         *)
CallInv ==
  \A c \in Callers :
    /\ Active(c) => pinned[c] \in Configs /\ key[c] \in Keys
    /\ Forwarded(c) => identity[c] \in Conns
    /\ pc[c] \in {"rpc", "processing"} => sent[c] \in Conns
    /\ pc[c] = "processing" => shape[c] \in Shapes

Typed == TypeOK /\ CallInv

(* A guarded fetch runs inside its key's lock.                             *)
LockInv == \A c \in Callers : Fetches(c) => holder[key[c]] = c

(* When every snapshot lists the server, what a call resolves never        *)
(* changes under it.                                                       *)
AllListed == \A f \in Configs : f.conn # None

MatchInv ==
  \A c \in Callers :
    /\ Active(c) => key[c] = <<pinned[c].conn, pinned[c].shape>>
    /\ Forwarded(c) => identity[c] = pinned[c].conn
    /\ pc[c] = "processing" => shape[c] = pinned[c].shape
-----------------------------------------------------------------------------
LEMMA Resolves ==
  ASSUME TypeOK, NEW f \in Configs
  PROVE  /\ ServerCfg(f) \in Listed
         /\ ServerCfg(f).conn \in Conns
         /\ ServerCfg(f).shape \in Shapes
         /\ KeyOf(f) \in Keys
<1>1. ServerCfg(f) \in Listed
  BY DEF ServerCfg, TypeOK, Listed
<1> QED
  BY <1>1 DEF Conns, Shapes, Keys, KeyOf

LEMMA Drains ==
  ASSUME Typed, NEW c \in Callers, Active(c), NEW r \in AfterDrain(c)
  PROVE  /\ r \in [Keys -> Keys \cup {None}]
         /\ \A k \in Keys : r[k] \in {row[k], None}
<1>1. KeyOf(pinned[c]) \in Keys
  BY Resolves DEF Typed, CallInv
<1>2. row \in [Keys -> Keys \cup {None}]
  BY DEF Typed, TypeOK
<1>3. r = row \/ r = [row EXCEPT ![KeyOf(pinned[c])] = None]
  BY DEF AfterDrain
<1> QED
  BY <1>1, <1>2, <1>3

LEMMA Stores ==
  ASSUME Typed, NEW c \in Callers, pc[c] = "processing",
         NEW retry \in BOOLEAN, NEW nontext \in BOOLEAN, NEW storable \in BOOLEAN,
         NEW r \in AfterStore(c, retry, nontext, storable)
  PROVE  /\ r \in [Keys -> Keys \cup {None}]
         /\ \A k \in Keys : \/ r[k] \in {row[k], None}
                            \/ /\ k = key[c] /\ r[k] = <<sent[c], shape[c]>>
                               /\ sent[c] = identity[c]
<1>1. Active(c)
  BY DEF Active
<1>2. row \in [Keys -> Keys \cup {None}] /\ key[c] \in Keys /\ <<sent[c], shape[c]>> \in Keys
  BY <1>1 DEF Typed, TypeOK, CallInv, Keys
<1>3. \/ r \in AfterDrain(c)
      \/ r = row
      \/ r = [row EXCEPT ![key[c]] = <<sent[c], shape[c]>>] /\ sent[c] = identity[c]
  BY DEF AfterStore
<1>4. CASE r \in AfterDrain(c)
  BY <1>1, <1>4, Drains
<1>5. CASE r = row
  BY <1>2, <1>5
<1>6. CASE r = [row EXCEPT ![key[c]] = <<sent[c], shape[c]>>] /\ sent[c] = identity[c]
  BY <1>2, <1>6
<1> QED
  BY <1>3, <1>4, <1>5, <1>6

(* Leaving the lock frees at most the caller's own key.                    *)
LEMMA Releases ==
  ASSUME TypeOK, NEW c \in Callers, Release(c)
  PROVE  /\ holder' \in [Keys -> Callers \cup {None}]
         /\ \A k \in Keys : holder[k] # c => holder'[k] = holder[k]
BY DEF TypeOK, Release, Lock!Leave

(* The end of a call, whatever it did to the rows. *)
LEMMA Settles ==
  ASSUME Typed, NEW c \in Callers, Settle(c), row' \in [Keys -> Keys \cup {None}],
         file' \in Configs, installed' \in Listed, replayable' \in BOOLEAN,
         recovering' \in Listed \cup {None}
  PROVE  Typed'
<1>1. holder' \in [Keys -> Callers \cup {None}]
  BY Releases DEF Typed, Settle
<1>2. TypeOK'
  BY <1>1 DEF Typed, TypeOK, Settle
<1>3. CallInv'
  BY DEF Typed, TypeOK, CallInv, Active, Forwarded, Settle
<1> QED
  BY <1>2, <1>3 DEF Typed
-----------------------------------------------------------------------------
LEMMA TypedInit == Init => Typed
<1> SUFFICES ASSUME Init PROVE Typed
  OBVIOUS
<1>1. TypeOK
  BY DEF Init, TypeOK, Lock!Init, Listed
<1>2. CallInv
  BY DEF Init, CallInv, Active, Forwarded
<1> QED
  BY <1>1, <1>2 DEF Typed

LEMMA TypedStep == Typed /\ [Next]_vars => Typed'
<1> SUFFICES ASSUME Typed, [Next]_vars PROVE Typed'
  OBVIOUS
<1> USE DEF Typed
<1>1. ASSUME NEW c \in Callers, Begin(c) PROVE Typed'
  <2>1. file \in Configs /\ KeyOf(file) \in Keys /\ ServerCfg(file).conn \in Conns
    BY Resolves DEF TypeOK
  <2>2. None \notin Keys
    BY GuardedAssumption
  <2>3. TypeOK'
    BY <1>1, <2>1, <2>2 DEF TypeOK, Begin, server
  <2>4. CallInv'
    BY <1>1, <2>1 DEF TypeOK, CallInv, Active, Forwarded, Begin
  <2> QED
    BY <2>3, <2>4
<1>2. ASSUME NEW c \in Callers, Enter(c) PROVE Typed'
  <2>1. key[c] \in Keys /\ ServerCfg(pinned[c]).conn \in Conns
    BY <1>2, Resolves DEF CallInv, Active, Enter
  <2>2. TypeOK'
    BY <1>2, <2>1 DEF TypeOK, Enter, server, Lock!Enter
  <2>3. CallInv'
    BY <1>2, <2>1 DEF TypeOK, CallInv, Active, Forwarded, Enter
  <2> QED
    BY <2>2, <2>3
<1>3. ASSUME NEW c \in Callers, Serve(c) PROVE Typed'
  BY <1>3, Settles DEF Serve, TypeOK, server
<1>4. ASSUME NEW c \in Callers, Reconnect(c) PROVE Typed'
  <2>1. ServerCfg(pinned[c]) \in Listed
    BY <1>4, Resolves DEF CallInv, Active, Reconnect
  <2> QED
    BY <1>4, <2>1 DEF TypeOK, CallInv, Active, Forwarded, Reconnect, call
<1>5. ASSUME NEW c \in Callers, Dispatch(c) PROVE Typed'
  <2>1. installed.conn \in Conns
    BY DEF TypeOK, Conns
  <2>2. TypeOK'
    BY <1>5, <2>1 DEF TypeOK, Dispatch, server
  <2>3. CallInv'
    BY <1>5, <2>1 DEF TypeOK, CallInv, Active, Forwarded, Dispatch
  <2> QED
    BY <2>2, <2>3
<1>6. ASSUME NEW c \in Callers, Retry(c) PROVE Typed'
  <2>1. TypeOK'
    BY <1>6 DEF TypeOK, Retry, server
  <2>2. CallInv'
    BY <1>6 DEF TypeOK, CallInv, Active, Forwarded, Retry
  <2> QED
    BY <2>1, <2>2
<1>7. ASSUME NEW c \in Callers, Raise(c), Active(c) PROVE row' \in [Keys -> Keys \cup {None}]
  BY <1>7, Drains DEF Raise, TypeOK
<1>8. ASSUME NEW c \in Callers, FailFetch(c) PROVE Typed'
  <2>1. Active(c)
    BY <1>8 DEF FailFetch, Active
  <2>2. recovering' \in Listed \cup {None}
    BY <1>8, <2>1, Resolves DEF FailFetch, TypeOK, CallInv
  <2> QED
    BY <1>7, <1>8, <2>1, <2>2, Settles DEF FailFetch, Raise, TypeOK
<1>9. ASSUME NEW c \in Callers, ReturnEarly(c) \/ FailDelivery(c) PROVE Typed'
  <2>1. Active(c)
    BY <1>9 DEF ReturnEarly, FailDelivery, Active
  <2> QED
    BY <1>9, <2>1, Drains, Settles DEF ReturnEarly, FailDelivery, TypeOK, server
<1>10. ASSUME NEW c \in Callers, Reply(c) PROVE Typed'
  <2>1. ServerCfg(pinned[c]).shape \in Shapes
    BY <1>10, Resolves DEF CallInv, Active, Reply
  <2>2. TypeOK'
    BY <1>10, <2>1 DEF TypeOK, Reply, server
  <2>3. CallInv'
    BY <1>10, <2>1 DEF TypeOK, CallInv, Active, Forwarded, Reply
  <2> QED
    BY <2>2, <2>3
<1>11. ASSUME NEW c \in Callers, FailPipeline(c) PROVE Typed'
  <2>1. Active(c)
    BY <1>11 DEF FailPipeline, Active
  <2> QED
    BY <1>7, <1>11, <2>1, Settles DEF FailPipeline, Raise, TypeOK, server
<1>12. ASSUME NEW c \in Callers, Store(c) PROVE Typed'
  <2>1. row' \in [Keys -> Keys \cup {None}]
    BY <1>12, Stores DEF Store
  <2> QED
    BY <1>12, <2>1, Settles DEF Store, TypeOK, server
<1>13. ASSUME NEW c \in Callers, Cancel(c) PROVE Typed'
  BY <1>13, Settles DEF Cancel, TypeOK, server
<1>14. CASE Reload
  BY <1>14 DEF Reload, TypeOK, CallInv, Active, Forwarded, call
<1>15. CASE Relist
  BY <1>15 DEF Relist, TypeOK, CallInv, Active, Forwarded, call
<1>16. CASE Recovered
  BY <1>16 DEF Recovered, TypeOK, CallInv, Active, Forwarded, call
<1>17. ASSUME NEW k \in Keys, Drop(k) PROVE Typed'
  BY <1>17 DEF Drop, TypeOK, CallInv, Active, Forwarded, call, server
<1>18. CASE UNCHANGED vars
  BY <1>18 DEF vars, server, call, TypeOK, CallInv, Active, Forwarded
<1> QED
  BY <1>1, <1>2, <1>3, <1>4, <1>5, <1>6, <1>8, <1>9, <1>10, <1>11, <1>12, <1>13, <1>14,
     <1>15, <1>16, <1>17, <1>18 DEF Next, FetchEnds, ProcessEnds

(* Every call has its snapshot and its key while it is under way, and      *)
(* every row is a body of some connection and shape.                       *)
THEOREM GuardedTyped == Spec => []TypeOK
<1>1. Typed => TypeOK
  BY DEF Typed
<1> QED
  BY <1>1, TypedInit, TypedStep, PTL DEF Spec
-----------------------------------------------------------------------------
(* A call's own steps change the lock of its own key only, and what the    *)
(* others have is left alone.                                              *)
LEMMA LockStep == Typed /\ LockInv /\ [Next]_vars => LockInv'
<1> SUFFICES ASSUME Typed, LockInv, [Next]_vars PROVE LockInv'
  OBVIOUS
<1> USE DEF Typed
<1>1. ASSUME NEW c \in Callers, Begin(c) PROVE LockInv'
  BY <1>1 DEF LockInv, Fetches, TypeOK, Begin
<1>2. ASSUME NEW c \in Callers, Enter(c) PROVE LockInv'
  <2>1. None \notin Callers /\ key[c] \in Keys
    BY <1>2, GuardedAssumption DEF CallInv, Active, Enter
  <2>2. holder[key[c]] = None /\ holder' = [holder EXCEPT ![key[c]] = c]
    BY <1>2 DEF Enter, Lock!Enter
  <2>3. ASSUME NEW d \in Callers, Fetches(d)' PROVE holder'[key'[d]] = d
    <3>1. CASE d = c
      BY <1>2, <2>1, <2>2, <3>1 DEF TypeOK, Enter
    <3>2. CASE d # c
      <4>1. Fetches(d) /\ key'[d] = key[d]
        BY <1>2, <2>3, <3>2 DEF Fetches, Enter, TypeOK
      <4> QED
        BY <2>1, <2>2, <4>1 DEF LockInv, TypeOK
    <3> QED
      BY <3>1, <3>2
  <2> QED
    BY <2>3 DEF LockInv
<1>3. ASSUME NEW c \in Callers, Settle(c) PROVE LockInv'
  <2>1. ASSUME NEW d \in Callers, Fetches(d)' PROVE holder'[key'[d]] = d
    <3>1. d # c
      BY <1>3, <2>1 DEF Settle, Fetches, TypeOK
    <3>2. Fetches(d) /\ key'[d] = key[d]
      BY <1>3, <2>1, <3>1 DEF Settle, Fetches, TypeOK
    <3>3. key[d] \in Keys /\ holder[key[d]] = d
      BY <3>2 DEF LockInv, CallInv, Active, Fetches
    <3> QED
      BY <1>3, <3>1, <3>2, <3>3, Releases DEF Settle
  <2> QED
    BY <2>1 DEF LockInv
<1>4. ASSUME NEW c \in Callers, Dispatch(c) \/ Retry(c) \/ Reply(c) PROVE LockInv'
  BY <1>4 DEF LockInv, Fetches, TypeOK, Dispatch, Retry, Reply
<1>5. ASSUME NEW c \in Callers, Reconnect(c) PROVE LockInv'
  BY <1>5 DEF LockInv, Fetches, Reconnect, call
<1>6. ASSUME Reload \/ Relist \/ Recovered \/ \E k \in Keys : Drop(k) PROVE LockInv'
  BY <1>6 DEF LockInv, Fetches, Reload, Relist, Recovered, Drop, call
<1>7. CASE UNCHANGED vars
  BY <1>7 DEF LockInv, Fetches, vars, call
<1> QED
  BY <1>1, <1>2, <1>3, <1>4, <1>5, <1>6, <1>7 DEF Next, FetchEnds, ProcessEnds, Serve,
     FailFetch, ReturnEarly, FailDelivery, FailPipeline, Raise, Store, Cancel

(* The stampede guard, for any number of calls: two upstream fetches that  *)
(* looked their row up under the same key are never in flight together.    *)
THEOREM FetchesExclude == Spec => []OneFetchPerKey
<1>1. Init => LockInv
  BY DEF Init, LockInv, Fetches
<1>2. LockInv => OneFetchPerKey
  BY DEF LockInv, OneFetchPerKey
<1> QED
  BY <1>1, <1>2, TypedInit, TypedStep, LockStep, PTL DEF Spec
-----------------------------------------------------------------------------
LEMMA ListedResolve ==
  ASSUME AllListed, NEW f \in Configs
  PROVE  ServerCfg(f) = f /\ KeyOf(f) = <<f.conn, f.shape>>
BY DEF AllListed, ServerCfg, KeyOf

LEMMA MatchStep ==
  ASSUME AllListed
  PROVE  Typed /\ MatchInv /\ RowsMatchKeys /\ [Next]_vars => MatchInv' /\ RowsMatchKeys'
<1> SUFFICES ASSUME Typed, MatchInv, RowsMatchKeys, [Next]_vars
             PROVE  MatchInv' /\ RowsMatchKeys'
  OBVIOUS
<1> USE DEF Typed
<1>1. ASSUME NEW c \in Callers, Begin(c) PROVE MatchInv' /\ RowsMatchKeys'
  <2>1. ServerCfg(file).conn = file.conn /\ KeyOf(file) = <<file.conn, file.shape>>
    BY ListedResolve DEF TypeOK
  <2>2. MatchInv'
    BY <1>1, <2>1 DEF TypeOK, MatchInv, Active, Forwarded, Begin
  <2> QED
    BY <1>1, <2>2 DEF Begin, RowsMatchKeys
<1>2. ASSUME NEW c \in Callers, Enter(c) PROVE MatchInv' /\ RowsMatchKeys'
  <2>1. ServerCfg(pinned[c]).conn = pinned[c].conn
    BY <1>2, ListedResolve DEF CallInv, Active, Enter
  <2>2. MatchInv'
    BY <1>2, <2>1 DEF TypeOK, MatchInv, Active, Forwarded, Enter
  <2> QED
    BY <1>2, <2>2 DEF Enter, RowsMatchKeys
<1>3. ASSUME NEW c \in Callers, Reply(c) PROVE MatchInv' /\ RowsMatchKeys'
  <2>1. ServerCfg(pinned[c]).shape = pinned[c].shape
    BY <1>3, ListedResolve DEF CallInv, Active, Reply
  <2>2. MatchInv'
    BY <1>3, <2>1 DEF TypeOK, MatchInv, Active, Forwarded, Reply
  <2> QED
    BY <1>3, <2>2 DEF Reply, RowsMatchKeys
<1>4. ASSUME NEW c \in Callers, Dispatch(c) \/ Retry(c) PROVE MatchInv' /\ RowsMatchKeys'
  BY <1>4 DEF TypeOK, MatchInv, Active, Forwarded, Dispatch, Retry, RowsMatchKeys
<1>5. ASSUME NEW c \in Callers, Settle(c) PROVE MatchInv'
  BY <1>5 DEF TypeOK, MatchInv, Active, Forwarded, Settle
<1>6. ASSUME \A k \in Keys : row'[k] \in {row[k], None} PROVE RowsMatchKeys'
  BY <1>6 DEF RowsMatchKeys
<1>7. ASSUME NEW c \in Callers, Active(c), Raise(c) \/ row' \in AfterDrain(c) \/ row' = row
      PROVE  RowsMatchKeys'
  BY <1>6, <1>7, Drains DEF Raise
<1>8. ASSUME NEW c \in Callers, Serve(c) \/ Cancel(c) \/ FailFetch(c) \/ ReturnEarly(c)
                                \/ FailDelivery(c) \/ FailPipeline(c)
      PROVE  MatchInv' /\ RowsMatchKeys'
  <2>1. Active(c) /\ Settle(c) /\ (Raise(c) \/ row' \in AfterDrain(c) \/ row' = row)
    BY <1>8 DEF Serve, Cancel, FailFetch, ReturnEarly, FailDelivery, FailPipeline, Active, Raise
  <2> QED
    BY <1>5, <1>7, <2>1
<1>9. ASSUME NEW c \in Callers, Store(c) PROVE MatchInv' /\ RowsMatchKeys'
  <2>1. sent[c] = identity[c] => <<sent[c], shape[c]>> = key[c]
    BY <1>9 DEF MatchInv, Active, Forwarded, Store
  <2>2. ASSUME NEW k \in Keys PROVE row'[k] \in {row[k], None, k}
    BY <1>9, <2>1, <2>2, Stores DEF Store
  <2>3. RowsMatchKeys'
    BY <2>2 DEF RowsMatchKeys
  <2> QED
    BY <1>5, <1>9, <2>3 DEF Store
<1>10. ASSUME NEW c \in Callers, Reconnect(c) PROVE MatchInv' /\ RowsMatchKeys'
  BY <1>10 DEF MatchInv, RowsMatchKeys, Active, Forwarded, Reconnect, call
<1>11. ASSUME Reload \/ Relist \/ Recovered PROVE MatchInv' /\ RowsMatchKeys'
  BY <1>11 DEF MatchInv, RowsMatchKeys, Active, Forwarded, Reload, Relist, Recovered, call
<1>12. ASSUME NEW k \in Keys, Drop(k) PROVE MatchInv' /\ RowsMatchKeys'
  <2>1. RowsMatchKeys'
    BY <1>12 DEF TypeOK, RowsMatchKeys, Drop
  <2> QED
    BY <1>12, <2>1 DEF MatchInv, Active, Forwarded, Drop, call
<1>13. CASE UNCHANGED vars
  BY <1>13 DEF MatchInv, RowsMatchKeys, Active, Forwarded, vars, call
<1> QED
  BY <1>1, <1>2, <1>3, <1>4, <1>8, <1>9, <1>10, <1>11, <1>12, <1>13
     DEF Next, FetchEnds, ProcessEnds

(* No row holds a body of another connection or of other settings than its *)
(* key's, for any calls, reloads and reconnects, as long as every snapshot *)
(* lists the server.                                                       *)
THEOREM RowsAreTheirKeys ==
  ASSUME AllListed
  PROVE  Spec => []RowsMatchKeys
<1>1. Init => MatchInv /\ RowsMatchKeys
  BY DEF Init, MatchInv, RowsMatchKeys, Active, Forwarded
<1> QED
  BY <1>1, TypedInit, TypedStep, MatchStep, PTL DEF Spec

(* The stampede guard, as the run checks it.                               *)
THEOREM FetchesStayGuarded == Spec => []FetchesAreGuarded
BY GuardedTyped, FetchesExclude, PTL DEF FetchesAreGuarded
-----------------------------------------------------------------------------
(* The life of the server's process, for any grace, any frames of the      *)
(* client and any misread samples.                                         *)

LEMMA StepOrder ==
  /\ Len(Steps) = 10
  /\ Steps[1] = "tools" /\ Steps[2] = "manager" /\ Steps[3] = "engine" /\ Steps[4] = "feedback"
  /\ Steps[5] = "stores" /\ Steps[6] = "watcher" /\ Steps[7] = "warmup" /\ Steps[8] = "adapter"
  /\ Steps[9] = "export" /\ Steps[10] = "sweep"
BY DEF Steps

(* What the first n - 1 steps of the teardown close.                       *)
Before(n) == {Steps[i] : i \in 1..(n - 1)}

LEMMA BeforeAll ==
  /\ Before(1) = {} /\ Before(10) = Resources
  /\ \A n \in 1..9 : Before(n + 1) = Before(n) \cup {Steps[n]} /\ Steps[n] \in Resources
  /\ \A n \in 1..10 : Before(n) \subseteq Resources
<1>1. Before(1) = {} BY DEF Before
<1>2. Before(10) = Resources BY StepOrder DEF Before, Resources
<1>3. ASSUME NEW n \in 1..9 PROVE Before(n + 1) = Before(n) \cup {Steps[n]} /\ Steps[n] \in Resources
  <2>1. 1..((n + 1) - 1) = (1..(n - 1)) \cup {n} OBVIOUS
  <2>2. Steps[n] \in Resources BY StepOrder DEF Resources
  <2> QED BY <2>1, <2>2 DEF Before
<1>4. ASSUME NEW n \in 1..10 PROVE Before(n) \subseteq Resources
  BY StepOrder DEF Before, Resources
<1> QED BY <1>1, <1>2, <1>3, <1>4

(* Who uses a resource is closed at an earlier step.                       *)
LEMMA UsersFirst ==
  ASSUME NEW u \in Uses, NEW n \in 1..10, u[2] \in Before(n) PROVE u[1] \in Before(n)
<1>1. PICK j \in 1..(n - 1) : u[2] = Steps[j] BY DEF Before
<1>2. j \in 1..9 BY <1>1
<1>3. ASSUME NEW i \in 1..9, i < j, u[1] = Steps[i] PROVE u[1] \in Before(n)
  <2>1. i \in 1..(n - 1) BY <1>1, <1>3
  <2> QED BY <1>3, <2>1 DEF Before
<1>4. CASE u = <<"tools", "manager">> BY <1>1, <1>2, <1>3, <1>4, StepOrder
<1>5. CASE u = <<"manager", "engine">> BY <1>1, <1>2, <1>3, <1>5, StepOrder
<1>6. CASE u = <<"manager", "stores">> BY <1>1, <1>2, <1>3, <1>6, StepOrder
<1>7. CASE u = <<"engine", "feedback">> BY <1>1, <1>2, <1>3, <1>7, StepOrder
<1>8. CASE u = <<"engine", "adapter">> BY <1>1, <1>2, <1>3, <1>8, StepOrder
<1>9. CASE u = <<"warmup", "adapter">> BY <1>1, <1>2, <1>3, <1>9, StepOrder
<1> QED BY <1>4, <1>5, <1>6, <1>7, <1>8, <1>9 DEF Uses

-----------------------------------------------------------------------------
(* The teardown has tried what was open of a beginning of its steps, and   *)
(* of all of them up to its step unless it was cut short.                  *)
TriedInOrder ==
  \E n \in 1..10 :
    attempted = Before(n) \cap opened /\ (~cut => n = step)

TeardownInv ==
  /\ step \in 1..10 /\ opened \subseteq Resources
  /\ stage \in {"starting", "serving"} => attempted = {} /\ step = 1 /\ ~cut
  /\ stage \in {"starting", "serving", "teardown", "over"}
  /\ stage = "over" => step = 10
  /\ cut => step = 10
  /\ cut \in BOOLEAN
  /\ TriedInOrder

EndInv == /\ exit \notin {"running", "fired"} => swept
          /\ stage = "over" => exit # "running"

(* A confirmation is of the last sample, and tearing down is known.        *)
WatchInv ==
  /\ confirmed \in 0..2 /\ quiet \in 0..Grace
  /\ confirmed > 0 => missing
  /\ stage = "teardown" => tearing

LifespanInv == TeardownInv /\ EndInv /\ WatchInv

LEMMA LifespanStarts == LifespanInit => LifespanInv
<1> SUFFICES ASSUME LifespanInit PROVE LifespanInv
  OBVIOUS
<1>1. attempted = {} /\ step = 1 /\ cut = FALSE /\ opened \subseteq Resources
      /\ stage \in {"starting", "teardown"}
  BY DEF LifespanInit
<1>2. TriedInOrder
  <2>1. 1 \in 1..10 /\ attempted = Before(1) \cap opened /\ 1 = step BY <1>1, BeforeAll
  <2> QED BY <2>1 DEF TriedInOrder
<1>3. step \in 1..10 BY <1>1
<1>4. cut \in BOOLEAN /\ ~cut BY <1>1
<1>5. stage # "over" /\ stage \in {"starting", "serving", "teardown", "over"} BY <1>1
<1>6. TeardownInv BY <1>1, <1>2, <1>3, <1>4, <1>5 DEF TeardownInv
<1>7. EndInv BY <1>1 DEF LifespanInit, EndInv
<1>8. confirmed = 0 /\ quiet = 0 /\ (stage = "teardown" => tearing) BY DEF LifespanInit
<1>9. WatchInv BY <1>8, LifespanAssumption DEF WatchInv
<1> QED BY <1>6, <1>7, <1>9 DEF LifespanInv

LEMMA TeardownUndisturbed ==
  ASSUME TeardownInv, UNCHANGED <<stage, step, opened, attempted, cut>> PROVE TeardownInv'
BY DEF TeardownInv, TriedInOrder

LEMMA EnteringKeeps ==
  ASSUME LifespanInv, stage \in {"starting", "serving"}, exit = "running", EnterTeardown,
         UNCHANGED <<opened, attempted, cut, swept, exit, confirmed, missing, quiet>>
  PROVE  LifespanInv'
<1>1. TeardownInv'
  <2>1. step' = 1 /\ stage' = "teardown" /\ step = 1 BY DEF EnterTeardown, LifespanInv, TeardownInv
  <2>2. TriedInOrder' BY <2>1 DEF LifespanInv, TeardownInv, TriedInOrder
  <2> QED BY <2>1, <2>2 DEF LifespanInv, TeardownInv
<1>2. EndInv' BY DEF LifespanInv, EndInv, EnterTeardown
<1>3. WatchInv' BY DEF LifespanInv, WatchInv, EnterTeardown
<1> QED BY <1>1, <1>2, <1>3 DEF LifespanInv

LEMMA StartKeeps == ASSUME LifespanInv, StartEnds PROVE LifespanInv'
<1>1. /\ stage = "starting" /\ stage' = "serving" /\ opened' = opened \cup {"tools"}
      /\ UNCHANGED <<attempted, step, cut>>
  BY DEF StartEnds
<1>2. attempted = {} /\ step = 1 /\ ~cut /\ opened \subseteq Resources
  BY <1>1 DEF LifespanInv, TeardownInv
<1>3. "tools" \in Resources BY BeforeAll, StepOrder
<1>4. TriedInOrder'
  <2>1. 1 \in 1..10 /\ attempted' = Before(1) \cap opened' /\ 1 = step' BY <1>1, <1>2, BeforeAll
  <2> QED BY <2>1 DEF TriedInOrder
<1>5. cut' \in BOOLEAN /\ ~cut' BY <1>1, <1>2 DEF LifespanInv, TeardownInv
<1>6. step' = 1 /\ opened' \subseteq Resources /\ attempted' = {} BY <1>1, <1>2, <1>3
<1>7. TeardownInv' BY <1>1, <1>4, <1>5, <1>6 DEF TeardownInv
<1>8. EndInv' BY DEF StartEnds, LifespanInv, EndInv
<1>9. WatchInv' BY DEF StartEnds, LifespanInv, WatchInv, watcherVars, signalVars
<1> QED BY <1>7, <1>8, <1>9 DEF LifespanInv

LEMMA StepKeeps == ASSUME LifespanInv, StepEnds PROVE LifespanInv'
<1>1. /\ stage = "teardown" /\ Steps[step] # "sweep" /\ step' = step + 1
      /\ attempted' = attempted \cup ({Steps[step]} \cap opened)
      /\ UNCHANGED <<stage, opened, cut>>
  BY DEF StepEnds
<1>2. step \in 1..9 /\ cut = FALSE /\ opened \subseteq Resources
  <2>1. step \in 1..10 /\ step # 10 BY <1>1, StepOrder DEF LifespanInv, TeardownInv
  <2> QED BY <2>1 DEF LifespanInv, TeardownInv
<1>3. attempted = Before(step) \cap opened BY <1>2 DEF LifespanInv, TeardownInv, TriedInOrder
<1>4. attempted' = Before(step') \cap opened' /\ step' \in 1..10
  <2>1. Before(step + 1) = Before(step) \cup {Steps[step]} BY <1>2, BeforeAll
  <2> QED BY <1>1, <1>2, <1>3, <2>1
<1>5. TriedInOrder' BY <1>4 DEF TriedInOrder
<1>6. TeardownInv' BY <1>1, <1>2, <1>4, <1>5 DEF TeardownInv
<1>7. EndInv' BY <1>1 DEF StepEnds, LifespanInv, EndInv
<1>8. WatchInv'
  <2>1. tearing' = tearing BY DEF StepEnds, signalVars
  <2>2. \/ UNCHANGED <<confirmed, missing, quiet>>
        \/ confirmed' = 0 /\ missing' = FALSE /\ quiet' = 0
    BY DEF StepEnds, Unwatched
  <2> QED BY <1>1, <2>1, <2>2, LifespanAssumption DEF LifespanInv, WatchInv
<1> QED BY <1>6, <1>7, <1>8 DEF LifespanInv

LEMMA CutKeeps == ASSUME LifespanInv, CutShort PROVE LifespanInv'
<1>1. /\ stage = "teardown" /\ Steps[step] \in Awaits \cap opened /\ step' = 10 /\ cut' = TRUE
      /\ attempted' = attempted \cup {Steps[step]} /\ UNCHANGED <<stage, opened>>
  BY StepOrder DEF CutShort
<1>2. step \in 1..9 /\ cut = FALSE /\ opened \subseteq Resources
  <2>1. step \in 1..10 /\ step # 10 BY <1>1, StepOrder DEF LifespanInv, TeardownInv, Awaits
  <2> QED BY <2>1 DEF LifespanInv, TeardownInv
<1>3. attempted = Before(step) \cap opened BY <1>2 DEF LifespanInv, TeardownInv, TriedInOrder
<1>4. attempted' = Before(step + 1) \cap opened' /\ step + 1 \in 1..10
  <2>1. Before(step + 1) = Before(step) \cup {Steps[step]} BY <1>2, BeforeAll
  <2> QED BY <1>1, <1>2, <1>3, <2>1
<1>5. TriedInOrder' BY <1>1, <1>4 DEF TriedInOrder
<1>6. TeardownInv' BY <1>1, <1>2, <1>5 DEF TeardownInv
<1>7. EndInv' BY <1>1 DEF CutShort, LifespanInv, EndInv
<1>8. WatchInv' BY DEF CutShort, LifespanInv, WatchInv, watcherVars, signalVars
<1> QED BY <1>6, <1>7, <1>8 DEF LifespanInv

LEMMA FinishKeeps == ASSUME LifespanInv, Finish PROVE LifespanInv'
<1>1. stage = "teardown" /\ Steps[step] = "sweep" /\ stage' = "over" /\ UNCHANGED <<step, opened, attempted, cut>>
  BY DEF Finish, Tearing
<1>2. step \in 1..10 BY DEF LifespanInv, TeardownInv
<1>3. step = 10 BY <1>1, <1>2, StepOrder
<1>4. TriedInOrder' BY <1>1 DEF LifespanInv, TeardownInv, TriedInOrder
<1>5. TeardownInv' BY <1>1, <1>3, <1>4 DEF LifespanInv, TeardownInv
<1>6. EndInv' BY DEF Finish, EndInv, SignalledStatus
<1>7. WatchInv' BY <1>1 DEF Finish, LifespanInv, WatchInv, watcherVars, signalVars
<1> QED BY <1>5, <1>6, <1>7 DEF LifespanInv

LEMMA PollFacts ==
  ASSUME LifespanInv, Poll
  PROVE  /\ confirmed' \in 0..2 /\ quiet' \in 0..Grace
         /\ confirmed' > 0 => missing'
         /\ signalled' # signalled =>
              inFlight = 0 /\ quiet' = Grace /\ missing /\ missing' /\ ~tearing
<1>1. PICK misread \in BOOLEAN :
        LET missed == parent # "here" \/ misread IN
        /\ missing' = missed /\ confirmed' = Confirmations(missed)
        /\ quiet' = IF quiet < Grace THEN quiet + 1 ELSE Grace
        /\ IF confirmed' = 2 /\ missed /\ inFlight = 0 /\ quiet' = Grace
           THEN watch' = "off" /\ Triggered
           ELSE UNCHANGED <<watch, signalled, watchdog, landing>>
  BY DEF Poll
<1> DEFINE missed == parent # "here" \/ misread
<1>2. missing' = missed /\ confirmed' = Confirmations(missed) /\ missed \in BOOLEAN BY <1>1
<1>3. quiet' = IF quiet < Grace THEN quiet + 1 ELSE Grace BY <1>1
<1>4. signalled' # signalled => /\ confirmed' = 2 /\ missed /\ inFlight = 0 /\ quiet' = Grace
                                /\ Triggered
  BY <1>1
<1> HIDE DEF missed
<1>5. Grace \in Nat BY LifespanAssumption
<1>6. confirmed \in 0..2 /\ quiet \in 0..Grace /\ (confirmed > 0 => missing)
  BY DEF LifespanInv, WatchInv
<1>7. confirmed' = IF missed THEN IF confirmed < 2 THEN confirmed + 1 ELSE 2 ELSE 0
  BY <1>2 DEF Confirmations
<1>8. confirmed' \in 0..2 /\ (confirmed' > 0 => missing') BY <1>2, <1>6, <1>7
<1>9. quiet' \in 0..Grace BY <1>3, <1>5, <1>6
<1>10. confirmed' = 2 => confirmed > 0 BY <1>6, <1>7
<1>11. Triggered /\ signalled' # signalled => ~tearing BY DEF Triggered
<1> QED BY <1>2, <1>4, <1>6, <1>8, <1>9, <1>10, <1>11

LEMMA PollKeeps == ASSUME LifespanInv, Poll PROVE LifespanInv'
<1>1. UNCHANGED <<stage, step, opened, attempted, cut, swept, exit, tearing>>
  BY DEF Poll, closeVars
<1>2. TeardownInv' BY <1>1, TeardownUndisturbed DEF LifespanInv
<1>3. EndInv' BY <1>1 DEF LifespanInv, EndInv
<1>4. WatchInv' BY <1>1, PollFacts DEF LifespanInv, WatchInv
<1> QED BY <1>2, <1>3, <1>4 DEF LifespanInv

LEMMA SignalKeeps == ASSUME LifespanInv, FirstSignal \/ SecondSignal \/ Fires PROVE LifespanInv'
<1>1. UNCHANGED <<stage, step, opened, attempted, cut, tearing>>
  BY DEF FirstSignal, SecondSignal, Fires, closeVars, signalVars
<1>2. TeardownInv' BY <1>1, TeardownUndisturbed DEF LifespanInv
<1>3. EndInv' BY <1>1 DEF LifespanInv, EndInv, FirstSignal, SecondSignal, Fires, closeVars
<1>4. WatchInv'
  <2>1. \/ UNCHANGED <<confirmed, missing, quiet>>
        \/ confirmed' = 0 /\ missing' = FALSE /\ quiet' = 0
    BY DEF FirstSignal, SecondSignal, Fires, Unwatched, watcherVars
  <2> QED BY <1>1, <2>1, LifespanAssumption DEF LifespanInv, WatchInv
<1> QED BY <1>2, <1>3, <1>4 DEF LifespanInv

(* The frames, the parent's end, a step that hangs, a cancellation that is *)
(* absorbed and a watchdog whose budget ends.                              *)
LEMMA LifespanQuiet ==
  ASSUME LifespanInv,
         UNCHANGED <<stage, step, opened, attempted, cut, swept, exit, tearing, confirmed, missing>>,
         quiet' \in {quiet, 0}
  PROVE  LifespanInv'
<1>1. TeardownInv' BY TeardownUndisturbed DEF LifespanInv
<1>2. EndInv' BY DEF LifespanInv, EndInv
<1>3. WatchInv' BY LifespanAssumption DEF LifespanInv, WatchInv
<1> QED BY <1>1, <1>2, <1>3 DEF LifespanInv

LEMMA LifespanSteady == LifespanInv /\ [LifespanNext]_lifespanVars => LifespanInv'
<1> SUFFICES ASSUME LifespanInv, [LifespanNext]_lifespanVars PROVE LifespanInv'
  OBVIOUS
<1>1. CASE StartEnds BY <1>1, StartKeeps
<1>2. CASE StartFails BY <1>2, EnteringKeeps DEF StartFails
<1>3. CASE ServingEnds BY <1>3, EnteringKeeps DEF ServingEnds
<1>4. CASE CancelLands BY <1>4, EnteringKeeps DEF CancelLands
<1>5. CASE CancelAbsorbed BY <1>5, LifespanQuiet DEF CancelAbsorbed, closeVars, watcherVars
<1>6. CASE StepEnds BY <1>6, StepKeeps
<1>7. CASE StepHangs BY <1>7, LifespanQuiet DEF StepHangs, signalVars, watcherVars
<1>8. CASE CutShort BY <1>8, CutKeeps
<1>9. CASE Finish BY <1>9, FinishKeeps
<1>10. CASE TimesOut BY <1>10, LifespanQuiet DEF TimesOut, closeVars, signalVars, watcherVars
<1>11. CASE Fires \/ FirstSignal \/ SecondSignal BY <1>11, SignalKeeps
<1>12. CASE FrameArrives BY <1>12, LifespanQuiet DEF FrameArrives, closeVars, signalVars
<1>13. CASE FrameServed BY <1>13, LifespanQuiet DEF FrameServed, closeVars, signalVars
<1>14. CASE ParentGoes BY <1>14, LifespanQuiet DEF ParentGoes, closeVars, signalVars
<1>15. CASE Poll BY <1>15, PollKeeps
<1>16. CASE UNCHANGED lifespanVars
  BY <1>16, LifespanQuiet DEF lifespanVars, closeVars, signalVars, watcherVars
<1> QED BY <1>1, <1>2, <1>3, <1>4, <1>5, <1>6, <1>7, <1>8, <1>9, <1>10, <1>11, <1>12, <1>13, <1>14,
           <1>15, <1>16 DEF LifespanNext

LEMMA LifespanInvSound == LifespanInv => LifespanIsSound
<1> SUFFICES ASSUME LifespanInv PROVE LifespanIsSound
  OBVIOUS
<1>1. PICK n \in 1..10 : attempted = Before(n) \cap opened /\ (~cut => n = step)
  BY DEF LifespanInv, TeardownInv, TriedInOrder
<1>2. ASSUME NEW u \in Uses, u[2] \in attempted, u[1] \in opened PROVE u[1] \in attempted
  BY <1>1, <1>2, UsersFirst
<1>3. stage = "over" /\ ~cut => opened \subseteq attempted
  BY <1>1, BeforeAll DEF LifespanInv, TeardownInv
<1>4. exit \notin {"running", "fired"} => swept BY DEF LifespanInv, EndInv
<1> QED BY <1>2, <1>3, <1>4 DEF LifespanIsSound

(* However the process starts, serves and is told to go, whatever of its   *)
(* teardown hangs, fails or is cut: a resource is closed behind its users, *)
(* none is missed unless it is cut, and leaked children are looked for     *)
(* (app_lifespan, _begin_shutdown, TeardownWatchdog._fire).                *)
THEOREM LifespanStaysSound == LifespanSpec => []LifespanIsSound
BY LifespanStarts, LifespanSteady, LifespanInvSound, PTL DEF LifespanSpec

LEMMA ShutdownsCalledFor ==
  ASSUME LifespanInv, LifespanNext, signalled' # signalled
  PROVE  /\ stage # "teardown"
         /\ Poll => inFlight = 0 /\ quiet' = Grace /\ missing /\ missing'
<1>1. FirstSignal \/ Poll
  BY DEF LifespanNext, StartEnds, StartFails, ServingEnds, CancelLands, CancelAbsorbed, StepEnds,
         StepHangs, CutShort, Finish, TimesOut, Fires, SecondSignal, FrameArrives, FrameServed,
         ParentGoes, signalVars
<1>2. ~tearing BY <1>1, PollFacts DEF FirstSignal
<1>3. stage # "teardown" BY <1>2 DEF LifespanInv, WatchInv
<1> QED BY <1>3, PollFacts

(* No shutdown begins in a teardown, and the watcher takes no client for   *)
(* gone that is served, was heard within the grace, or was seen at one of  *)
(* the last two samples (ShutdownSignals.trigger,                          *)
(* ParentLivenessWatcher.run).                                             *)
THEOREM ShutdownsAreCalledFor == LifespanSpec => ShutdownIsCalledFor
<1>1. LifespanInv /\ [LifespanNext]_lifespanVars =>
        [signalled' # signalled =>
           /\ stage # "teardown"
           /\ Poll => inFlight = 0 /\ quiet' = Grace /\ missing /\ missing']_lifespanVars
  BY ShutdownsCalledFor
<1>2. LifespanSpec => []LifespanInv BY LifespanStarts, LifespanSteady, PTL DEF LifespanSpec
<1> QED BY <1>1, <1>2, PTL DEF LifespanSpec, ShutdownIsCalledFor
=============================================================================
