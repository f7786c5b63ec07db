----------------------------- MODULE DaemonProofs ------------------------------
(***************************************************************************)
(* What Daemon promises for any number of processes, commands and clients, *)
(* and after it what LtmAdapter does, whose searches a daemon serves.      *)
(* The lock and the record are tied to the processes first: a process is   *)
(* past the lock exactly when it holds it, a command holds it only inside  *)
(* its `with` block, and a record names a process that has published and   *)
(* has not removed it.                                                     *)
(***************************************************************************)
EXTENDS Daemon, LtmAdapter, TLAPS, SequenceTheorems

Owner == \A d \in Daemons : daemon[d] \in Owning <=> lock = d

Holders ==
  \A c \in Commands :
    /\ pc[c] \in {"probing", "settling", "absent", "stale"} => lock = c
    /\ lock = c => pc[c] \in {"probing", "settling", "absent", "stale", "stopped"}

Recorded ==
  \A d \in Daemons :
    /\ daemon[d] \in Published => record = d
    /\ record = d => daemon[d] \in Published \cup {"gone"}

(* What a stop has read or waits for has been published.                   *)
Past(x) == x \in Daemons => daemon[x] \in Published \cup {"cleared", "gone"}

Remembered == \A c \in Commands : Past(raw[c]) /\ Past(told[c])

Working ==
  \A c \in Clients :
    phase[c] \in Open => /\ peer[c] \in Daemons
                         /\ daemon[peer[c]] \in {"serving", "draining"}

Budget == \A c \in Commands : pc[c] \in {"probing", "spawn"} => spawns[c] < MaxSpawns

Typed == TypeOK /\ Budget
Inv == Typed /\ Owner /\ Holders /\ Recorded /\ Remembered /\ Working

USE DaemonAssumption DEF Commands

LEMMA InitInv == Init => Inv
  BY DEF Init, Inv, Typed, TypeOK, Budget, Owner, Holders, Recorded, Remembered,
     Past, Working, Owning, Published, Open

LEMMA TypedSignal == ASSUME Typed, NEW c \in Commands, Signal(c) PROVE Typed'
  <1>1. \/ UNCHANGED stopping
        \/ stopping' = [stopping EXCEPT ![raw[c]] = TRUE]
    BY DEF Signal
  <1>2. \E to \in {"await", "settle"} : pc' = [pc EXCEPT ![c] = to]
    BY DEF Signal, Move
  <1>3. UNCHANGED <<lock, record, daemon, raw, spawns, told, phase, peer>>
    BY DEF Signal, requests
  <1>4. stopping' \in [Daemons -> BOOLEAN]
    BY <1>1 DEF Typed, TypeOK
  <1>5. QED
    BY <1>2, <1>3, <1>4 DEF Typed, TypeOK, Budget, Open, Owning, Published

LEMMA TypedDeclined == ASSUME Typed, NEW c \in Commands, StopDeclined(c) PROVE Typed'
  <1>1. stopping' \in [Daemons -> BOOLEAN]
    <2>1. \/ UNCHANGED stopping
          \/ stopping' = [stopping EXCEPT ![told[c]] = TRUE]
      BY DEF StopDeclined
    <2>2. stopping \in [Daemons -> BOOLEAN]
      BY DEF Typed, TypeOK
    <2>3. QED
      BY <2>1, <2>2
  <1>2. pc' = [pc EXCEPT ![c] = "declined"] /\ told' = [told EXCEPT ![c] = raw[c]]
    BY DEF StopDeclined, Move
  <1>3. UNCHANGED <<lock, record, daemon, raw, spawns, phase, peer>>
    BY DEF StopDeclined, requests
  <1>4. QED
    BY <1>1, <1>2, <1>3 DEF Typed, TypeOK, Budget, Open, Owning, Published

LEMMA TypedStep ==
  ASSUME Typed, [Next]_vars
  PROVE  Typed'
<1>1. ASSUME NEW d \in Daemons, Serve(d) PROVE Typed'
  <2>1. CASE Acquire(d)
    BY <2>1 DEF Acquire, Turn, Typed, TypeOK, Budget, Open, Owning, Published,
       commands, requests
  <2>2. CASE LoseRace(d)
    BY <2>2 DEF
       LoseRace, Turn, Typed, TypeOK, Budget, Open, Owning, Published,
       commands, requests
  <2>3. CASE Build(d)
    BY <2>3 DEF
       Build, Turn, Typed, TypeOK, Budget, Open, Owning, Published, commands,
       requests
  <2>4. CASE Publish(d)
    BY <2>4 DEF Publish, Turn, Typed, TypeOK, Budget, Open, Owning, Published,
       commands, requests
  <2>5. CASE CloseListener(d)
    BY <2>5 DEF
       CloseListener, Turn, Typed, TypeOK, Budget, Open, Owning, Published,
       commands, requests
  <2>6. CASE Drain(d)
    BY <2>6 DEF
       Drain, Turn, Jobs, Typed, TypeOK, Budget, Open, Owning, Published,
       commands, requests
  <2>7. CASE Teardown(d)
    BY <2>7 DEF
       Teardown, Turn, Typed, TypeOK, Budget, Open, Owning, Published,
       commands, requests
  <2>8. CASE CheckOwner(d)
    BY <2>8 DEF
       CheckOwner, Turn, Typed, TypeOK, Budget, Open, Owning, Published,
       commands, requests
  <2>9. CASE Unlink(d)
    BY <2>9 DEF
       Unlink, Turn, Typed, TypeOK, Budget, Open, Owning, Published, commands,
       requests
  <2>10. CASE Release(d)
    BY <2>10 DEF
       Release, Turn, Typed, TypeOK, Budget, Open, Owning, Published,
       commands, requests
  <2>11. QED
    BY <1>1, <2>1, <2>2, <2>3, <2>4, <2>5, <2>6, <2>7, <2>8, <2>9, <2>10 DEF
       Serve
<1>2. ASSUME NEW d \in Daemons, GoIdle(d) PROVE Typed'
  BY <1>2 DEF
     GoIdle, Typed, TypeOK, Budget, Open, Owning, Published, commands,
     requests
<1>3. ASSUME NEW d \in Daemons, Crash(d) PROVE Typed'
  BY <1>3 DEF
     Crash, Alive, Jobs, Typed, TypeOK, Budget, Open, Owning, Published,
     commands, requests
<1>4. ASSUME NEW c \in Clients, Request(c) PROVE Typed'
  <2>1. CASE Connect(c)
    BY <2>1 DEF Connect, Shift, Accepts, Typed, TypeOK, Budget, Open, Owning,
       Published, commands, requests
  <2>2. CASE Admit(c)
    BY <2>2 DEF
       Admit, Shift, Hangup, Jobs, Admitted, Open, Typed, TypeOK, Budget,
       Owning, Published, commands, requests
  <2>3. CASE RunRequest(c)
    BY <2>3 DEF RunRequest, Shift, Jobs, Open, Typed, TypeOK, Budget, Owning,
       Published, commands, requests
  <2>4. CASE Answer(c)
    BY <2>4 DEF
       Answer, Shift, Hangup, Jobs, Admitted, Open, Typed, TypeOK, Budget,
       Owning, Published, commands, requests
  <2>5. CASE Expire(c)
    BY <2>5 DEF
       Expire, Shift, Hangup, Jobs, Admitted, Open, Typed, TypeOK, Budget,
       Owning, Published, commands, requests
  <2>6. QED
    BY <1>4, <2>1, <2>2, <2>3, <2>4, <2>5 DEF Request
<1>5. ASSUME NEW c \in Starts, Start(c) PROVE Typed'
  <2>1. CASE StartPings(c)
    BY <2>1 DEF
       StartPings, Move, Report, Accepts, Typed, TypeOK, Budget, Open, Owning,
       Published, commands, requests
  <2>2. CASE StartProbes(c)
    BY <2>2 DEF
       StartProbes, Move, Typed, TypeOK, Budget, Open, Owning, Published,
       commands, requests
  <2>3. CASE StartReleases(c)
    BY <2>3 DEF
       StartReleases, Move, Typed, TypeOK, Budget, Open, Owning, Published,
       commands, requests
  <2>4. CASE StartSpawns(c)
    BY <2>4 DEF StartSpawns, Move, Turn, Typed, TypeOK, Budget, Open, Owning,
       Published, commands, requests
  <2>5. CASE StartTimesOut(c)
    BY <2>5 DEF
       StartTimesOut, Move, Report, Typed, TypeOK, Budget, Open, Owning,
       Published, commands, requests
  <2>6. QED
    BY <1>5, <2>1, <2>2, <2>3, <2>4, <2>5 DEF Start
<1>6. ASSUME NEW c \in Stops, Stop(c) PROVE Typed'
  <2>1. CASE StopReads(c)
    BY <2>1 DEF
       StopReads, Move, Typed, TypeOK, Budget, Open, Owning, Published,
       commands, requests
  <2>2. CASE StopFinds(c)
    BY <2>2 DEF
       StopFinds, Move, Typed, TypeOK, Budget, Open, Owning, Published,
       commands, requests
  <2>3. CASE StopAcked(c)
    BY <2>3 DEF StopAcked, Move, Accepts, Typed, TypeOK, Budget, Open, Owning,
       Published, commands, requests
  <2>4. CASE StopDeclined(c)
    BY <2>4, TypedDeclined
  <2>5. CASE StopWithoutRecord(c)
    BY <2>5 DEF
       StopWithoutRecord, Move, Report, Typed, TypeOK, Budget, Open, Owning,
       Published, commands, requests
  <2>6. CASE StopWithRecord(c)
    BY <2>6 DEF
       StopWithRecord, Move, Accepts, Typed, TypeOK, Budget, Open, Owning,
       Published, commands, requests
  <2>7. CASE Signal(c)
    BY <2>7, TypedSignal
  <2>8. CASE StopConfirmed(c)
    BY <2>8 DEF
       StopConfirmed, Move, Report, Typed, TypeOK, Budget, Open, Owning,
       Published, commands, requests
  <2>9. CASE StopFindsNone(c)
    BY <2>9 DEF
       StopFindsNone, Move, Report, Typed, TypeOK, Budget, Open, Owning,
       Published, commands, requests
  <2>10. CASE StopTakesLock(c)
    BY <2>10 DEF
       StopTakesLock, Move, Typed, TypeOK, Budget, Open, Owning, Published,
       commands, requests
  <2>11. CASE Settle(c)
    BY <2>11 DEF
       Settle, Move, Report, Typed, TypeOK, Budget, Open, Owning, Published,
       commands, requests
  <2>12. CASE StopReleases(c)
    BY <2>12 DEF
       StopReleases, Move, Typed, TypeOK, Budget, Open, Owning, Published,
       commands, requests
  <2>13. CASE StopFails(c)
    BY <2>13 DEF StopFails, Move, Report, Typed, TypeOK, Budget, Open, Owning,
       Published, commands, requests
  <2>14. QED
    BY <1>6, <2>1, <2>2, <2>3, <2>4, <2>5, <2>6, <2>7, <2>8, <2>9, <2>10, <2>11, <2>12, <2>13 DEF
       Stop
<1>7. ASSUME NEW c \in StopAlls, StopAll(c) PROVE Typed'
  <2>1. CASE ListForeign(c)
    BY <2>1 DEF
       ListForeign, Move, Report, Typed, TypeOK, Budget, Open, Owning,
       Published, commands, requests
  <2>2. CASE Judge(c)
    BY <2>2 DEF
       Judge, Move, Report, Accepts, Typed, TypeOK, Budget, Open, Owning,
       Published, commands, requests
  <2>3. CASE Recheck(c)
    BY <2>3 DEF
       Recheck, Move, Accepts, Typed, TypeOK, Budget, Open, Owning, Published,
       commands, requests
  <2>4. CASE Peek(c)
    BY <2>4 DEF
       Peek, Move, Report, Typed, TypeOK, Budget, Open, Owning, Published,
       commands, requests
  <2>5. CASE Signal(c)
    BY <2>5, TypedSignal
  <2>6. CASE StopConfirmed(c)
    BY <2>6 DEF
       StopConfirmed, Move, Report, Typed, TypeOK, Budget, Open, Owning,
       Published, commands, requests
  <2>7. CASE ForeignFreed(c)
    BY <2>7 DEF
       ForeignFreed, Move, Report, Typed, TypeOK, Budget, Open, Owning,
       Published, commands, requests
  <2>8. CASE ForeignFails(c)
    BY <2>8 DEF
       ForeignFails, Move, Report, Typed, TypeOK, Budget, Open, Owning,
       Published, commands, requests
  <2>9. QED
    BY <1>7, <2>1, <2>2, <2>3, <2>4, <2>5, <2>6, <2>7, <2>8 DEF StopAll
<1>8. CASE UNCHANGED vars
  BY <1>8 DEF
     vars, Typed, TypeOK, Budget, Open, Owning, Published, commands, requests
<1>9. QED
  BY <1>1, <1>2, <1>3, <1>4, <1>5, <1>6, <1>7, <1>8 DEF Next

LEMMA OwnersKept ==
  ASSUME Typed, Owner, Holders, [Next]_vars
  PROVE  (Owner /\ Holders)'
<1>1. ASSUME NEW d \in Daemons, Serve(d) PROVE (Owner /\ Holders)'
  <2>1. CASE Acquire(d)
    BY <2>1 DEF
       Acquire, Turn, Typed, TypeOK, Owner, Holders, Owning, Published,
       commands, requests
  <2>2. CASE LoseRace(d)
    BY <2>2 DEF
       LoseRace, Turn, Typed, TypeOK, Owner, Holders, Owning, Published,
       commands, requests
  <2>3. CASE Build(d)
    BY <2>3 DEF Build, Turn, Typed, TypeOK, Owner, Holders, Owning, Published,
       commands, requests
  <2>4. CASE Publish(d)
    BY <2>4 DEF
       Publish, Turn, Typed, TypeOK, Owner, Holders, Owning, Published,
       commands, requests
  <2>5. CASE CloseListener(d)
    BY <2>5 DEF
       CloseListener, Turn, Typed, TypeOK, Owner, Holders, Owning, Published,
       commands, requests
  <2>6. CASE Drain(d)
    BY <2>6 DEF
       Drain, Turn, Jobs, Typed, TypeOK, Owner, Holders, Owning, Published,
       commands, requests
  <2>7. CASE Teardown(d)
    BY <2>7 DEF
       Teardown, Turn, Typed, TypeOK, Owner, Holders, Owning, Published,
       commands, requests
  <2>8. CASE CheckOwner(d)
    BY <2>8 DEF
       CheckOwner, Turn, Typed, TypeOK, Owner, Holders, Owning, Published,
       commands, requests
  <2>9. CASE Unlink(d)
    BY <2>9 DEF
       Unlink, Turn, Typed, TypeOK, Owner, Holders, Owning, Published,
       commands, requests
  <2>10. CASE Release(d)
    BY <2>10 DEF
       Release, Turn, Typed, TypeOK, Owner, Holders, Owning, Published,
       commands, requests
  <2>11. QED
    BY <1>1, <2>1, <2>2, <2>3, <2>4, <2>5, <2>6, <2>7, <2>8, <2>9, <2>10 DEF
       Serve
<1>2. ASSUME NEW d \in Daemons, GoIdle(d) PROVE (Owner /\ Holders)'
  BY <1>2 DEF
     GoIdle, Typed, TypeOK, Owner, Holders, Owning, Published, commands,
     requests
<1>3. ASSUME NEW d \in Daemons, Crash(d) PROVE (Owner /\ Holders)'
  BY <1>3 DEF
     Crash, Alive, Jobs, Typed, TypeOK, Owner, Holders, Owning, Published,
     commands, requests
<1>4. ASSUME NEW c \in Clients, Request(c) PROVE (Owner /\ Holders)'
  BY <1>4 DEF
     Request, Connect, Shift, Accepts, Admit, Hangup, Jobs, Admitted, Open,
     RunRequest, Answer, Expire, Typed, TypeOK, Owner, Holders, Owning,
     Published, commands, requests
<1>5. ASSUME NEW c \in Starts, Start(c) PROVE (Owner /\ Holders)'
  <2>1. CASE StartPings(c)
    BY <2>1 DEF
       StartPings, Move, Report, Accepts, Typed, TypeOK, Owner, Holders,
       Owning, Published, commands, requests
  <2>2. CASE StartProbes(c)
    BY <2>2 DEF
       StartProbes, Move, Typed, TypeOK, Owner, Holders, Owning, Published,
       commands, requests
  <2>3. CASE StartReleases(c)
    BY <2>3 DEF
       StartReleases, Move, Typed, TypeOK, Owner, Holders, Owning, Published,
       commands, requests
  <2>4. CASE StartSpawns(c)
    BY <2>4 DEF
       StartSpawns, Move, Turn, Typed, TypeOK, Owner, Holders, Owning,
       Published, commands, requests
  <2>5. CASE StartTimesOut(c)
    BY <2>5 DEF
       StartTimesOut, Move, Report, Typed, TypeOK, Owner, Holders, Owning,
       Published, commands, requests
  <2>6. QED
    BY <1>5, <2>1, <2>2, <2>3, <2>4, <2>5 DEF Start
<1>6. ASSUME NEW c \in Stops, Stop(c) PROVE (Owner /\ Holders)'
  <2>1. CASE StopReads(c)
    BY <2>1 DEF
       StopReads, Move, Typed, TypeOK, Owner, Holders, Owning, Published,
       commands, requests
  <2>2. CASE StopFinds(c)
    BY <2>2 DEF
       StopFinds, Move, Typed, TypeOK, Owner, Holders, Owning, Published,
       commands, requests
  <2>3. CASE StopAcked(c)
    BY <2>3 DEF
       StopAcked, Move, Accepts, Typed, TypeOK, Owner, Holders, Owning,
       Published, commands, requests
  <2>4. CASE StopDeclined(c)
    BY <2>4 DEF
       StopDeclined, Move, Accepts, Typed, TypeOK, Owner, Holders, Owning,
       Published, commands, requests
  <2>5. CASE StopWithoutRecord(c)
    BY <2>5 DEF
       StopWithoutRecord, Move, Report, Typed, TypeOK, Owner, Holders, Owning,
       Published, commands, requests
  <2>6. CASE StopWithRecord(c)
    BY <2>6 DEF
       StopWithRecord, Move, Accepts, Typed, TypeOK, Owner, Holders, Owning,
       Published, commands, requests
  <2>7. CASE Signal(c)
    BY <2>7 DEF
       Signal, Move, Alive, Typed, TypeOK, Owner, Holders, Owning, Published,
       commands, requests
  <2>8. CASE StopConfirmed(c)
    BY <2>8 DEF
       StopConfirmed, Move, Report, Typed, TypeOK, Owner, Holders, Owning,
       Published, commands, requests
  <2>9. CASE StopFindsNone(c)
    BY <2>9 DEF
       StopFindsNone, Move, Report, Typed, TypeOK, Owner, Holders, Owning,
       Published, commands, requests
  <2>10. CASE StopTakesLock(c)
    BY <2>10 DEF
       StopTakesLock, Move, Typed, TypeOK, Owner, Holders, Owning, Published,
       commands, requests
  <2>11. CASE Settle(c)
    BY <2>11 DEF
       Settle, Move, Report, Typed, TypeOK, Owner, Holders, Owning, Published,
       commands, requests
  <2>12. CASE StopReleases(c)
    BY <2>12 DEF
       StopReleases, Move, Typed, TypeOK, Owner, Holders, Owning, Published,
       commands, requests
  <2>13. CASE StopFails(c)
    BY <2>13 DEF
       StopFails, Move, Report, Typed, TypeOK, Owner, Holders, Owning,
       Published, commands, requests
  <2>14. QED
    BY <1>6, <2>1, <2>2, <2>3, <2>4, <2>5, <2>6, <2>7, <2>8, <2>9, <2>10, <2>11, <2>12, <2>13 DEF
       Stop
<1>7. ASSUME NEW c \in StopAlls, StopAll(c) PROVE (Owner /\ Holders)'
  <2>1. CASE ListForeign(c)
    BY <2>1 DEF
       ListForeign, Move, Report, Typed, TypeOK, Owner, Holders, Owning,
       Published, commands, requests
  <2>2. CASE Judge(c)
    BY <2>2 DEF
       Judge, Move, Report, Accepts, Typed, TypeOK, Owner, Holders, Owning,
       Published, commands, requests
  <2>3. CASE Recheck(c)
    BY <2>3 DEF Recheck, Move, Accepts, Typed, TypeOK, Owner, Holders, Owning,
       Published, commands, requests
  <2>4. CASE Peek(c)
    BY <2>4 DEF
       Peek, Move, Report, Typed, TypeOK, Owner, Holders, Owning, Published,
       commands, requests
  <2>5. CASE Signal(c)
    BY <2>5 DEF
       Signal, Move, Alive, Typed, TypeOK, Owner, Holders, Owning, Published,
       commands, requests
  <2>6. CASE StopConfirmed(c)
    BY <2>6 DEF
       StopConfirmed, Move, Report, Typed, TypeOK, Owner, Holders, Owning,
       Published, commands, requests
  <2>7. CASE ForeignFreed(c)
    BY <2>7 DEF
       ForeignFreed, Move, Report, Typed, TypeOK, Owner, Holders, Owning,
       Published, commands, requests
  <2>8. CASE ForeignFails(c)
    BY <2>8 DEF
       ForeignFails, Move, Report, Typed, TypeOK, Owner, Holders, Owning,
       Published, commands, requests
  <2>9. QED
    BY <1>7, <2>1, <2>2, <2>3, <2>4, <2>5, <2>6, <2>7, <2>8 DEF StopAll
<1>8. CASE UNCHANGED vars
  BY <1>8 DEF
     vars, Typed, TypeOK, Owner, Holders, Owning, Published, commands,
     requests
<1>9. QED
  BY <1>1, <1>2, <1>3, <1>4, <1>5, <1>6, <1>7, <1>8 DEF Next

LEMMA RecordedStep ==
  ASSUME Typed, Owner, Holders, Recorded, [Next]_vars
  PROVE  Recorded'
<1>1. ASSUME NEW d \in Daemons, Serve(d) PROVE Recorded'
  <2>1. CASE Acquire(d)
    BY <2>1 DEF
       Acquire, Turn, Typed, TypeOK, Owner, Holders, Recorded, Owning,
       Published, commands, requests
  <2>2. CASE LoseRace(d)
    BY <2>2 DEF
       LoseRace, Turn, Typed, TypeOK, Owner, Holders, Recorded, Owning,
       Published, commands, requests
  <2>3. CASE Build(d)
    BY <2>3 DEF Build, Turn, Typed, TypeOK, Owner, Holders, Recorded, Owning,
       Published, commands, requests
  <2>4. CASE Publish(d)
    BY <2>4 DEF
       Publish, Turn, Typed, TypeOK, Owner, Holders, Recorded, Owning,
       Published, commands, requests
  <2>5. CASE CloseListener(d)
    BY <2>5 DEF
       CloseListener, Turn, Typed, TypeOK, Owner, Holders, Recorded, Owning,
       Published, commands, requests
  <2>6. CASE Drain(d)
    BY <2>6 DEF
       Drain, Turn, Jobs, Typed, TypeOK, Owner, Holders, Recorded, Owning,
       Published, commands, requests
  <2>7. CASE Teardown(d)
    BY <2>7 DEF
       Teardown, Turn, Typed, TypeOK, Owner, Holders, Recorded, Owning,
       Published, commands, requests
  <2>8. CASE CheckOwner(d)
    BY <2>8 DEF
       CheckOwner, Turn, Typed, TypeOK, Owner, Holders, Recorded, Owning,
       Published, commands, requests
  <2>9. CASE Unlink(d)
    BY <2>9 DEF Unlink, Turn, Typed, TypeOK, Owner, Holders, Recorded, Owning,
       Published, commands, requests
  <2>10. CASE Release(d)
    BY <2>10 DEF
       Release, Turn, Typed, TypeOK, Owner, Holders, Recorded, Owning,
       Published, commands, requests
  <2>11. QED
    BY <1>1, <2>1, <2>2, <2>3, <2>4, <2>5, <2>6, <2>7, <2>8, <2>9, <2>10 DEF
       Serve
<1>2. ASSUME NEW d \in Daemons, GoIdle(d) PROVE Recorded'
  BY <1>2 DEF
     GoIdle, Typed, TypeOK, Owner, Holders, Recorded, Owning, Published,
     commands, requests
<1>3. ASSUME NEW d \in Daemons, Crash(d) PROVE Recorded'
  BY <1>3 DEF
     Crash, Alive, Jobs, Typed, TypeOK, Owner, Holders, Recorded, Owning,
     Published, commands, requests
<1>4. ASSUME NEW c \in Clients, Request(c) PROVE Recorded'
  BY <1>4 DEF
     Request, Connect, Shift, Accepts, Admit, Hangup, Jobs, Admitted, Open,
     RunRequest, Answer, Expire, Typed, TypeOK, Owner, Holders, Recorded,
     Owning, Published, commands, requests
<1>5. ASSUME NEW c \in Starts, Start(c) PROVE Recorded'
  <2>1. CASE StartSpawns(c)
    BY <2>1 DEF
       StartSpawns, Move, Turn, Typed, TypeOK, Owner, Holders, Recorded,
       Owning, Published, commands, requests
  <2>2. CASE    StartPings(c) \/ StartProbes(c) \/ StartReleases(c)
             \/ StartTimesOut(c)
    BY <2>2 DEF StartPings, Move, Report, Accepts, StartProbes, StartReleases,
       StartTimesOut, Typed, TypeOK, Owner, Holders, Recorded, Owning,
       Published, commands, requests
  <2>3. QED
    BY <1>5, <2>1, <2>2 DEF Start
<1>6. ASSUME NEW c \in Stops, Stop(c) PROVE Recorded'
  <2>1. CASE Settle(c)
    BY <2>1 DEF
       Settle, Move, Report, Typed, TypeOK, Owner, Holders, Recorded, Owning,
       Published, commands, requests
  <2>2. CASE    StopReads(c) \/ StopFinds(c) \/ StopAcked(c)
             \/ StopDeclined(c) \/ StopWithoutRecord(c) \/ StopWithRecord(c)
             \/ Signal(c) \/ StopConfirmed(c) \/ StopFindsNone(c)
             \/ StopTakesLock(c) \/ StopReleases(c) \/ StopFails(c)
    BY <2>2 DEF StopReads, Move, StopFinds, StopAcked, Accepts, StopDeclined,
       StopWithoutRecord, Report, StopWithRecord, Signal, Alive,
       StopConfirmed, StopFindsNone, StopTakesLock, StopReleases, StopFails,
       Typed, TypeOK, Owner, Holders, Recorded, Owning, Published, commands,
       requests
  <2>3. QED
    BY <1>6, <2>1, <2>2 DEF Stop
<1>7. ASSUME NEW c \in StopAlls, StopAll(c) PROVE Recorded'
  BY <1>7 DEF
     StopAll, ListForeign, Move, Report, Judge, Accepts, Recheck, Peek,
     Signal, Alive, StopConfirmed, ForeignFreed, ForeignFails, Typed, TypeOK,
     Owner, Holders, Recorded, Owning, Published, commands, requests
<1>8. CASE UNCHANGED vars
  BY <1>8 DEF
     vars, Typed, TypeOK, Owner, Holders, Recorded, Owning, Published,
     commands, requests
<1>9. QED
  BY <1>1, <1>2, <1>3, <1>4, <1>5, <1>6, <1>7, <1>8 DEF Next

LEMMA RememberedStep ==
  ASSUME Typed, Recorded, Remembered, [Next]_vars
  PROVE  Remembered'
<1>1. ASSUME NEW d \in Daemons, Serve(d) PROVE Remembered'
  <2>1. CASE Acquire(d)
    BY <2>1 DEF
       Acquire, Turn, Typed, TypeOK, Recorded, Remembered, Past, Owning,
       Published, commands, requests
  <2>2. CASE LoseRace(d)
    BY <2>2 DEF
       LoseRace, Turn, Typed, TypeOK, Recorded, Remembered, Past, Owning,
       Published, commands, requests
  <2>3. CASE Build(d)
    BY <2>3 DEF
       Build, Turn, Typed, TypeOK, Recorded, Remembered, Past, Owning,
       Published, commands, requests
  <2>4. CASE Publish(d)
    BY <2>4 DEF
       Publish, Turn, Typed, TypeOK, Recorded, Remembered, Past, Owning,
       Published, commands, requests
  <2>5. CASE CloseListener(d)
    BY <2>5 DEF
       CloseListener, Turn, Typed, TypeOK, Recorded, Remembered, Past, Owning,
       Published, commands, requests
  <2>6. CASE Drain(d)
    BY <2>6 DEF
       Drain, Turn, Jobs, Typed, TypeOK, Recorded, Remembered, Past, Owning,
       Published, commands, requests
  <2>7. CASE Teardown(d)
    BY <2>7 DEF
       Teardown, Turn, Typed, TypeOK, Recorded, Remembered, Past, Owning,
       Published, commands, requests
  <2>8. CASE CheckOwner(d)
    BY <2>8 DEF
       CheckOwner, Turn, Typed, TypeOK, Recorded, Remembered, Past, Owning,
       Published, commands, requests
  <2>9. CASE Unlink(d)
    BY <2>9 DEF
       Unlink, Turn, Typed, TypeOK, Recorded, Remembered, Past, Owning,
       Published, commands, requests
  <2>10. CASE Release(d)
    BY <2>10 DEF
       Release, Turn, Typed, TypeOK, Recorded, Remembered, Past, Owning,
       Published, commands, requests
  <2>11. QED
    BY <1>1, <2>1, <2>2, <2>3, <2>4, <2>5, <2>6, <2>7, <2>8, <2>9, <2>10 DEF
       Serve
<1>2. ASSUME NEW d \in Daemons, GoIdle(d) PROVE Remembered'
  BY <1>2 DEF
     GoIdle, Typed, TypeOK, Recorded, Remembered, Past, Owning, Published,
     commands, requests
<1>3. ASSUME NEW d \in Daemons, Crash(d) PROVE Remembered'
  BY <1>3 DEF
     Crash, Alive, Jobs, Typed, TypeOK, Recorded, Remembered, Past, Owning,
     Published, commands, requests
<1>4. ASSUME NEW c \in Clients, Request(c) PROVE Remembered'
  BY <1>4 DEF
     Request, Connect, Shift, Accepts, Admit, Hangup, Jobs, Admitted, Open,
     RunRequest, Answer, Expire, Typed, TypeOK, Recorded, Remembered, Past,
     Owning, Published, commands, requests
<1>5. ASSUME NEW c \in Starts, Start(c) PROVE Remembered'
  <2>1. CASE StartPings(c)
    BY <2>1 DEF
       StartPings, Move, Report, Accepts, Typed, TypeOK, Recorded, Remembered,
       Past, Owning, Published, commands, requests
  <2>2. CASE StartSpawns(c)
    BY <2>2 DEF
       StartSpawns, Move, Turn, Typed, TypeOK, Recorded, Remembered, Past,
       Owning, Published, commands, requests
  <2>3. CASE StartTimesOut(c)
    BY <2>3 DEF
       StartTimesOut, Move, Report, Typed, TypeOK, Recorded, Remembered, Past,
       Owning, Published, commands, requests
  <2>4. CASE    StartProbes(c) \/ StartReleases(c)
    BY <2>4 DEF
       StartProbes, Move, StartReleases, Typed, TypeOK, Recorded, Remembered,
       Past, Owning, Published, commands, requests
  <2>5. QED
    BY <1>5, <2>1, <2>2, <2>3, <2>4 DEF Start
<1>6. ASSUME NEW c \in Stops, Stop(c) PROVE Remembered'
  <2>1. CASE StopReads(c)
    BY <2>1 DEF
       StopReads, Move, Typed, TypeOK, Recorded, Remembered, Past, Owning,
       Published, commands, requests
  <2>2. CASE StopFinds(c)
    BY <2>2 DEF
       StopFinds, Move, Typed, TypeOK, Recorded, Remembered, Past, Owning,
       Published, commands, requests
  <2>3. CASE StopDeclined(c)
    BY <2>3 DEF
       StopDeclined, Move, Accepts, Typed, TypeOK, Recorded, Remembered, Past,
       Owning, Published, commands, requests
  <2>4. CASE StopWithoutRecord(c)
    BY <2>4 DEF
       StopWithoutRecord, Move, Report, Typed, TypeOK, Recorded, Remembered,
       Past, Owning, Published, commands, requests
  <2>5. CASE StopConfirmed(c)
    BY <2>5 DEF
       StopConfirmed, Move, Report, Typed, TypeOK, Recorded, Remembered, Past,
       Owning, Published, commands, requests
  <2>6. CASE StopFindsNone(c)
    BY <2>6 DEF
       StopFindsNone, Move, Report, Typed, TypeOK, Recorded, Remembered, Past,
       Owning, Published, commands, requests
  <2>7. CASE Settle(c)
    BY <2>7 DEF
       Settle, Move, Report, Typed, TypeOK, Recorded, Remembered, Past,
       Owning, Published, commands, requests
  <2>8. CASE StopFails(c)
    BY <2>8 DEF
       StopFails, Move, Report, Typed, TypeOK, Recorded, Remembered, Past,
       Owning, Published, commands, requests
  <2>9. CASE    StopAcked(c) \/ StopWithRecord(c) \/ Signal(c)
             \/ StopTakesLock(c) \/ StopReleases(c)
    BY <2>9 DEF
       StopAcked, Move, Accepts, StopWithRecord, Signal, Alive, StopTakesLock,
       StopReleases, Typed, TypeOK, Recorded, Remembered, Past, Owning,
       Published, commands, requests
  <2>10. QED
    BY <1>6, <2>1, <2>2, <2>3, <2>4, <2>5, <2>6, <2>7, <2>8, <2>9 DEF Stop
<1>7. ASSUME NEW c \in StopAlls, StopAll(c) PROVE Remembered'
  <2>1. CASE ListForeign(c)
    BY <2>1 DEF
       ListForeign, Move, Report, Typed, TypeOK, Recorded, Remembered, Past,
       Owning, Published, commands, requests
  <2>2. CASE Judge(c)
    BY <2>2 DEF
       Judge, Move, Report, Accepts, Typed, TypeOK, Recorded, Remembered,
       Past, Owning, Published, commands, requests
  <2>3. CASE Peek(c)
    BY <2>3 DEF
       Peek, Move, Report, Typed, TypeOK, Recorded, Remembered, Past, Owning,
       Published, commands, requests
  <2>4. CASE StopConfirmed(c)
    BY <2>4 DEF
       StopConfirmed, Move, Report, Typed, TypeOK, Recorded, Remembered, Past,
       Owning, Published, commands, requests
  <2>5. CASE ForeignFreed(c)
    BY <2>5 DEF
       ForeignFreed, Move, Report, Typed, TypeOK, Recorded, Remembered, Past,
       Owning, Published, commands, requests
  <2>6. CASE ForeignFails(c)
    BY <2>6 DEF
       ForeignFails, Move, Report, Typed, TypeOK, Recorded, Remembered, Past,
       Owning, Published, commands, requests
  <2>7. CASE    Recheck(c) \/ Signal(c)
    BY <2>7 DEF
       Recheck, Move, Accepts, Signal, Alive, Typed, TypeOK, Recorded,
       Remembered, Past, Owning, Published, commands, requests
  <2>8. QED
    BY <1>7, <2>1, <2>2, <2>3, <2>4, <2>5, <2>6, <2>7 DEF StopAll
<1>8. CASE UNCHANGED vars
  BY <1>8 DEF
     vars, Typed, TypeOK, Recorded, Remembered, Past, Owning, Published,
     commands, requests
<1>9. QED
  BY <1>1, <1>2, <1>3, <1>4, <1>5, <1>6, <1>7, <1>8 DEF Next

LEMMA WorkingStep ==
  ASSUME Typed, Working, [Next]_vars
  PROVE  Working'
<1>1. ASSUME NEW d \in Daemons, Serve(d) PROVE Working'
  <2>1. CASE Acquire(d)
    BY <2>1 DEF
       Acquire, Turn, Typed, TypeOK, Working, Open, commands, requests
  <2>2. CASE LoseRace(d)
    BY <2>2 DEF
       LoseRace, Turn, Typed, TypeOK, Working, Open, commands, requests
  <2>3. CASE Build(d)
    BY <2>3 DEF Build, Turn, Typed, TypeOK, Working, Open, commands, requests
  <2>4. CASE Publish(d)
    BY <2>4 DEF
       Publish, Turn, Typed, TypeOK, Working, Open, commands, requests
  <2>5. CASE CloseListener(d)
    BY <2>5 DEF
       CloseListener, Turn, Typed, TypeOK, Working, Open, commands, requests
  <2>6. CASE Drain(d)
    BY <2>6 DEF
       Drain, Turn, Jobs, Typed, TypeOK, Working, Open, commands, requests
  <2>7. CASE Teardown(d)
    BY <2>7 DEF
       Teardown, Turn, Typed, TypeOK, Working, Open, commands, requests
  <2>8. CASE CheckOwner(d)
    BY <2>8 DEF
       CheckOwner, Turn, Typed, TypeOK, Working, Open, commands, requests
  <2>9. CASE Unlink(d)
    BY <2>9 DEF Unlink, Turn, Typed, TypeOK, Working, Open, commands, requests
  <2>10. CASE Release(d)
    BY <2>10 DEF
       Release, Turn, Typed, TypeOK, Working, Open, commands, requests
  <2>11. QED
    BY <1>1, <2>1, <2>2, <2>3, <2>4, <2>5, <2>6, <2>7, <2>8, <2>9, <2>10 DEF
       Serve
<1>2. ASSUME NEW d \in Daemons, GoIdle(d) PROVE Working'
  BY <1>2 DEF GoIdle, Typed, TypeOK, Working, Open, commands, requests
<1>3. ASSUME NEW d \in Daemons, Crash(d) PROVE Working'
  BY <1>3 DEF
     Crash, Alive, Jobs, Typed, TypeOK, Working, Open, commands, requests
<1>4. ASSUME NEW c \in Clients, Request(c) PROVE Working'
  <2>1. CASE Connect(c)
    BY <2>1 DEF
       Connect, Shift, Accepts, Typed, TypeOK, Working, Open, commands,
       requests
  <2>2. CASE Admit(c)
    BY <2>2 DEF
       Admit, Shift, Hangup, Jobs, Admitted, Open, Typed, TypeOK, Working,
       commands, requests
  <2>3. CASE RunRequest(c)
    BY <2>3 DEF
       RunRequest, Shift, Jobs, Open, Typed, TypeOK, Working, commands,
       requests
  <2>4. CASE Answer(c)
    BY <2>4 DEF
       Answer, Shift, Hangup, Jobs, Admitted, Open, Typed, TypeOK, Working,
       commands, requests
  <2>5. CASE Expire(c)
    BY <2>5 DEF
       Expire, Shift, Hangup, Jobs, Admitted, Open, Typed, TypeOK, Working,
       commands, requests
  <2>6. QED
    BY <1>4, <2>1, <2>2, <2>3, <2>4, <2>5 DEF Request
<1>5. ASSUME NEW c \in Starts, Start(c) PROVE Working'
  <2>1. CASE StartSpawns(c)
    BY <2>1 DEF
       StartSpawns, Move, Turn, Typed, TypeOK, Working, Open, commands,
       requests
  <2>2. CASE    StartPings(c) \/ StartProbes(c) \/ StartReleases(c)
             \/ StartTimesOut(c)
    BY <2>2 DEF StartPings, Move, Report, Accepts, StartProbes, StartReleases,
       StartTimesOut, Typed, TypeOK, Working, Open, commands, requests
  <2>3. QED
    BY <1>5, <2>1, <2>2 DEF Start
<1>6. ASSUME NEW c \in Stops, Stop(c) PROVE Working'
  BY <1>6 DEF
     Stop, StopReads, Move, StopFinds, StopAcked, Accepts, StopDeclined,
     StopWithoutRecord, Report, StopWithRecord, Signal, Alive, StopConfirmed,
     StopFindsNone, StopTakesLock, Settle, StopReleases, StopFails, Typed,
     TypeOK, Working, Open, commands, requests
<1>7. ASSUME NEW c \in StopAlls, StopAll(c) PROVE Working'
  BY <1>7 DEF
     StopAll, ListForeign, Move, Report, Judge, Accepts, Recheck, Peek,
     Signal, Alive, StopConfirmed, ForeignFreed, ForeignFails, Typed, TypeOK,
     Working, Open, commands, requests
<1>8. CASE UNCHANGED vars
  BY <1>8 DEF vars, Typed, TypeOK, Working, Open, commands, requests
<1>9. QED
  BY <1>1, <1>2, <1>3, <1>4, <1>5, <1>6, <1>7, <1>8 DEF Next

LEMMA ReportStep ==
  ASSUME Inv, NEW k \in Stops \cup StopAlls, [Next]_vars
  PROVE  Truthful(k)
<1>1. ASSUME NEW d \in Daemons, Serve(d) PROVE Truthful(k)
  BY <1>1 DEF
     Serve, Acquire, Turn, LoseRace, Build, Publish, CloseListener, Drain,
     Jobs, Teardown, CheckOwner, Unlink, Release, Truthful, Inv, Typed,
     TypeOK, Owner, Holders, Recorded, Remembered, Past, Down, Owning,
     Published, commands, requests
<1>2. ASSUME NEW d \in Daemons, GoIdle(d) PROVE Truthful(k)
  BY <1>2 DEF GoIdle, Truthful, Inv, Typed, TypeOK, Owner, Holders, Recorded,
     Remembered, Past, Down, Owning, Published, commands, requests
<1>3. ASSUME NEW d \in Daemons, Crash(d) PROVE Truthful(k)
  BY <1>3 DEF
     Crash, Alive, Jobs, Truthful, Inv, Typed, TypeOK, Owner, Holders,
     Recorded, Remembered, Past, Down, Owning, Published, commands, requests
<1>4. ASSUME NEW c \in Clients, Request(c) PROVE Truthful(k)
  BY <1>4 DEF
     Request, Connect, Shift, Accepts, Admit, Hangup, Jobs, Admitted, Open,
     RunRequest, Answer, Expire, Truthful, Inv, Typed, TypeOK, Owner, Holders,
     Recorded, Remembered, Past, Down, Owning, Published, commands, requests
<1>5. ASSUME NEW c \in Starts, Start(c) PROVE Truthful(k)
  <2>1. CASE StartSpawns(c)
    BY <2>1 DEF
       StartSpawns, Move, Turn, Truthful, Inv, Typed, TypeOK, Owner, Holders,
       Recorded, Remembered, Past, Down, Owning, Published, commands, requests
  <2>2. CASE    StartPings(c) \/ StartProbes(c) \/ StartReleases(c)
             \/ StartTimesOut(c)
    BY <2>2 DEF StartPings, Move, Report, Accepts, StartProbes, StartReleases,
       StartTimesOut, Truthful, Inv, Typed, TypeOK, Owner, Holders, Recorded,
       Remembered, Past, Down, Owning, Published, commands, requests
  <2>3. QED
    BY <1>5, <2>1, <2>2 DEF Start
<1>6. ASSUME NEW c \in Stops, Stop(c) PROVE Truthful(k)
  <2>1. CASE StopConfirmed(c)
    BY <2>1 DEF
       StopConfirmed, Move, Report, Truthful, Inv, Typed, TypeOK, Owner,
       Holders, Recorded, Remembered, Past, Down, Owning, Published, commands,
       requests
  <2>2. CASE StopFindsNone(c)
    BY <2>2 DEF
       StopFindsNone, Move, Report, Truthful, Inv, Typed, TypeOK, Owner,
       Holders, Recorded, Remembered, Past, Down, Owning, Published, commands,
       requests
  <2>3. CASE Settle(c)
    BY <2>3 DEF
       Settle, Move, Report, Truthful, Inv, Typed, TypeOK, Owner, Holders,
       Recorded, Remembered, Past, Down, Owning, Published, commands, requests
  <2>4. CASE StopReleases(c)
    BY <2>4 DEF
       StopReleases, Move, Truthful, Inv, Typed, TypeOK, Owner, Holders,
       Recorded, Remembered, Past, Down, Owning, Published, commands, requests
  <2>5. CASE StopFails(c)
    BY <2>5 DEF
       StopFails, Move, Report, Truthful, Inv, Typed, TypeOK, Owner, Holders,
       Recorded, Remembered, Past, Down, Owning, Published, commands, requests
  <2>6. CASE    StopReads(c) \/ StopFinds(c) \/ StopAcked(c)
             \/ StopDeclined(c) \/ StopWithoutRecord(c) \/ StopWithRecord(c)
             \/ Signal(c) \/ StopTakesLock(c)
    BY <2>6 DEF StopReads, Move, StopFinds, StopAcked, Accepts, StopDeclined,
       StopWithoutRecord, Report, StopWithRecord, Signal, Alive,
       StopTakesLock, Truthful, Inv, Typed, TypeOK, Owner, Holders, Recorded,
       Remembered, Past, Down, Owning, Published, commands, requests
  <2>7. QED
    BY <1>6, <2>1, <2>2, <2>3, <2>4, <2>5, <2>6 DEF Stop
<1>7. ASSUME NEW c \in StopAlls, StopAll(c) PROVE Truthful(k)
  <2>1. CASE Peek(c)
    BY <2>1 DEF
       Peek, Move, Report, Truthful, Inv, Typed, TypeOK, Owner, Holders,
       Recorded, Remembered, Past, Down, Owning, Published, commands, requests
  <2>2. CASE StopConfirmed(c)
    BY <2>2 DEF
       StopConfirmed, Move, Report, Truthful, Inv, Typed, TypeOK, Owner,
       Holders, Recorded, Remembered, Past, Down, Owning, Published, commands,
       requests
  <2>3. CASE ForeignFreed(c)
    BY <2>3 DEF
       ForeignFreed, Move, Report, Truthful, Inv, Typed, TypeOK, Owner,
       Holders, Recorded, Remembered, Past, Down, Owning, Published, commands,
       requests
  <2>4. CASE    ListForeign(c) \/ Judge(c) \/ Recheck(c) \/ Signal(c)
             \/ ForeignFails(c)
    BY <2>4 DEF
       ListForeign, Move, Report, Judge, Accepts, Recheck, Signal, Alive,
       ForeignFails, Truthful, Inv, Typed, TypeOK, Owner, Holders, Recorded,
       Remembered, Past, Down, Owning, Published, commands, requests
  <2>5. QED
    BY <1>7, <2>1, <2>2, <2>3, <2>4 DEF StopAll
<1>8. CASE UNCHANGED vars
  BY <1>8 DEF
     vars, Truthful, Inv, Typed, TypeOK, Owner, Holders, Recorded, Remembered,
     Past, Down, Owning, Published, commands, requests
<1>9. QED
  BY <1>1, <1>2, <1>3, <1>4, <1>5, <1>6, <1>7, <1>8 DEF Next

LEMMA InvStep == ASSUME Inv, [Next]_vars PROVE Inv'
  BY TypedStep, OwnersKept, RecordedStep, RememberedStep, WorkingStep DEF Inv

LEMMA Invariance == Spec => []Inv
  <1>1. Inv /\ [Next]_vars => Inv'
    BY InvStep
  <1>2. QED
    BY InitInv, <1>1, PTL DEF Spec

(* Type correctness, for any processes, commands and clients.              *)
THEOREM DaemonTyped == Spec => []TypeOK
  <1>1. Inv => TypeOK
    BY DEF Inv, Typed
  <1>2. QED
    BY Invariance, <1>1, PTL

(* However many commands spawn children at once, at most one is past the   *)
(* lifetime lock.                                                          *)
THEOREM OneDaemon == Spec => []SingleOwner
  <1>1. Inv => SingleOwner
    BY DEF Inv, Owner, SingleOwner
  <1>2. QED
    BY Invariance, <1>1, PTL

(* A published daemon stays discoverable until its teardown is over.       *)
THEOREM RecordsLast == Spec => []RecordOutlivesTeardown
  <1>1. Inv => RecordOutlivesTeardown
    BY DEF Inv, Recorded, RecordOutlivesTeardown
  <1>2. QED
    BY Invariance, <1>1, PTL

(* No accepted request outlives the engine it runs on.                     *)
THEOREM WorkIsCovered == Spec => []EngineCoversWork
  <1>1. Inv => EngineCoversWork
    BY DEF Inv, Working, EngineCoversWork, Jobs
  <1>2. QED
    BY Invariance, <1>1, PTL

(* What a stop reports is so when it reports it.                           *)
THEOREM StopsTellTheTruth == Spec => ReportsAreTrue
  <1>1. Inv /\ [Next]_vars => [\A c \in Stops \cup StopAlls : Truthful(c)]_vars
    BY ReportStep
  <1>2. QED
    BY Invariance, <1>1, PTL DEF Spec, ReportsAreTrue

(* The invariants together, as the run checks them.                        *)
THEOREM DaemonStaysSound == Spec => []DaemonIsSound
BY DaemonTyped, OneDaemon, RecordsLast, WorkIsCovered, PTL DEF DaemonIsSound

-----------------------------------------------------------------------------
(***************************************************************************)
(* The adapter (LtmAdapter).  Its requests are served in turn by an owner  *)
(* whose contexts are its own; a session that is gone, though one was      *)
(* published, leaves a dirty mark, which only the one reconnect that may   *)
(* wait for the owner takes away; and a start that somebody still wants    *)
(* never waits behind it.                                                  *)
(***************************************************************************)
Reqs == [op: {"start", "reconnect", "close"}, who: Callers \cup {Warm, Nobody}, gen: 0..MaxGen]

Shaped(r) ==
  /\ r.op = "start" => r.gen = 0
  /\ r.op = "reconnect" => r.who = Nobody /\ r.gen \in Gens
  /\ r.op = "close" => r.who = Nobody /\ r.gen = 0

RequestsInv ==
  /\ queue \in Seq(Reqs) /\ \A i \in 1..Len(queue) : Shaped(queue[i])
  /\ current \in Reqs \cup {NoRequest} /\ Shaped(current)
  /\ owner.step \in {"absent", "idle", "dead"} => current = NoRequest
  /\ owner.step = "closing" => current.op \in {"reconnect", "close"}
  /\ owner.step = "starting" => current.op \in {"start", "reconnect"}
  /\ ~OwnerAlive => queue = <<>>

(* Whose contexts are open.                                                *)
ContextsInv ==
  /\ owner.step = "absent" <=> owner.id = 0
  /\ owner.id <= deaths + 1
  /\ owner.step = "dead" => owner.id <= deaths \/ Stopped
  /\ \A o \in Owners : o > owner.id => live[o] = 0
  /\ stack <= owner.id /\ (stack # 0 => live[stack] = 1)
  /\ OwnerAlive => stack \in {0, owner.id} /\ live[owner.id] = IF stack = owner.id THEN 1 ELSE 0
  /\ owner.step \in {"starting", "closing"} => stack = owner.id
  /\ owner.step = "starting" => session = 0
  /\ owner.step # "starting" => (stack # 0 <=> session # 0)
  /\ owner.step = "dead" /\ deaths = 0 => \A o \in Owners : live[o] = 0

(* A session that is gone left a mark, except after stop().                *)
MarksInv ==
  /\ session # 0 => session = generation
  /\ dirty # 0 => dirty = generation /\ generation < MaxGen
  /\ session = 0 /\ dirty = 0 /\ generation # 0 => Stopped /\ queue = <<>> /\ current = NoRequest
  /\ owner.step = "absent" => generation = 0

(* A start that somebody waits for.                                        *)
Held(r) == r.op = "start" /\ r.who # Nobody
NoneHeld == \A i \in 1..Len(queue) : ~Held(queue[i])

(* One reconnect at most, of the dirty generation and of its flight.       *)
Due(r) == r.gen = dirty /\ flights[r.gen] = "waiting"
ReconnectsInv ==
  /\ \A i \in 1..Len(queue) : queue[i].op = "reconnect" =>
       /\ Due(queue[i]) /\ current.op # "reconnect"
       /\ \A j \in 1..Len(queue) : queue[j].op = "reconnect" => i = j
       /\ \A j \in 1..Len(queue) : i < j => ~Held(queue[j])
  /\ current.op = "reconnect" => Due(current) /\ NoneHeld

StartsInv ==
  /\ current.op = "start" => dirty = 0
  /\ session = 0 /\ dirty # 0 => NoneHeld

Failed == failures > 0 \/ deaths > 0 \/ Stopped

Asked(c) == \/ current = AdapterRequest("start", c, 0)
            \/ \E i \in 1..Len(queue) : queue[i] = AdapterRequest("start", c, 0)

(* What the place of a caller says: who starts holds the lock and has      *)
(* asked, and whoever queues for it is served before the session moves.    *)
CallerFits(c) ==
  /\ startLock = c <=> caller[c].step = "starting"
  /\ caller[c].step \in {"rpc", "retry", "rejoining", "healing"} => caller[c].gen # 0
  /\ caller[c].step = "queued" /\ ~Stopped =>
       /\ session = 0 => dirty = 0
       /\ session # 0 => OwnerAlive
  /\ caller[c].step = "starting" =>
       /\ attempted
       /\ caller[c].result = "none" => Asked(c)
       /\ caller[c].result = "failed" => Failed
       /\ caller[c].result = "ok" => session # 0 \/ Failed

CallersInv == \A c \in Callers : CallerFits(c)
OffInv == attempted /\ startLock = Nobody /\ session = 0 => dirty # 0 \/ Failed

(* stop()'s close request comes last.                                      *)
StopInv ==
  /\ \A i \in 1..Len(queue) : queue[i].op = "close" => stop = "joining" /\ i = Len(queue)
  /\ current.op = "close" => stop = "joining" /\ queue = <<>>
  /\ stop = "joining" /\ OwnerAlive =>
       \/ queue # <<>> /\ queue[Len(queue)].op = "close"
       \/ queue = <<>> /\ (current.op = "close" \/ (owner.step = "idle" /\ stack = 0))
  /\ stop \in {"gathering", "done"} => ~OwnerAlive
  /\ stop # "no" /\ owner.step = "absent" => stop = "done"

AdapterInv ==
  /\ AdapterTypeOK /\ RequestsInv /\ ContextsInv /\ MarksInv /\ ReconnectsInv
  /\ StartsInv /\ CallersInv /\ OffInv /\ StopInv

(* A step of callers and flights alone.                                    *)
FlightsStay == \A g \in Gens : flights[g] = "waiting" => flights'[g] = "waiting"

LEMMA AdapterAtRest ==
  ASSUME AdapterInv, UNCHANGED <<sessionVars, ownerVars, stop>>, FlightsStay
  PROVE  RequestsInv' /\ ContextsInv' /\ MarksInv' /\ ReconnectsInv' /\ StartsInv' /\ StopInv'
<1>1. RequestsInv' BY DEF AdapterInv, RequestsInv, sessionVars, ownerVars, OwnerAlive
<1>2. ContextsInv' BY DEF AdapterInv, ContextsInv, sessionVars, ownerVars, OwnerAlive, Stopped
<1>3. MarksInv' BY DEF AdapterInv, MarksInv, sessionVars, ownerVars, Stopped
<1>4. ReconnectsInv'
  <2>1. ASSUME NEW r, r.gen \in Gens, Due(r)  PROVE Due(r)'
    BY <2>1 DEF Due, FlightsStay, sessionVars
  <2>2. \A i \in 1..Len(queue) : queue[i].op = "reconnect" => queue[i].gen \in Gens
    BY DEF AdapterInv, RequestsInv, Shaped
  <2>3. current.op = "reconnect" => current.gen \in Gens
    BY DEF AdapterInv, RequestsInv, Shaped
  <2> QED BY <2>1, <2>2, <2>3 DEF AdapterInv, ReconnectsInv, NoneHeld, sessionVars, ownerVars
<1>5. StartsInv' BY DEF AdapterInv, StartsInv, NoneHeld, sessionVars, ownerVars
<1>6. StopInv' BY DEF AdapterInv, StopInv, sessionVars, ownerVars, OwnerAlive
<1> QED BY <1>1, <1>2, <1>3, <1>4, <1>5, <1>6

LEMMA CallerRests ==
  ASSUME UNCHANGED <<sessionVars, ownerVars, stop>>, NEW c, CallerFits(c), caller'[c] = caller[c],
         startLock' = c <=> startLock = c, caller[c].step = "starting" => attempted' = attempted
  PROVE  CallerFits(c)'
<1>1. Asked(c) => Asked(c)' BY DEF Asked, sessionVars, ownerVars
<1> QED BY <1>1 DEF CallerFits, Failed, OwnerAlive, Stopped, sessionVars, ownerVars

(* What a caller that is nowhere near a start must satisfy.                *)
LEMMA CallerElsewhere ==
  ASSUME NEW c, caller'[c].step \in {"idle", "rpc", "retry", "rejoining", "healing"},
         startLock' # c, caller'[c].step # "idle" => caller'[c].gen # 0
  PROVE  CallerFits(c)'
BY DEF CallerFits

Places == {"idle", "queued", "starting", "healing", "rpc", "rejoining", "retry"}

(* A caller goes to an await that has nothing to do with a start.          *)
LEMMA CallerGoes ==
  ASSUME AdapterInv, NEW c \in Callers, NEW s \in {"idle", "rpc", "retry", "rejoining", "healing"},
         NEW g \in 0..MaxGen, s # "idle" => g # 0, Goes(c, s, g),
         UNCHANGED <<sessionVars, ownerVars, stop, attempted>>,
         startLock' = IF startLock = c THEN Nobody ELSE startLock
  PROVE  CallersInv' /\ caller' \in [Callers -> [step: Places, gen: 0..MaxGen, result: {"none", "ok", "failed"}]]
<1>1. caller \in [Callers -> [step: Places, gen: 0..MaxGen, result: {"none", "ok", "failed"}]]
  BY DEF AdapterInv, AdapterTypeOK, Places
<1>2. caller' \in [Callers -> [step: Places, gen: 0..MaxGen, result: {"none", "ok", "failed"}]]
  BY <1>1 DEF Goes, At, Places
<1>3. CallerFits(c)'
  <2>1. caller'[c] = At(s, g, "none") BY <1>1 DEF Goes
  <2>2. startLock' # c BY AdapterAssumption
  <2> QED BY <2>1, <2>2, CallerElsewhere DEF At
<1>4. ASSUME NEW d \in Callers, d # c  PROVE CallerFits(d)'
  <2>1. caller'[d] = caller[d] BY <1>1, <1>4 DEF Goes
  <2>2. startLock' = d <=> startLock = d BY <1>4, AdapterAssumption
  <2>3. CallerFits(d) BY DEF AdapterInv, CallersInv
  <2> QED BY <2>1, <2>2, <2>3, CallerRests
<1> QED BY <1>2, <1>3, <1>4 DEF CallersInv

(* The parts of a type that these steps can disturb.                       *)
LEMMA TypeAtRest ==
  ASSUME AdapterInv, UNCHANGED <<session, generation, ownerVars, gathering>>, dirty' \in 0..MaxGen,
         attempted' \in BOOLEAN, startLock' \in Callers \cup {Nobody}, stop' \in {"no", "joining", "gathering", "done"},
         warm' \in {"due", "waiting", "over"},
         flights' \in [Gens -> {"none", "new", "waiting", "ok", "failed"}],
         caller' \in [Callers -> [step: Places, gen: 0..MaxGen, result: {"none", "ok", "failed"}]]
  PROVE  AdapterTypeOK'
BY DEF AdapterInv, AdapterTypeOK, ownerVars, Places

LEMMA RestTyped ==
  ASSUME AdapterInv
  PROVE  /\ dirty \in 0..MaxGen /\ session \in 0..MaxGen /\ generation \in 0..MaxGen
         /\ attempted \in BOOLEAN /\ startLock \in Callers \cup {Nobody}
         /\ stop \in {"no", "joining", "gathering", "done"} /\ warm \in {"due", "waiting", "over"}
         /\ flights \in [Gens -> {"none", "new", "waiting", "ok", "failed"}]
         /\ caller \in [Callers -> [step: Places, gen: 0..MaxGen, result: {"none", "ok", "failed"}]]
         /\ 0 \in 0..MaxGen
BY AdapterAssumption DEF AdapterInv, AdapterTypeOK, Places

(* A call that moves on without the owner.                                 *)
LEMMA CallMoves ==
  ASSUME AdapterInv, NEW c \in Callers, NEW s \in {"idle", "rpc", "retry", "rejoining", "healing"},
         NEW g \in 0..MaxGen, s # "idle" => g # 0, Goes(c, s, g),
         UNCHANGED <<sessionVars, ownerVars, stop, gathering, attempted, warm>>, FlightsStay,
         flights' \in [Gens -> {"none", "new", "waiting", "ok", "failed"}],
         startLock' = IF startLock = c THEN Nobody ELSE startLock, OffInv'
  PROVE  AdapterInv'
<1>1. CallersInv' /\ caller' \in [Callers -> [step: Places, gen: 0..MaxGen, result: {"none", "ok", "failed"}]]
  BY CallerGoes
<1>2. startLock' \in Callers \cup {Nobody} BY RestTyped
<1>3. AdapterTypeOK' BY <1>1, <1>2, RestTyped, TypeAtRest DEF sessionVars
<1>4. RequestsInv' /\ ContextsInv' /\ MarksInv' /\ ReconnectsInv' /\ StartsInv' /\ StopInv'
  BY AdapterAtRest
<1> QED BY <1>1, <1>3, <1>4 DEF AdapterInv

(* What a caller knows of the lock, and the session of its generation.     *)
LEMMA CallerFacts ==
  ASSUME AdapterInv, NEW c \in Callers
  PROVE  /\ CallerFits(c) /\ caller[c].gen \in 0..MaxGen
         /\ session # 0 => generation # 0
BY RestTyped DEF AdapterInv, CallersInv, MarksInv

LEMMA OffAtRest ==
  ASSUME OffInv, UNCHANGED <<sessionVars, ownerVars, stop, attempted, startLock>>
  PROVE  OffInv'
BY DEF OffInv, Failed, Stopped, sessionVars, ownerVars

LEMMA CallDirtyStep ==
  ASSUME AdapterInv, NEW c \in Callers, CallDirty(c)
  PROVE  AdapterInv'
<1> USE DEF CallDirty, Joins
<1>1. OffInv' BY OffAtRest DEF AdapterInv
<1>2. startLock # c BY CallerFacts DEF CallerFits
<1>3. FlightsStay /\ flights' \in [Gens -> {"none", "new", "waiting", "ok", "failed"}]
  BY RestTyped DEF FlightsStay
<1> QED BY <1>1, <1>2, <1>3, RestTyped, CallMoves

LEMMA CallReadyStep ==
  ASSUME AdapterInv, NEW c \in Callers, CallReady(c)
  PROVE  AdapterInv'
<1> USE DEF CallReady
<1>1. OffInv' BY OffAtRest DEF AdapterInv
<1>2. startLock # c BY CallerFacts DEF CallerFits
<1>3. FlightsStay BY DEF FlightsStay
<1> QED BY <1>1, <1>2, <1>3, CallerFacts, RestTyped, CallMoves

LEMMA HealReturnsStep ==
  ASSUME AdapterInv, NEW c \in Callers, HealReturns(c)
  PROVE  AdapterInv'
<1> USE DEF HealReturns
<1>1. OffInv' BY OffAtRest DEF AdapterInv
<1>2. startLock # c BY CallerFacts DEF CallerFits
<1>3. FlightsStay BY DEF FlightsStay
<1>4. CASE Goes(c, "rpc", generation) /\ session # 0
  BY <1>1, <1>2, <1>3, <1>4, CallerFacts, RestTyped, CallMoves
<1>5. CASE Goes(c, "idle", 0)
  BY <1>1, <1>2, <1>3, <1>5, RestTyped, CallMoves
<1> QED BY <1>4, <1>5

LEMMA RejoinReturnsStep ==
  ASSUME AdapterInv, NEW c \in Callers, RejoinReturns(c)
  PROVE  AdapterInv'
<1> USE DEF RejoinReturns
<1>1. OffInv' BY OffAtRest DEF AdapterInv
<1>2. startLock # c BY CallerFacts DEF CallerFits
<1>3. FlightsStay BY DEF FlightsStay
<1>4. CASE Goes(c, "retry", generation) /\ session # 0
  BY <1>1, <1>2, <1>3, <1>4, CallerFacts, RestTyped, CallMoves
<1>5. CASE Goes(c, "idle", 0)
  BY <1>1, <1>2, <1>3, <1>5, RestTyped, CallMoves
<1> QED BY <1>4, <1>5

LEMMA RpcEndsStep ==
  ASSUME AdapterInv, NEW c \in Callers, RpcEnds(c)
  PROVE  AdapterInv'
<1> USE DEF RpcEnds
<1>1. OffInv' BY OffAtRest DEF AdapterInv
<1>2. startLock # c BY CallerFacts DEF CallerFits
<1>3. FlightsStay BY DEF FlightsStay
<1> QED BY <1>1, <1>2, <1>3, RestTyped, CallMoves

(* A start that has returned: without a session it has failed.             *)
LEMMA StartReturnsStep ==
  ASSUME AdapterInv, NEW c \in Callers, StartReturns(c)
  PROVE  AdapterInv'
<1> USE DEF StartReturns
<1>1. startLock = c BY CallerFacts DEF CallerFits
<1>2. OffInv'
  <2>1. caller[c].result \in {"ok", "failed"} BY RestTyped
  <2>2. session # 0 \/ Failed BY <2>1, CallerFacts DEF CallerFits
  <2> QED BY <2>2 DEF OffInv, Failed, Stopped, sessionVars, ownerVars
<1>3. FlightsStay BY DEF FlightsStay
<1>4. CASE Goes(c, "rpc", generation) /\ session # 0
  BY <1>1, <1>2, <1>3, <1>4, CallerFacts, RestTyped, CallMoves
<1>5. CASE Goes(c, "idle", 0)
  BY <1>1, <1>2, <1>3, <1>5, RestTyped, CallMoves
<1> QED BY <1>4, <1>5

LEMMA FlightEndsStep ==
  ASSUME AdapterInv, NEW g \in Gens, FlightEnds(g)
  PROVE  AdapterInv'
<1> USE DEF FlightEnds
<1>1. FlightsStay BY RestTyped DEF FlightsStay
<1>2. RequestsInv' /\ ContextsInv' /\ MarksInv' /\ ReconnectsInv' /\ StartsInv' /\ StopInv'
  BY <1>1, AdapterAtRest
<1>3. OffInv' BY OffAtRest DEF AdapterInv
<1>4. AdapterTypeOK'
  BY DEF AdapterInv, AdapterTypeOK, sessionVars, ownerVars, At, Gens
<1>5. ASSUME NEW c \in Callers  PROVE CallerFits(c)'
  <2>1. CallerFits(c) BY CallerFacts
  <2>2. CASE caller'[c] = caller[c] BY <2>1, <2>2, CallerRests
  <2>3. CASE caller'[c] # caller[c]
    <3>1. /\ caller[c].step \in {"healing", "rejoining"} /\ caller[c].gen = g
          /\ caller'[c] = At(caller[c].step, g, flights[g])
      BY <2>3 DEF Gens
    <3>2. startLock' # c BY <2>1, <3>1 DEF CallerFits
    <3>3. caller'[c].step \in {"healing", "rejoining"} /\ caller'[c].gen = g /\ g # 0
      BY <3>1 DEF At, Gens
    <3> QED BY <3>2, <3>3, CallerElsewhere
  <2> QED BY <2>2, <2>3
<1> QED BY <1>2, <1>3, <1>4, <1>5 DEF AdapterInv, CallersInv

FlightSkips(g) ==
  /\ flights[g] = "new"
  /\ dirty # g \/ Stopped
  /\ flights' = [flights EXCEPT ![g] = IF dirty # g THEN "ok" ELSE "failed"]
  /\ UNCHANGED <<sessionVars, ownerVars, attempted, startLock, caller, warm, stop, gathering>>

LEMMA FlightSkipsStep ==
  ASSUME AdapterInv, NEW g \in Gens, FlightSkips(g)
  PROVE  AdapterInv'
<1> USE DEF FlightSkips
<1>1. FlightsStay BY RestTyped DEF FlightsStay
<1>2. RequestsInv' /\ ContextsInv' /\ MarksInv' /\ ReconnectsInv' /\ StartsInv' /\ StopInv'
  BY <1>1, AdapterAtRest
<1>3. OffInv' BY OffAtRest DEF AdapterInv
<1>4. AdapterTypeOK' BY DEF AdapterInv, AdapterTypeOK, sessionVars, ownerVars
<1>5. ASSUME NEW c \in Callers  PROVE CallerFits(c)'
  BY CallerFacts, CallerRests
<1> QED BY <1>2, <1>3, <1>4, <1>5 DEF AdapterInv, CallersInv

(* A transport error of a call on generation g.                            *)
Marks(g) == dirty' = Marked(g) /\ UNCHANGED <<session, generation, ownerVars, stop, attempted, startLock>>

LEMMA MarkFacts ==
  ASSUME AdapterInv, NEW g \in 1..MaxGen, g < MaxGen, Marks(g)
  PROVE  /\ dirty' = dirty \/ (dirty = 0 /\ session = g /\ dirty' = session)
         /\ dirty' \in 0..MaxGen /\ MarksInv' /\ OffInv'
<1>1. dirty' = dirty \/ (dirty = 0 /\ session = g /\ dirty' = session)
  BY RestTyped DEF AdapterInv, MarksInv, Marks, Marked
<1>2. dirty' \in 0..MaxGen BY RestTyped DEF Marks, Marked
<1>3. MarksInv'
  BY <1>1, RestTyped DEF AdapterInv, MarksInv, Marks, Marked, ownerVars, Stopped
<1>4. OffInv' BY <1>1 DEF AdapterInv, OffInv, Marks, ownerVars, Failed, Stopped
<1> QED BY <1>1, <1>2, <1>3, <1>4

LEMMA MarkRests ==
  ASSUME AdapterInv, NEW g \in 1..MaxGen, g < MaxGen, Marks(g), FlightsStay
  PROVE  RequestsInv' /\ ContextsInv' /\ ReconnectsInv' /\ StartsInv' /\ StopInv'
<1> USE DEF Marks
<1>1. RequestsInv' BY DEF AdapterInv, RequestsInv, ownerVars, OwnerAlive
<1>2. ContextsInv' BY DEF AdapterInv, ContextsInv, ownerVars, OwnerAlive, Stopped
<1>3. ASSUME NEW r \in Reqs \cup {NoRequest}, Shaped(r), r.op = "reconnect", Due(r)  PROVE Due(r)'
  BY <1>3, MarkFacts DEF Due, FlightsStay, Shaped, Gens
<1>4. ReconnectsInv'
  <2>1. /\ \A i \in 1..Len(queue) : queue[i] \in Reqs /\ Shaped(queue[i])
        /\ current \in Reqs \cup {NoRequest} /\ Shaped(current)
    BY DEF AdapterInv, RequestsInv
  <2> QED BY <1>3, <2>1 DEF AdapterInv, ReconnectsInv, NoneHeld, ownerVars
<1>5. StartsInv'
  <2>1. current.op = "start" => session = 0
    BY DEF AdapterInv, RequestsInv, ContextsInv, NoRequest, AdapterRequest, AdapterTypeOK
  <2>2. session = 0 => dirty' = dirty BY MarkFacts
  <2>3. NoneHeld => NoneHeld' BY DEF NoneHeld, ownerVars
  <2> QED BY <2>1, <2>2, <2>3 DEF AdapterInv, StartsInv, ownerVars
<1>6. StopInv' BY DEF AdapterInv, StopInv, ownerVars, OwnerAlive
<1> QED BY <1>1, <1>2, <1>4, <1>5, <1>6

LEMMA MarkingCallMoves ==
  ASSUME AdapterInv, NEW c \in Callers, NEW g \in 1..MaxGen, g < MaxGen, Marks(g),
         caller[c].step # "starting",
         NEW s \in {"idle", "rejoining"}, NEW h \in 0..MaxGen, s # "idle" => h # 0, Goes(c, s, h),
         FlightsStay, flights' \in [Gens -> {"none", "new", "waiting", "ok", "failed"}],
         UNCHANGED <<warm, gathering>>
  PROVE  AdapterInv'
<1>1. caller' \in [Callers -> [step: Places, gen: 0..MaxGen, result: {"none", "ok", "failed"}]]
  BY RestTyped DEF Goes, At, Places
<1>2. AdapterTypeOK' BY <1>1, RestTyped, MarkFacts, TypeAtRest DEF Marks
<1>3. ASSUME NEW d \in Callers  PROVE CallerFits(d)'
  <2>1. CallerFits(d) BY CallerFacts
  <2>2. CASE d = c
    <3>1. caller'[c] = At(s, h, "none") BY RestTyped DEF Goes
    <3>2. startLock' # c BY <2>1, <2>2 DEF CallerFits, Marks
    <3> QED BY <2>2, <3>1, <3>2, CallerElsewhere DEF At
  <2>3. CASE d # c
    <3>1. caller'[d] = caller[d] BY <2>3, RestTyped DEF Goes
    <3>2. session = 0 => dirty' = dirty BY MarkFacts
    <3>3. Asked(d) => Asked(d)' BY DEF Asked, Marks, ownerVars
    <3> QED BY <2>1, <3>1, <3>2, <3>3 DEF CallerFits, Failed, OwnerAlive, Stopped, Marks, ownerVars
  <2> QED BY <2>2, <2>3
<1> QED BY <1>2, <1>3, MarkFacts, MarkRests DEF AdapterInv, CallersInv

LEMMA RpcBreaksStep ==
  ASSUME AdapterInv, NEW c \in Callers, RpcBreaks(c)
  PROVE  AdapterInv'
<1> DEFINE g == caller[c].gen
<1> USE DEF RpcBreaks, Joins
<1>1. g \in 1..MaxGen /\ g < MaxGen BY CallerFacts, AdapterAssumption DEF CallerFits
<1>2. Marks(g) BY DEF Marks
<1>3. FlightsStay /\ flights' \in [Gens -> {"none", "new", "waiting", "ok", "failed"}]
  BY <1>1, RestTyped DEF FlightsStay, Gens
<1> QED BY <1>1, <1>2, <1>3, MarkingCallMoves

LEMMA RetryBreaksStep ==
  ASSUME AdapterInv, NEW c \in Callers, RetryBreaks(c)
  PROVE  AdapterInv'
<1> DEFINE g == caller[c].gen
<1> USE DEF RetryBreaks
<1>1. g \in 1..MaxGen /\ g < MaxGen BY CallerFacts, AdapterAssumption DEF CallerFits
<1>2. Marks(g) BY DEF Marks
<1>3. FlightsStay BY DEF FlightsStay
<1> QED BY <1>1, <1>2, <1>3, RestTyped, MarkingCallMoves
-----------------------------------------------------------------------------
(* A request is queued by a caller, warm_up() or a flight.                 *)

(* Its queue is that of a live owner, or empty.                            *)
LEMMA QueueGrows ==
  ASSUME NEW r \in Reqs, Shaped(r), queue \in Seq(Reqs), queue' = Append(queue, r),
         \A i \in 1..Len(queue) : Shaped(queue[i])
  PROVE  /\ queue' \in Seq(Reqs) /\ Len(queue') = Len(queue) + 1 /\ Len(queue) \in Nat
         /\ \A i \in 1..Len(queue) : queue'[i] = queue[i]
         /\ queue'[Len(queue) + 1] = r
         /\ \A i \in 1..Len(queue') : Shaped(queue'[i])
<1>1. /\ queue' \in Seq(Reqs) /\ Len(queue') = Len(queue) + 1 /\ Len(queue) \in Nat
      /\ \A i \in 1..Len(queue) : queue'[i] = queue[i]
      /\ queue'[Len(queue) + 1] = r
  OBVIOUS
<1>2. ASSUME NEW i \in 1..Len(queue')  PROVE Shaped(queue'[i])
  <2>1. i \in 1..Len(queue) \/ i = Len(queue) + 1 BY <1>1
  <2> QED BY <1>1, <2>1
<1> QED BY <1>1, <1>2

LEMMA OwnerFacts ==
  ASSUME AdapterInv
  PROVE  /\ owner.id \in 0..MaxDeaths + 1 /\ deaths \in 0..MaxDeaths /\ failures \in 0..MaxFailures
         /\ owner.step \in {"absent", "idle", "closing", "starting", "dead"}
         /\ owner = [id |-> owner.id, step |-> owner.step]
         /\ stack \in 0..MaxDeaths + 1 /\ live \in [Owners -> 0..1]
         /\ queue \in Seq(Reqs) /\ current \in Reqs \cup {NoRequest}
BY AdapterAssumption DEF AdapterInv, AdapterTypeOK, RequestsInv, Owners

(* Who may queue: a start while nothing is dirty and no session is there,  *)
(* or the dirty generation's reconnect by its flight.                      *)
Allowed(r) ==
  \/ r.op = "start" /\ r.who # Nobody /\ session = 0 /\ dirty = 0 /\ flights' = flights
  \/ /\ r.op = "reconnect" /\ r.gen \in Gens /\ dirty = r.gen
     /\ flights[r.gen] # "waiting" /\ flights' = [flights EXCEPT ![r.gen] = "waiting"]

LEMMA SubmitOwner ==
  ASSUME AdapterInv, NEW r \in Reqs, Submit(r), stop' = stop, Allowed(r)
  PROVE  /\ ContextsInv' /\ MarksInv' /\ OwnerAlive' /\ ~Stopped /\ ~Stopped'
         /\ session # 0 /\ session' = 0 => queue = <<>> /\ deaths > 0 /\ ~OwnerAlive
         /\ session' = session \/ (session' = 0 /\ dirty # 0)
         /\ session' \in 0..MaxGen /\ stack' \in Owners \cup {0}
         /\ owner' \in [id: 0..MaxDeaths + 1, step: {"absent", "idle", "closing", "starting", "dead"}]
<1> USE DEF Submit
<1>0. ~Stopped /\ ~Stopped' /\ OwnerAlive' BY DEF Stopped, OwnerAlive
<1>1. CASE OwnerAlive
  <2>1. UNCHANGED <<owner, stack, session, live, current, failures, deaths, generation, dirty>> BY <1>1
  <2>2. ContextsInv' BY <2>1, <1>1 DEF AdapterInv, ContextsInv, OwnerAlive, Stopped
  <2>3. MarksInv' BY <2>1, <1>0 DEF AdapterInv, MarksInv
  <2> QED BY <1>0, <1>1, <2>1, <2>2, <2>3, RestTyped DEF AdapterInv, AdapterTypeOK
<1>2. CASE ~OwnerAlive
  <2>1. /\ owner' = [id |-> owner.id + 1, step |-> "idle"] /\ stack' = 0
        /\ session' = IF stack # 0 THEN 0 ELSE session
        /\ UNCHANGED <<live, current, failures, deaths, generation, dirty>>
    BY <1>2
  <2>2. owner.step \in {"absent", "dead"} BY <1>2, OwnerFacts DEF OwnerAlive
  <2>3. owner.id <= deaths /\ owner.id \in Nat /\ owner.id + 1 \in Owners
    <3>1. owner.step = "absent" => owner.id = 0 BY DEF AdapterInv, ContextsInv
    <3>2. owner.step = "dead" => owner.id <= deaths BY <1>0 DEF AdapterInv, ContextsInv
    <3> QED BY <2>2, <3>1, <3>2, OwnerFacts, AdapterAssumption DEF Owners
  <2>4. session' = 0 BY <2>1, <2>2 DEF AdapterInv, ContextsInv
  <2>5. live[owner.id + 1] = 0 BY <2>3 DEF AdapterInv, ContextsInv
  <2>6. ContextsInv'
    BY <2>1, <2>2, <2>3, <2>4, <2>5, <1>0, OwnerFacts DEF AdapterInv, ContextsInv, OwnerAlive, Owners
  <2>7. session # 0 => deaths > 0 /\ queue = <<>>
    BY <1>2, <2>2, <2>3, OwnerFacts DEF AdapterInv, ContextsInv, RequestsInv
  <2>8. session' = session \/ dirty # 0
    <3>1. CASE r.op = "start" BY <3>1, <2>4 DEF Allowed
    <3>2. CASE r.op = "reconnect" BY <3>2 DEF Allowed, Gens
    <3> QED BY <3>1, <3>2 DEF Allowed
  <2>9. MarksInv' BY <2>1, <2>4, <2>8, <1>0 DEF AdapterInv, MarksInv
  <2> QED BY <1>0, <1>2, <2>1, <2>3, <2>4, <2>6, <2>7, <2>8, <2>9, AdapterAssumption DEF Owners
<1> QED BY <1>1, <1>2

LEMMA SubmitQueue ==
  ASSUME AdapterInv, NEW r \in Reqs, Shaped(r), Submit(r), stop' = stop, Allowed(r)
  PROVE  RequestsInv' /\ ReconnectsInv' /\ StartsInv' /\ StopInv'
<1> USE DEF Submit
<1>1. /\ queue \in Seq(Reqs) /\ \A i \in 1..Len(queue) : Shaped(queue[i])
      /\ current \in Reqs \cup {NoRequest} /\ Shaped(current)
  BY DEF AdapterInv, RequestsInv
<1>2. /\ queue' \in Seq(Reqs) /\ Len(queue') = Len(queue) + 1 /\ Len(queue) \in Nat
      /\ \A i \in 1..Len(queue) : queue'[i] = queue[i]
      /\ queue'[Len(queue) + 1] = r
      /\ \A i \in 1..Len(queue') : Shaped(queue'[i])
  BY <1>1, QueueGrows
<1>3. \A i \in 1..Len(queue') : i \in 1..Len(queue) \/ i = Len(queue) + 1
  BY <1>2
<1>4. OwnerAlive' /\ ~Stopped /\ ~Stopped'
      /\ (session # 0 /\ session' = 0 => queue = <<>>) /\ (session' = session \/ session' = 0)
  BY SubmitOwner
<1>5. RequestsInv'
  <2>1. owner' = owner \/ (owner'.step = "idle" /\ ~OwnerAlive) OBVIOUS
  <2>2. owner'.step \in {"absent", "idle", "dead"} => current = NoRequest
    BY <2>1, OwnerFacts DEF AdapterInv, RequestsInv, OwnerAlive
  <2> QED BY <1>1, <1>2, <1>4, <2>1, <2>2 DEF AdapterInv, RequestsInv
<1>6. ASSUME NEW q \in Reqs \cup {NoRequest}, Shaped(q), q.op = "reconnect", Due(q)  PROVE FALSE
  BY <1>6 DEF Due, Allowed, Gens, Shaped
<1>7. \A i \in 1..Len(queue) : queue[i] \in Reqs BY <1>1
<1>8. /\ \A i \in 1..Len(queue) : queue[i].op # "reconnect"
      /\ current.op # "reconnect"
  BY <1>1, <1>6, <1>7 DEF AdapterInv, ReconnectsInv
<1>9. ReconnectsInv'
  <2>1. r.op = "reconnect" => Due(r)'
    BY RestTyped DEF Allowed, Due
  <2> QED BY <1>2, <1>3, <1>8, <2>1 DEF ReconnectsInv
<1>10. StartsInv'
  <2>1. session' = 0 /\ dirty # 0 => NoneHeld /\ ~Held(r)
    BY <1>1, <1>4 DEF AdapterInv, StartsInv, Allowed, Held, NoneHeld
  <2>2. NoneHeld /\ ~Held(r) => NoneHeld' BY <1>2, <1>3 DEF NoneHeld
  <2> QED BY <2>1, <2>2 DEF AdapterInv, StartsInv
<1>11. StopInv'
  <2>1. r.op # "close" BY DEF Allowed
  <2> QED BY <1>2, <1>3, <1>4, <2>1 DEF AdapterInv, StopInv, Stopped
<1> QED BY <1>5, <1>9, <1>10, <1>11

(* The callers that did not queue it, and what a failure explains.         *)
LEMMA SubmitOthers ==
  ASSUME AdapterInv, NEW r \in Reqs, Shaped(r), Submit(r), stop' = stop, Allowed(r)
  PROVE  /\ \A c \in Callers : Asked(c) => Asked(c)'
         /\ r \in {queue'[i] : i \in 1..Len(queue')}
         /\ session' = 0 /\ session # 0 => Failed'
<1>1. /\ Len(queue') = Len(queue) + 1 /\ Len(queue) \in Nat
      /\ \A i \in 1..Len(queue) : queue'[i] = queue[i]
      /\ queue'[Len(queue) + 1] = r
  BY QueueGrows DEF AdapterInv, RequestsInv, Submit
<1>2. ASSUME NEW c \in Callers, Asked(c)  PROVE Asked(c)'
  BY <1>1, <1>2 DEF Asked, Submit
<1>3. /\ OwnerAlive' /\ ~Stopped /\ (session # 0 /\ session' = 0 => deaths > 0 /\ ~OwnerAlive)
      /\ (session' = session \/ session' = 0)
  BY SubmitOwner
<1>4. session' = 0 /\ session # 0 => Failed' BY <1>3 DEF Failed, Submit
<1> QED BY <1>1, <1>2, <1>4

LEMMA SubmitLeaves ==
  ASSUME AdapterInv, NEW r \in Reqs, Shaped(r), Submit(r), stop' = stop, Allowed(r),
         NEW c \in Callers, caller'[c] = caller[c], startLock' = c <=> startLock = c,
         caller[c].step = "starting" => attempted' = attempted
  PROVE  CallerFits(c)'
<1>1. CallerFits(c) BY CallerFacts
<1>2. Failed => Failed' BY DEF Failed, Submit, Stopped
<1>3. dirty' = dirty BY DEF Submit
<1>4. OwnerAlive' /\ ~Stopped /\ (session' = session \/ session' = 0) /\ (session # 0 /\ session' = 0 => ~OwnerAlive)
  BY SubmitOwner
<1> QED BY <1>1, <1>2, <1>3, <1>4, SubmitOthers DEF CallerFits

LEMMA OpsOfRequests ==
  ASSUME NEW q \in Seq(Reqs)
  PROVE  \A i \in DOMAIN q : q[i].op \in {"start", "reconnect", "close"}
<1>1. \A i \in DOMAIN q : q[i] \in Reqs OBVIOUS
<1> QED BY <1>1 DEF Reqs

LEMMA SubmitTyped ==
  ASSUME AdapterInv, NEW r \in Reqs, Shaped(r), Submit(r), UNCHANGED <<stop, gathering>>, Allowed(r),
         attempted' \in BOOLEAN, startLock' \in Callers \cup {Nobody},
         warm' \in {"due", "waiting", "over"},
         caller' \in [Callers -> [step: Places, gen: 0..MaxGen, result: {"none", "ok", "failed"}]]
  PROVE  AdapterTypeOK'
<1>1. flights' \in [Gens -> {"none", "new", "waiting", "ok", "failed"}]
  BY RestTyped DEF Allowed
<1>2. /\ session' \in 0..MaxGen /\ stack' \in Owners \cup {0}
      /\ owner' \in [id: 0..MaxDeaths + 1, step: {"absent", "idle", "closing", "starting", "dead"}]
  BY SubmitOwner
<1>3. \A i \in DOMAIN queue' : queue'[i].op \in {"start", "reconnect", "close"}
  <2>1. queue' \in Seq(Reqs) BY SubmitQueue DEF RequestsInv
  <2> QED BY <2>1, OpsOfRequests
<1> QED BY <1>1, <1>2, <1>3 DEF AdapterInv, AdapterTypeOK, Submit, Places

LEMMA FlightSubmitsStep ==
  ASSUME AdapterInv, NEW g \in Gens, flights[g] = "new", dirty = g,
         Submit(AdapterRequest("reconnect", Nobody, g)),
         flights' = [flights EXCEPT ![g] = "waiting"],
         UNCHANGED <<attempted, startLock, caller, warm, stop, gathering>>
  PROVE  AdapterInv'
<1> DEFINE r == AdapterRequest("reconnect", Nobody, g)
<1>1. r \in Reqs /\ Shaped(r) BY AdapterAssumption DEF Reqs, Shaped, AdapterRequest, Gens
<1>2. Allowed(r) BY DEF Allowed, AdapterRequest
<1>3. AdapterTypeOK' BY <1>1, <1>2, RestTyped, SubmitTyped
<1>4. CallersInv' BY <1>1, <1>2, SubmitLeaves DEF CallersInv
<1>5. OffInv'
  <2>1. session' = session \/ session' = 0 BY <1>1, <1>2, SubmitOwner
  <2>2. session' = 0 /\ session # 0 => Failed' BY <1>1, <1>2, SubmitOthers
  <2>3. Failed => Failed' BY DEF Failed, Submit, Stopped
  <2>4. dirty' = dirty BY DEF Submit
  <2> QED BY <2>1, <2>2, <2>3, <2>4 DEF AdapterInv, OffInv
<1> QED BY <1>1, <1>2, <1>3, <1>4, <1>5, SubmitOwner, SubmitQueue DEF AdapterInv

LEMMA WarmSubmitsStep ==
  ASSUME AdapterInv, owner.step = "absent", \A c \in Callers : caller[c] = Idle,
         warm' = "waiting", Submit(AdapterRequest("start", Warm, 0)),
         UNCHANGED <<attempted, startLock, flights, caller, stop, gathering>>
  PROVE  AdapterInv'
<1> DEFINE r == AdapterRequest("start", Warm, 0)
<1>1. r \in Reqs /\ Shaped(r) BY AdapterAssumption DEF Reqs, Shaped, AdapterRequest
<1>2. generation = 0 /\ session = 0 /\ dirty = 0
  BY RestTyped DEF AdapterInv, MarksInv
<1>3. Allowed(r) BY <1>2, AdapterAssumption DEF Allowed, AdapterRequest
<1>4. AdapterTypeOK' BY <1>1, <1>3, RestTyped, SubmitTyped
<1>5. CallersInv' BY <1>1, <1>3, SubmitLeaves DEF CallersInv
<1>6. OffInv'
  <2>1. session' = 0 BY <1>1, <1>2, <1>3, SubmitOwner
  <2>2. Failed => Failed' BY DEF Failed, Submit, Stopped
  <2>3. dirty' = dirty BY DEF Submit
  <2> QED BY <1>2, <2>1, <2>2, <2>3 DEF AdapterInv, OffInv
<1> QED BY <1>1, <1>3, <1>4, <1>5, <1>6, SubmitOwner, SubmitQueue DEF AdapterInv

(* A caller that takes the lock and asks for a start.                      *)
LEMMA CallerSubmitsStep ==
  ASSUME AdapterInv, NEW c \in Callers, startLock = Nobody, session = 0, dirty = 0,
         attempted' = TRUE, startLock' = c, Submit(AdapterRequest("start", c, 0)), Goes(c, "starting", 0),
         UNCHANGED <<flights, warm, stop, gathering>>
  PROVE  AdapterInv'
<1> DEFINE r == AdapterRequest("start", c, 0)
<1>1. r \in Reqs /\ Shaped(r) BY AdapterAssumption DEF Reqs, Shaped, AdapterRequest
<1>2. Allowed(r) BY AdapterAssumption DEF Allowed, AdapterRequest
<1>3. caller' \in [Callers -> [step: Places, gen: 0..MaxGen, result: {"none", "ok", "failed"}]]
  BY RestTyped DEF Goes, At, Places
<1>4. AdapterTypeOK' BY <1>1, <1>2, <1>3, RestTyped, SubmitTyped
<1>5. ASSUME NEW d \in Callers  PROVE CallerFits(d)'
  <2>1. CASE d = c
    <3>1. caller'[c] = At("starting", 0, "none") BY RestTyped DEF Goes
    <3>2. r \in {queue'[i] : i \in 1..Len(queue')} BY <1>1, <1>2, SubmitOthers
    <3>3. Asked(c)' BY <3>2 DEF Asked
    <3> QED BY <2>1, <3>1, <3>3 DEF CallerFits, At
  <2>2. CASE d # c
    <3>1. caller'[d] = caller[d] BY <2>2, RestTyped DEF Goes
    <3>2. startLock # d BY AdapterAssumption
    <3>3. caller[d].step # "starting" BY <3>2, CallerFacts DEF CallerFits
    <3> QED BY <1>1, <1>2, <2>2, <3>1, <3>2, <3>3, SubmitLeaves
  <2> QED BY <2>1, <2>2
<1>6. OffInv' BY AdapterAssumption DEF OffInv
<1> QED BY <1>1, <1>2, <1>4, <1>5, <1>6, SubmitOwner, SubmitQueue DEF AdapterInv, CallersInv

(* Whoever gets at the free lock without a session finds nothing dirty.    *)
LEMMA StartLockedStep ==
  ASSUME AdapterInv, NEW c \in Callers, startLock = Nobody, session = 0 /\ ~Stopped => dirty = 0,
         StartLocked(c), UNCHANGED <<flights, warm, stop, gathering>>
  PROVE  AdapterInv'
<1>1. c # Nobody BY AdapterAssumption
<1>2. FlightsStay BY DEF FlightsStay
<1>3. CASE /\ session # 0 \/ attempted
           /\ IF session # 0 THEN Goes(c, "rpc", generation) ELSE Goes(c, "idle", 0)
           /\ startLock' = Nobody
           /\ UNCHANGED <<sessionVars, ownerVars, attempted>>
  <2>1. OffInv' BY <1>3, OffAtRest DEF AdapterInv
  <2>2. CASE Goes(c, "rpc", generation) /\ session # 0
    BY <1>1, <1>2, <1>3, <2>1, <2>2, CallerFacts, RestTyped, CallMoves
  <2>3. CASE Goes(c, "idle", 0)
    BY <1>1, <1>2, <1>3, <2>1, <2>3, RestTyped, CallMoves
  <2> QED BY <1>3, <2>2, <2>3
<1>4. CASE /\ session = 0 /\ ~attempted /\ Stopped
           /\ Goes(c, "idle", 0) /\ attempted' = TRUE /\ startLock' = Nobody
           /\ UNCHANGED <<sessionVars, ownerVars>>
  <2>1. OffInv' BY <1>4 DEF OffInv, Failed, Stopped
  <2>2. RequestsInv' /\ ContextsInv' /\ MarksInv' /\ ReconnectsInv' /\ StartsInv' /\ StopInv'
    BY <1>2, <1>4, AdapterAtRest
  <2>3. caller' \in [Callers -> [step: Places, gen: 0..MaxGen, result: {"none", "ok", "failed"}]]
    BY <1>4, RestTyped DEF Goes, At, Places
  <2>4. AdapterTypeOK' BY <1>4, <2>3, RestTyped, TypeAtRest DEF sessionVars
  <2>5. ASSUME NEW d \in Callers  PROVE CallerFits(d)'
    <3>1. startLock' # d /\ startLock # d BY <1>4, AdapterAssumption
    <3>2. CASE d = c
      <4>1. caller'[c] = At("idle", 0, "none") BY <1>4, RestTyped DEF Goes
      <4> QED BY <3>1, <3>2, <4>1, CallerElsewhere DEF At
    <3>3. CASE d # c
      <4>1. caller'[d] = caller[d] BY <1>4, <3>3, RestTyped DEF Goes
      <4> QED BY <1>4, <3>1, <4>1, CallerFacts, CallerRests DEF CallerFits
    <3> QED BY <3>2, <3>3
  <2> QED BY <2>1, <2>2, <2>4, <2>5 DEF AdapterInv, CallersInv
<1>5. CASE /\ session = 0 /\ ~attempted
           /\ attempted' = TRUE /\ startLock' = c
           /\ Submit(AdapterRequest("start", c, 0))
           /\ Goes(c, "starting", 0)
  <2>1. ~Stopped BY <1>5 DEF Submit
  <2> QED BY <1>5, <2>1, CallerSubmitsStep
<1> QED BY <1>3, <1>4, <1>5 DEF StartLocked

LEMMA TakeLockStep ==
  ASSUME AdapterInv, NEW c \in Callers, TakeLock(c)
  PROVE  AdapterInv'
<1>1. session = 0 /\ ~Stopped => dirty = 0 BY CallerFacts DEF CallerFits, TakeLock
<1> QED BY <1>1, StartLockedStep DEF TakeLock

LEMMA CallColdStep ==
  ASSUME AdapterInv, NEW c \in Callers, CallCold(c)
  PROVE  AdapterInv'
<1>1. CASE startLock = Nobody /\ StartLocked(c)
  BY <1>1, StartLockedStep DEF CallCold
<1>2. CASE Goes(c, "queued", 0) /\ UNCHANGED <<sessionVars, ownerVars, attempted, startLock>>
  <2> USE <1>2 DEF CallCold
  <2>1. FlightsStay BY DEF FlightsStay
  <2>2. OffInv' BY OffAtRest DEF AdapterInv
  <2>3. RequestsInv' /\ ContextsInv' /\ MarksInv' /\ ReconnectsInv' /\ StartsInv' /\ StopInv'
    BY <2>1, AdapterAtRest
  <2>4. caller' \in [Callers -> [step: Places, gen: 0..MaxGen, result: {"none", "ok", "failed"}]]
    BY RestTyped DEF Goes, At, Places
  <2>5. AdapterTypeOK' BY <2>4, RestTyped, TypeAtRest DEF sessionVars
  <2>6. ASSUME NEW d \in Callers  PROVE CallerFits(d)'
    <3>1. CallerFits(d) BY CallerFacts
    <3>2. CASE d = c
      <4>1. caller'[c] = At("queued", 0, "none") BY RestTyped DEF Goes
      <4>2. session' = 0 /\ dirty' = 0 BY DEF sessionVars
      <4> QED BY <3>1, <3>2, <4>1, <4>2 DEF CallerFits, At
    <3>3. CASE d # c
      <4>1. caller'[d] = caller[d] BY <3>3, RestTyped DEF Goes
      <4> QED BY <3>1, <4>1, CallerRests
    <3> QED BY <3>2, <3>3
  <2> QED BY <2>2, <2>3, <2>5, <2>6 DEF AdapterInv, CallersInv
<1> QED BY <1>1, <1>2 DEF CallCold

LEMMA FlightRunsStep ==
  ASSUME AdapterInv, NEW g \in Gens, FlightRuns(g)
  PROVE  AdapterInv'
<1>1. CASE FlightSkips(g) BY <1>1, FlightSkipsStep
<1>2. CASE ~FlightSkips(g) BY <1>2, FlightSubmitsStep DEF FlightRuns, FlightSkips
<1> QED BY <1>1, <1>2

LEMMA WarmUpStep ==
  ASSUME AdapterInv, WarmUp
  PROVE  AdapterInv'
<1>1. CASE Stopped /\ warm' = "over" /\ UNCHANGED <<sessionVars, ownerVars>>
  <2> USE <1>1 DEF WarmUp
  <2>1. FlightsStay BY DEF FlightsStay
  <2>2. OffInv' BY OffAtRest DEF AdapterInv
  <2>3. RequestsInv' /\ ContextsInv' /\ MarksInv' /\ ReconnectsInv' /\ StartsInv' /\ StopInv'
    BY <2>1, AdapterAtRest
  <2>4. AdapterTypeOK' BY RestTyped, TypeAtRest DEF sessionVars
  <2>5. CallersInv' BY CallerFacts, CallerRests DEF CallersInv
  <2> QED BY <2>2, <2>3, <2>4, <2>5 DEF AdapterInv
<1>2. CASE warm' = "waiting" /\ Submit(AdapterRequest("start", Warm, 0))
  BY <1>2, WarmSubmitsStep DEF WarmUp
<1> QED BY <1>1, <1>2 DEF WarmUp

(* The request of a cancelled caller has nobody waiting for it.            *)
LEMMA AbandonedFacts ==
  ASSUME AdapterInv, NEW c \in Callers, Abandoned(c)
  PROVE  /\ queue' \in Seq(Reqs) /\ Len(queue') = Len(queue) /\ current' \in Reqs \cup {NoRequest}
         /\ \A i \in 1..Len(queue) : /\ queue'[i].op = queue[i].op /\ queue'[i].gen = queue[i].gen
                                     /\ queue'[i].who \in {queue[i].who, Nobody}
                                     /\ queue[i].who # c => queue'[i] = queue[i]
         /\ current'.op = current.op /\ current'.gen = current.gen
         /\ current'.who \in {current.who, Nobody}
         /\ current.who # c => current' = current
<1> DEFINE left(r) == IF r.who = c THEN [r EXCEPT !.who = Nobody] ELSE r
<1>1. ASSUME NEW r \in Reqs \cup {NoRequest}
      PROVE  /\ left(r).op = r.op /\ left(r).gen = r.gen /\ left(r).who \in {r.who, Nobody}
             /\ r.who # c => left(r) = r
             /\ r \in Reqs => left(r) \in Reqs
             /\ r = NoRequest => left(r) = r
  BY AdapterAssumption DEF Reqs, NoRequest, AdapterRequest
<1>2. queue \in Seq(Reqs) /\ current \in Reqs \cup {NoRequest} BY OwnerFacts
<1>3. DOMAIN queue = 1..Len(queue) /\ Len(queue) \in Nat /\ \A i \in 1..Len(queue) : queue[i] \in Reqs
  BY <1>2
<1>4. queue' = [i \in 1..Len(queue) |-> left(queue[i])] /\ current' = left(current)
  BY <1>3 DEF Abandoned
<1> HIDE DEF left
<1>5. \A i \in 1..Len(queue) : left(queue[i]) \in Reqs BY <1>1, <1>3
<1>6. queue' \in Seq(Reqs) /\ Len(queue') = Len(queue) BY <1>3, <1>4, <1>5
<1> QED BY <1>1, <1>2, <1>3, <1>4, <1>6

LEMMA CancelStartingStep ==
  ASSUME AdapterInv, NEW c \in Callers, caller[c].step = "starting", CancelCaller(c)
  PROVE  AdapterInv'
<1> USE DEF CancelCaller
<1>1. /\ Goes(c, "idle", 0) /\ attempted' = FALSE /\ startLock' = Nobody /\ Abandoned(c)
      /\ UNCHANGED <<sessionVars, stack, live, owner, failures, deaths, flights, warm, stop, gathering>>
  OBVIOUS
<1> HIDE DEF CancelCaller
<1>2. \A i \in 1..Len(queue) : (Held(queue'[i]) => Held(queue[i]))
  BY <1>1, AbandonedFacts DEF Held
<1>3. RequestsInv'
  <2>1. \A i \in 1..Len(queue) : Shaped(queue[i]) /\ Shaped(current)
    BY DEF AdapterInv, RequestsInv
  <2>2. \A i \in 1..Len(queue') : Shaped(queue'[i])
    BY <1>1, <2>1, AbandonedFacts DEF Shaped
  <2>3. Shaped(current') BY <1>1, AbandonedFacts DEF Shaped, AdapterInv, RequestsInv
  <2>4. owner.step \in {"absent", "idle", "dead"} => current' = NoRequest
    BY <1>1, AbandonedFacts, AdapterAssumption DEF AdapterInv, RequestsInv, NoRequest, AdapterRequest
  <2>5. queue = <<>> => queue' = <<>>
    BY <1>1, AbandonedFacts
  <2> QED BY <1>1, <2>2, <2>3, <2>4, <2>5, AbandonedFacts DEF AdapterInv, RequestsInv, OwnerAlive
<1>4. ContextsInv' BY <1>1 DEF AdapterInv, ContextsInv, OwnerAlive, Stopped, sessionVars
<1>5. MarksInv'
  <2>1. current = NoRequest => current' = NoRequest
    BY <1>1, AbandonedFacts, AdapterAssumption DEF NoRequest, AdapterRequest
  <2>2. queue = <<>> => queue' = <<>>
    BY <1>1, AbandonedFacts
  <2> QED BY <1>1, <2>1, <2>2 DEF AdapterInv, MarksInv, sessionVars, Stopped
<1>6. NoneHeld => NoneHeld' BY <1>1, <1>2, AbandonedFacts DEF NoneHeld
<1>7. ReconnectsInv'
  <2>1. \A i \in 1..Len(queue) : Due(queue[i]) => Due(queue[i])'
    BY <1>1, AbandonedFacts DEF Due, sessionVars
  <2>2. Due(current) => Due(current)' BY <1>1, AbandonedFacts DEF Due, sessionVars
  <2> QED BY <1>1, <1>2, <1>6, <2>1, <2>2, AbandonedFacts DEF AdapterInv, ReconnectsInv
<1>8. StartsInv' BY <1>1, <1>6, AbandonedFacts DEF AdapterInv, StartsInv, sessionVars
<1>9. StopInv'
  <2>1. queue = <<>> <=> queue' = <<>>
    BY <1>1, AbandonedFacts
  <2>2. Len(queue) \in Nat /\ (queue # <<>> => Len(queue) \in 1..Len(queue))
    BY OwnerFacts
  <2> QED BY <1>1, <2>1, <2>2, AbandonedFacts DEF AdapterInv, StopInv, OwnerAlive
<1>10. OffInv' BY <1>1 DEF OffInv
<1>11. caller' \in [Callers -> [step: Places, gen: 0..MaxGen, result: {"none", "ok", "failed"}]]
  BY <1>1, RestTyped DEF Goes, At, Places
<1>12. AdapterTypeOK'
  <2>1. queue' \in Seq(Reqs) /\ current'.op = current.op BY <1>1, AbandonedFacts
  <2>2. \A i \in DOMAIN queue' : queue'[i].op \in {"start", "reconnect", "close"} BY <2>1, OpsOfRequests
  <2> QED BY <1>1, <1>11, <2>1, <2>2 DEF AdapterInv, AdapterTypeOK, sessionVars, Places
<1>13. ASSUME NEW d \in Callers  PROVE CallerFits(d)'
  <2>1. CallerFits(d) /\ CallerFits(c) BY CallerFacts
  <2>2. startLock' # d BY <1>1, AdapterAssumption
  <2>3. CASE d = c
    <3>1. caller'[c] = At("idle", 0, "none") BY <1>1, RestTyped DEF Goes
    <3> QED BY <2>2, <2>3, <3>1, CallerElsewhere DEF At
  <2>4. CASE d # c
    <3>1. caller'[d] = caller[d] BY <1>1, <2>4, RestTyped DEF Goes
    <3>2. caller[d].step # "starting" BY <2>1, <2>4 DEF CallerFits
    <3> QED BY <1>1, <2>1, <2>2, <3>1, <3>2 DEF CallerFits, Stopped, OwnerAlive, sessionVars
  <2> QED BY <2>3, <2>4
<1> QED BY <1>3, <1>4, <1>5, <1>7, <1>8, <1>9, <1>10, <1>12, <1>13 DEF AdapterInv, CallersInv

LEMMA CancelCallerStep ==
  ASSUME AdapterInv, NEW c \in Callers, CancelCaller(c)
  PROVE  AdapterInv'
<1>1. CASE caller[c].step = "starting" BY <1>1, CancelStartingStep
<1>2. CASE caller[c].step # "starting"
  <2> USE <1>2 DEF CancelCaller
  <2>1. UNCHANGED <<sessionVars, ownerVars, startLock, attempted>> BY DEF ownerVars
  <2>2. OffInv' BY <2>1, OffAtRest DEF AdapterInv
  <2>3. startLock # c BY CallerFacts DEF CallerFits
  <2>4. FlightsStay BY DEF FlightsStay
  <2> QED BY <2>1, <2>2, <2>3, <2>4, RestTyped, CallMoves
<1> QED BY <1>1, <1>2

(* The owner takes the first request of its queue.                         *)
LEMMA TakeFacts ==
  ASSUME AdapterInv, NEW r, Take(r)
  PROVE  /\ queue \in Seq(Reqs) /\ Len(queue) \in Nat \ {0} /\ r = queue[1] /\ r \in Reqs /\ Shaped(r)
         /\ queue' \in Seq(Reqs) /\ Len(queue') = Len(queue) - 1 /\ queue' = Tail(queue)
         /\ \A i \in 1..Len(queue') : queue'[i] = queue[i + 1] /\ i + 1 \in 1..Len(queue)
         /\ owner.step = "idle" /\ OwnerAlive /\ current = NoRequest
BY DEF AdapterInv, RequestsInv, Take, OwnerAlive

(* What the rest of the queue keeps, whatever becomes of the request.      *)
LEMMA RestKeeps ==
  ASSUME AdapterInv, NEW r, Take(r)
  PROVE  /\ \A i \in 1..Len(queue') : Shaped(queue'[i])
         /\ NoneHeld => NoneHeld'
         /\ r.op = "reconnect" => Due(r) /\ NoneHeld' /\ \A i \in 1..Len(queue') : queue'[i].op # "reconnect"
         /\ \A i \in 1..Len(queue') : queue'[i].op = "reconnect" =>
               /\ queue'[i].gen = dirty /\ flights[queue'[i].gen] = "waiting"
               /\ \A j \in 1..Len(queue') : queue'[j].op = "reconnect" => i = j
               /\ \A j \in 1..Len(queue') : i < j => ~Held(queue'[j])
         /\ \A i \in 1..Len(queue') : queue'[i].op = "close" => stop = "joining" /\ i = Len(queue')
         /\ r.op = "close" => stop = "joining" /\ queue' = <<>>
         /\ stop = "joining" /\ r.op # "close" => queue' # <<>> /\ queue'[Len(queue')].op = "close"
<1>1. /\ queue \in Seq(Reqs) /\ Len(queue) \in Nat \ {0} /\ r = queue[1] /\ r \in Reqs
      /\ queue' \in Seq(Reqs) /\ Len(queue') = Len(queue) - 1 /\ queue' = Tail(queue)
      /\ \A i \in 1..Len(queue') : queue'[i] = queue[i + 1] /\ i + 1 \in 1..Len(queue)
      /\ owner.step = "idle" /\ OwnerAlive /\ current = NoRequest
  BY TakeFacts
<1>2. \A i \in 1..Len(queue') : Shaped(queue'[i]) BY <1>1 DEF AdapterInv, RequestsInv
<1>3. NoneHeld => NoneHeld' BY <1>1 DEF NoneHeld
<1>4. ASSUME r.op = "reconnect"
      PROVE  Due(r) /\ NoneHeld' /\ \A i \in 1..Len(queue') : queue'[i].op # "reconnect"
  <2>1. \A i \in 1..Len(queue') : 1 < i + 1 /\ 1 # i + 1 /\ 1 \in 1..Len(queue) BY <1>1
  <2>2. 1 \in 1..Len(queue) BY <1>1
  <2> QED BY <1>1, <1>4, <2>1, <2>2 DEF AdapterInv, ReconnectsInv, NoneHeld
<1>5. ASSUME NEW i \in 1..Len(queue'), queue'[i].op = "reconnect"
      PROVE  /\ queue'[i].gen = dirty /\ flights[queue'[i].gen] = "waiting"
             /\ \A j \in 1..Len(queue') : queue'[j].op = "reconnect" => i = j
             /\ \A j \in 1..Len(queue') : i < j => ~Held(queue'[j])
  <2>1. /\ Due(queue[i + 1])
        /\ \A j \in 1..Len(queue) : queue[j].op = "reconnect" => i + 1 = j
        /\ \A j \in 1..Len(queue) : i + 1 < j => ~Held(queue[j])
    BY <1>1, <1>5 DEF AdapterInv, ReconnectsInv
  <2> QED BY <1>1, <1>5, <2>1 DEF Due
<1>6. ASSUME NEW i \in 1..Len(queue'), queue'[i].op = "close"
      PROVE  stop = "joining" /\ i = Len(queue')
  <2>1. i + 1 \in 1..Len(queue) /\ queue[i + 1].op = "close" BY <1>1, <1>6
  <2>2. stop = "joining" /\ i + 1 = Len(queue) BY <2>1 DEF AdapterInv, StopInv
  <2>3. Len(queue') = Len(queue) - 1 /\ Len(queue) \in Int /\ i \in Int BY <1>1
  <2> QED BY <2>2, <2>3
<1>7. ASSUME r.op = "close"  PROVE stop = "joining" /\ queue' = <<>>
  <2>1. 1 \in 1..Len(queue) BY <1>1
  <2>2. stop = "joining" /\ Len(queue) = 1 BY <1>1, <1>7, <2>1 DEF AdapterInv, StopInv
  <2> QED BY <1>1, <2>2
<1>8. ASSUME stop = "joining", r.op # "close"  PROVE queue' # <<>> /\ queue'[Len(queue')].op = "close"
  <2>1. queue # <<>> BY <1>1
  <2>2. queue[Len(queue)].op = "close" BY <1>1, <1>8, <2>1 DEF AdapterInv, StopInv
  <2>3. Len(queue) # 1 BY <1>1, <1>8, <2>2
  <2>4. Len(queue') \in 1..Len(queue') /\ Len(queue') + 1 = Len(queue) BY <1>1, <2>3
  <2>5. queue'[Len(queue')] = queue[Len(queue)] BY <1>1, <2>4
  <2> QED BY <2>2, <2>4, <2>5
<1> QED BY <1>2, <1>3, <1>4, <1>5, <1>6, <1>7, <1>8

(* A taken request that leaves the contexts alone.                         *)
LEMMA TakeRests ==
  ASSUME AdapterInv, NEW r, Take(r), r.op = "start",
         UNCHANGED <<sessionVars, stack, live, owner, current, failures, deaths, attempted, startLock, stop, gathering>>,
         FlightsStay
  PROVE  RequestsInv' /\ ContextsInv' /\ MarksInv' /\ ReconnectsInv' /\ StartsInv' /\ OffInv' /\ StopInv'
<1> USE TakeFacts, RestKeeps
<1>1. RequestsInv' BY DEF AdapterInv, RequestsInv, OwnerAlive
<1>2. ContextsInv' BY DEF AdapterInv, ContextsInv, OwnerAlive, Stopped, sessionVars
<1>3. MarksInv'
  <2>1. queue # <<>> OBVIOUS
  <2> QED BY <2>1 DEF AdapterInv, MarksInv, sessionVars, Stopped
<1>4. ReconnectsInv'
  <2>1. current.op # "reconnect" BY DEF NoRequest, AdapterRequest
  <2>2. ASSUME NEW i \in 1..Len(queue'), queue'[i].op = "reconnect"  PROVE Due(queue[i])'
    <3>1. queue'[i].gen = dirty /\ flights[queue'[i].gen] = "waiting" BY <2>2
    <3>2. queue'[i].gen \in Gens BY <2>2 DEF Shaped
    <3> QED BY <3>1, <3>2 DEF Due, FlightsStay, sessionVars
  <2> QED BY <2>1, <2>2 DEF ReconnectsInv
<1>5. StartsInv' BY DEF AdapterInv, StartsInv, sessionVars
<1>6. OffInv' BY DEF AdapterInv, OffInv, Failed, Stopped, sessionVars
<1>7. StopInv'
  <2>1. r.op # "close" /\ current.op # "close" BY DEF NoRequest, AdapterRequest
  <2> QED BY <2>1 DEF AdapterInv, StopInv, OwnerAlive
<1> QED BY <1>1, <1>2, <1>3, <1>4, <1>5, <1>6, <1>7

(* Who asked has asked still, unless the request taken was its own.        *)
LEMMA TakeAsked ==
  ASSUME AdapterInv, NEW r, Take(r), NEW c \in Callers, Asked(c)
  PROVE  r = AdapterRequest("start", c, 0) \/ \E i \in 1..Len(queue') : queue'[i] = AdapterRequest("start", c, 0)
<1>1. /\ current = NoRequest /\ Len(queue) \in Nat \ {0} /\ r = queue[1] /\ Len(queue') = Len(queue) - 1
      /\ \A i \in 1..Len(queue') : queue'[i] = queue[i + 1]
  BY TakeFacts
<1>2. current # AdapterRequest("start", c, 0) BY <1>1 DEF NoRequest, AdapterRequest
<1>3. PICK i \in 1..Len(queue) : queue[i] = AdapterRequest("start", c, 0) BY <1>2 DEF Asked
<1>4. CASE i = 1 BY <1>1, <1>3, <1>4
<1>5. CASE i # 1
  <2>1. i - 1 \in 1..Len(queue') /\ (i - 1) + 1 = i BY <1>1, <1>5
  <2>2. queue'[i - 1] = queue[i] BY <1>1, <2>1
  <2> QED BY <1>3, <2>1, <2>2
<1> QED BY <1>4, <1>5

LEMMA SkipRequestStep ==
  ASSUME AdapterInv, SkipRequest
  PROVE  AdapterInv'
<1>1. PICK r \in Queued : Take(r) /\ r.op = "start" /\ r.who = Nobody BY DEF SkipRequest
<1> USE <1>1 DEF SkipRequest
<1>2. FlightsStay BY DEF FlightsStay
<1>3. AdapterTypeOK'
  <2>1. \A i \in DOMAIN queue' : queue'[i].op \in {"start", "reconnect", "close"} BY TakeFacts, OpsOfRequests
  <2> QED BY <2>1 DEF AdapterInv, AdapterTypeOK, sessionVars
<1>4. ASSUME NEW c \in Callers  PROVE CallerFits(c)'
  <2>1. CallerFits(c) BY CallerFacts
  <2>2. r # AdapterRequest("start", c, 0) BY AdapterAssumption DEF AdapterRequest
  <2>3. Asked(c) => Asked(c)' BY <2>2, TakeAsked DEF Asked
  <2> QED BY <2>1, <2>3 DEF CallerFits, Failed, OwnerAlive, Stopped, sessionVars
<1> QED BY <1>2, <1>3, <1>4, TakeRests DEF AdapterInv, CallersInv

(* What the callers of answered requests see.                              *)
LEMMA ResolvedFacts ==
  ASSUME AdapterInv, NEW R, NEW x \in {"ok", "failed"}, Resolved(R, x)
  PROVE  /\ caller' \in [Callers -> [step: Places, gen: 0..MaxGen, result: {"none", "ok", "failed"}]]
         /\ flights' \in [Gens -> {"none", "new", "waiting", "ok", "failed"}]
         /\ warm' \in {"due", "waiting", "over"}
         /\ \A c \in Callers : caller'[c].step = caller[c].step /\ caller'[c].gen = caller[c].gen
         /\ \A c \in Callers : IF AdapterRequest("start", c, 0) \in R THEN caller'[c].result = x
                                                                      ELSE caller'[c] = caller[c]
         /\ \A g \in Gens : AdapterRequest("reconnect", Nobody, g) \notin R => flights'[g] = flights[g]
BY RestTyped DEF Resolved

(* A caller the owner has answered, or not.                                *)
LEMMA CallerServed ==
  ASSUME AdapterInv, NEW c \in Callers, UNCHANGED <<attempted, startLock>>,
         caller'[c].step = caller[c].step, caller'[c].gen = caller[c].gen,
         Failed => Failed', Stopped => Stopped',
         caller[c].step = "queued" /\ ~Stopped' => (session' = 0 => dirty' = 0) /\ (session' # 0 => OwnerAlive'),
         caller[c].step = "starting" =>
           /\ caller'[c].result = "none" => Asked(c)'
           /\ caller'[c].result = "failed" => Failed'
           /\ caller'[c].result = "ok" => session' # 0 \/ Failed'
  PROVE  CallerFits(c)'
BY CallerFacts DEF CallerFits

LEMMA StartNeedlessStep ==
  ASSUME AdapterInv, StartNeedless
  PROVE  AdapterInv'
<1>1. PICK r \in Queued : Take(r) /\ r.op = "start" /\ r.who # Nobody /\ ~OwnerStarts(r) /\ Resolved({r}, "ok")
  BY DEF StartNeedless
<1>2. UNCHANGED <<sessionVars, stack, live, owner, current, failures, deaths, attempted, startLock, stop, gathering>>
  BY DEF StartNeedless
<1>3. session # 0 BY <1>1 DEF OwnerStarts
<1>4. FlightsStay
  <2>1. \A g \in Gens : AdapterRequest("reconnect", Nobody, g) # r BY <1>1 DEF AdapterRequest
  <2> QED BY <1>1, <2>1, ResolvedFacts DEF FlightsStay
<1>5. AdapterTypeOK'
  <2>1. \A i \in DOMAIN queue' : queue'[i].op \in {"start", "reconnect", "close"} BY <1>1, TakeFacts, OpsOfRequests
  <2> QED BY <1>1, <1>2, <2>1, ResolvedFacts DEF AdapterInv, AdapterTypeOK, sessionVars, Places
<1>6. ASSUME NEW c \in Callers  PROVE CallerFits(c)'
  <2>1. CallerFits(c) BY CallerFacts
  <2>2. IF AdapterRequest("start", c, 0) = r THEN caller'[c].result = "ok" ELSE caller'[c] = caller[c]
    BY <1>1, ResolvedFacts
  <2>3. AdapterRequest("start", c, 0) # r /\ Asked(c) => Asked(c)' BY <1>1, TakeAsked DEF Asked
  <2>4. caller'[c].step = caller[c].step /\ caller'[c].gen = caller[c].gen BY <1>1, ResolvedFacts
  <2>5. (Failed => Failed') /\ (Stopped => Stopped') /\ (OwnerAlive => OwnerAlive') /\ session' = session
    BY <1>2 DEF Failed, Stopped, OwnerAlive, sessionVars
  <2>6. OwnerAlive BY <1>1, TakeFacts
  <2> QED BY <1>2, <1>3, <2>1, <2>2, <2>3, <2>4, <2>5, <2>6, CallerServed DEF CallerFits
<1> QED BY <1>1, <1>2, <1>4, <1>5, <1>6, TakeRests DEF AdapterInv, CallersInv

LEMMA BeginStartStep ==
  ASSUME AdapterInv, BeginStart
  PROVE  AdapterInv'
<1>1. PICK r \in Queued : /\ Take(r) /\ current' = r
                          /\ \/ r.op = "reconnect" /\ stack = 0
                             \/ r.who # Nobody /\ OwnerStarts(r)
  BY DEF BeginStart
<1>2. /\ live' = [live EXCEPT ![owner.id] = @ + 1] /\ stack' = owner.id
      /\ owner' = [owner EXCEPT !.step = "starting"]
      /\ UNCHANGED <<sessionVars, failures, deaths, attempted, startLock, flights, caller, warm, stop, gathering>>
  BY DEF BeginStart, Opened, Becomes
<1>3. /\ owner.step = "idle" /\ OwnerAlive /\ r \in Reqs /\ Shaped(r) /\ r.op # "close"
      /\ Len(queue) \in Nat \ {0} /\ queue' \in Seq(Reqs) /\ r = queue[1]
  BY <1>1, TakeFacts DEF OwnerStarts
<1>4. session = 0 /\ stack = 0 BY <1>1, <1>3 DEF AdapterInv, ContextsInv, OwnerStarts
<1>5. owner' = [id |-> owner.id, step |-> "starting"] /\ OwnerAlive' BY <1>2, OwnerFacts DEF OwnerAlive
<1>6. owner.id \in Owners /\ live \in [Owners -> 0..1] /\ live[owner.id] = 0
  BY <1>3, <1>4, OwnerFacts, AdapterAssumption DEF AdapterInv, ContextsInv, Owners
<1>7. AdapterTypeOK'
  <2>1. \A i \in DOMAIN queue' : queue'[i].op \in {"start", "reconnect", "close"} BY <1>1, TakeFacts, OpsOfRequests
  <2>2. live' \in [Owners -> 0..1] BY <1>2, <1>6
  <2>3. current'.op \in {"none", "start", "reconnect", "close"} BY <1>1, <1>3 DEF Reqs
  <2> QED BY <1>2, <1>5, <1>6, <2>1, <2>2, <2>3, OwnerFacts DEF AdapterInv, AdapterTypeOK, sessionVars
<1>8. RequestsInv' BY <1>1, <1>3, <1>5, RestKeeps DEF RequestsInv, OwnerStarts
<1>9. ContextsInv'
  <2>1. live'[owner.id] = 1 /\ \A o \in Owners : o # owner.id => live'[o] = live[o] BY <1>2, <1>6
  <2> QED BY <1>2, <1>3, <1>4, <1>5, <1>6, <2>1, OwnerFacts DEF AdapterInv, ContextsInv, Stopped, sessionVars, Owners
<1>10. MarksInv'
  <2>1. queue # <<>> BY <1>3
  <2> QED BY <1>2, <1>4, <1>5, <2>1 DEF AdapterInv, MarksInv, sessionVars
<1>11. ReconnectsInv'
  <2>1. \A q : Due(q)' <=> Due(q) BY <1>2 DEF Due, sessionVars
  <2>2. CASE r.op = "reconnect" BY <1>1, <2>1, <2>2, RestKeeps DEF ReconnectsInv
  <2>3. CASE r.op # "reconnect" BY <1>1, <1>2, <2>3, RestKeeps DEF ReconnectsInv, Due, sessionVars
  <2> QED BY <2>2, <2>3
<1>12. StartsInv'
  <2>1. r.op = "start" => dirty = 0
    <3>1. r.op = "start" => Held(queue[1]) /\ 1 \in 1..Len(queue) BY <1>1, <1>3 DEF Held
    <3> QED BY <1>4, <3>1 DEF AdapterInv, StartsInv, NoneHeld
  <2> QED BY <1>1, <1>2, <2>1, RestKeeps DEF AdapterInv, StartsInv, sessionVars
<1>13. ASSUME NEW c \in Callers  PROVE CallerFits(c)'
  <2>1. Asked(c) => Asked(c)' BY <1>1, TakeAsked DEF Asked
  <2>2. (Failed => Failed') /\ (Stopped => Stopped') BY <1>2 DEF Failed, Stopped
  <2> QED BY <1>2, <1>3, <1>5, <2>1, <2>2, CallerFacts DEF CallerFits, sessionVars
<1>14. OffInv' BY <1>2 DEF AdapterInv, OffInv, Failed, Stopped, sessionVars
<1>15. StopInv'
  <2>1. stop \notin {"gathering", "done"} BY <1>3 DEF AdapterInv, StopInv
  <2> QED BY <1>1, <1>2, <1>3, <1>5, <2>1, RestKeeps DEF StopInv
<1> QED BY <1>7, <1>8, <1>9, <1>10, <1>11, <1>12, <1>13, <1>14, <1>15 DEF AdapterInv, CallersInv

LEMMA BeginCloseStep ==
  ASSUME AdapterInv, BeginClose
  PROVE  AdapterInv'
<1>1. PICK r \in Queued : Take(r) /\ r.op \in {"reconnect", "close"} /\ current' = r
  BY DEF BeginClose
<1>2. /\ stack # 0 /\ owner' = [owner EXCEPT !.step = "closing"]
      /\ UNCHANGED <<sessionVars, stack, live, failures, deaths, attempted, startLock, flights, caller, warm, stop, gathering>>
  BY DEF BeginClose, Becomes
<1>3. /\ owner.step = "idle" /\ OwnerAlive /\ r \in Reqs /\ Shaped(r) /\ queue' \in Seq(Reqs)
  BY <1>1, TakeFacts
<1>4. session # 0 /\ stack = owner.id BY <1>2, <1>3 DEF AdapterInv, ContextsInv
<1>5. owner' = [id |-> owner.id, step |-> "closing"] /\ OwnerAlive' BY <1>2, OwnerFacts DEF OwnerAlive
<1>6. AdapterTypeOK'
  <2>1. \A i \in DOMAIN queue' : queue'[i].op \in {"start", "reconnect", "close"} BY <1>1, TakeFacts, OpsOfRequests
  <2>2. current'.op \in {"none", "start", "reconnect", "close"} BY <1>1
  <2> QED BY <1>2, <1>5, <2>1, <2>2, OwnerFacts DEF AdapterInv, AdapterTypeOK, sessionVars
<1>7. RequestsInv' BY <1>1, <1>3, <1>5, RestKeeps DEF RequestsInv
<1>8. ContextsInv'
  BY <1>2, <1>3, <1>4, <1>5 DEF AdapterInv, ContextsInv, Stopped, sessionVars, OwnerAlive
<1>9. MarksInv' BY <1>2, <1>4, <1>5 DEF AdapterInv, MarksInv, sessionVars
<1>10. ReconnectsInv'
  <2>1. \A q : Due(q)' <=> Due(q) BY <1>2 DEF Due, sessionVars
  <2>2. CASE r.op = "reconnect" BY <1>1, <2>1, <2>2, RestKeeps DEF ReconnectsInv
  <2>3. CASE r.op # "reconnect" BY <1>1, <1>2, <2>3, RestKeeps DEF ReconnectsInv, Due, sessionVars
  <2> QED BY <2>2, <2>3
<1>11. StartsInv' BY <1>1, <1>2, RestKeeps DEF AdapterInv, StartsInv, sessionVars
<1>12. ASSUME NEW c \in Callers  PROVE CallerFits(c)'
  <2>1. AdapterRequest("start", c, 0) # r BY <1>1 DEF AdapterRequest
  <2>2. Asked(c) => Asked(c)' BY <1>1, <2>1, TakeAsked DEF Asked
  <2>3. (Failed => Failed') /\ (Stopped => Stopped') BY <1>2 DEF Failed, Stopped
  <2> QED BY <1>2, <1>3, <1>5, <2>2, <2>3, CallerFacts DEF CallerFits, sessionVars
<1>13. OffInv' BY <1>2 DEF AdapterInv, OffInv, Failed, Stopped, sessionVars
<1>14. StopInv'
  <2>1. stop \notin {"gathering", "done"} BY <1>3 DEF AdapterInv, StopInv
  <2> QED BY <1>1, <1>2, <1>3, <1>5, <2>1, RestKeeps DEF StopInv
<1> QED BY <1>6, <1>7, <1>8, <1>9, <1>10, <1>11, <1>12, <1>13, <1>14 DEF AdapterInv, CallersInv

(* Whoever queues for the lock while a session is there is about to be     *)
(* served: the lock is free, or its holder has its answer, or the owner    *)
(* has requests to take.                                                   *)
LEMMA QueuedMeansReady ==
  ASSUME AdapterInv, NEW c \in Callers, caller[c].step = "queued", session # 0, ~Stopped
  PROVE  Ready
<1>1. CASE startLock = Nobody BY <1>1 DEF Ready
<1>2. CASE startLock # Nobody
  <2>1. PICK d \in Callers : startLock = d BY <1>2, RestTyped
  <2>2. CallerFits(d) /\ CallerFits(c) BY CallerFacts
  <2>3. caller[d].step = "starting" BY <2>1, <2>2 DEF CallerFits
  <2>4. CASE caller[d].result # "none" BY <2>4 DEF Ready
  <2>5. CASE caller[d].result = "none"
    <3>1. Asked(d) BY <2>2, <2>3, <2>5 DEF CallerFits
    <3>2. OwnerAlive BY <2>2 DEF CallerFits
    <3>3. owner.step # "starting" BY DEF AdapterInv, ContextsInv
    <3>4. current.op # "start"
      BY <3>2, <3>3 DEF AdapterInv, RequestsInv, OwnerAlive, NoRequest, AdapterRequest
    <3>5. PICK i \in 1..Len(queue) : queue[i] = AdapterRequest("start", d, 0)
      BY <3>1, <3>4 DEF Asked, AdapterRequest
    <3>6. Held(queue[i]) /\ queue # <<>> BY <3>5, AdapterAssumption, OwnerFacts DEF Held, AdapterRequest
    <3>7. owner.step # "closing"
      <4>1. current.op # "reconnect" BY <3>6 DEF AdapterInv, ReconnectsInv, NoneHeld
      <4>2. current.op # "close" BY DEF AdapterInv, StopInv, Stopped
      <4> QED BY <4>1, <4>2 DEF AdapterInv, RequestsInv
    <3> QED BY <3>2, <3>3, <3>6, <3>7 DEF Ready, OwnerAlive
  <2> QED BY <2>4, <2>5
<1> QED BY <1>1, <1>2

(* The owner's end, whatever it does with its contexts: everybody who      *)
(* waits is told of a failure.                                             *)
LEMMA DiesRests ==
  ASSUME AdapterInv, NEW R, OwnerAlive, Dies(R), current.op = "start" => current \in R,
         UNCHANGED <<generation, dirty, failures, attempted, startLock, stop, gathering>>,
         deaths' \in {deaths, deaths + 1}, deaths' \in 0..MaxDeaths, Failed',
         session' \in {session, 0}, session' # session => dirty # 0 \/ Stopped,
         \A c \in Callers : caller[c].step = "queued" => session = 0 \/ Stopped,
         live' \in [Owners -> 0..1], stack' \in Owners \cup {0}, ContextsInv'
  PROVE  AdapterInv'
<1>1. /\ owner' = [owner EXCEPT !.step = "dead"] /\ queue' = <<>> /\ current' = NoRequest
      /\ Resolved(R \cup Queued, "failed")
  BY DEF Dies, Becomes
<1>2. owner' = [id |-> owner.id, step |-> "dead"] /\ ~OwnerAlive' BY <1>1, OwnerFacts DEF OwnerAlive
<1>3. AdapterTypeOK'
  <2>1. /\ session' \in 0..MaxGen /\ DOMAIN queue' = {} /\ current'.op = "none"
    BY <1>1, RestTyped DEF NoRequest, AdapterRequest
  <2>2. owner' \in [id: 0..MaxDeaths + 1, step: {"absent", "idle", "closing", "starting", "dead"}]
    BY <1>2, OwnerFacts
  <2> QED BY <1>1, <2>1, <2>2, RestTyped, OwnerFacts, ResolvedFacts DEF AdapterInv, AdapterTypeOK, Places
<1>4. RequestsInv'
  <2>1. queue' \in Seq(Reqs) /\ Len(queue') = 0 BY <1>1
  <2> QED BY <1>1, <1>2, <2>1 DEF RequestsInv, Shaped, NoRequest, AdapterRequest
<1>5. MarksInv'
  <2>1. Stopped => Stopped' BY DEF Stopped
  <2>2. session = 0 /\ dirty = 0 /\ generation # 0 => Stopped BY DEF AdapterInv, MarksInv
  <2> QED BY <1>1, <1>2, <2>1, <2>2 DEF AdapterInv, MarksInv
<1>6. Len(queue') = 0 /\ 1..0 = {} BY <1>1
<1>7. ReconnectsInv' /\ StartsInv' BY <1>1, <1>6 DEF ReconnectsInv, StartsInv, NoneHeld, NoRequest, AdapterRequest
<1>8. StopInv'
  <2>1. stop \notin {"gathering", "done"} /\ owner.step # "absent" BY DEF AdapterInv, StopInv, OwnerAlive
  <2> QED BY <1>1, <1>2, <1>6, <2>1 DEF StopInv, NoRequest, AdapterRequest
<1>9. OffInv' BY DEF OffInv
<1>10. ASSUME NEW c \in Callers  PROVE CallerFits(c)'
  <2>1. CallerFits(c) BY CallerFacts
  <2>2. IF AdapterRequest("start", c, 0) \in R \cup Queued THEN caller'[c].result = "failed" ELSE caller'[c] = caller[c]
    BY <1>1, ResolvedFacts
  <2>3. Asked(c) => AdapterRequest("start", c, 0) \in R \cup Queued
    <3>1. DOMAIN queue = 1..Len(queue) BY OwnerFacts
    <3> QED BY <3>1 DEF Asked, Queued, AdapterRequest
  <2>4. caller'[c].step = caller[c].step /\ caller'[c].gen = caller[c].gen BY <1>1, ResolvedFacts
  <2>5. Stopped => Stopped' BY DEF Stopped
  <2>6. caller[c].step = "queued" /\ ~Stopped' => session = 0 /\ session' = 0 /\ dirty' = 0
    BY <2>1, <2>5 DEF CallerFits
  <2>7. caller[c].step = "starting" => caller'[c].result # "none"
    <3>1. caller[c].result # "none" => caller'[c].result # "none" BY <2>2
    <3> QED BY <2>1, <2>2, <2>3, <3>1 DEF CallerFits
  <2> QED BY <2>4, <2>5, <2>6, <2>7, CallerServed
<1> QED BY <1>3, <1>4, <1>5, <1>7, <1>8, <1>9, <1>10 DEF AdapterInv, CallersInv

LEMMA CloseNothingStep ==
  ASSUME AdapterInv, CloseNothing
  PROVE  AdapterInv'
<1>1. /\ owner.step = "idle" /\ queue # <<>> /\ Head(queue).op = "close" /\ stack = 0 /\ Dies({})
      /\ UNCHANGED <<sessionVars, stack, live, failures, deaths, attempted, startLock, stop, gathering>>
  BY DEF CloseNothing
<1>2. OwnerAlive /\ current = NoRequest BY <1>1 DEF OwnerAlive, AdapterInv, RequestsInv
<1>3. Stopped /\ Stopped'
  <2>1. 1 \in 1..Len(queue) /\ queue[1].op = "close" BY <1>1, OwnerFacts
  <2> QED BY <1>1, <2>1 DEF AdapterInv, StopInv, Stopped
<1>4. owner' = [id |-> owner.id, step |-> "dead"] BY <1>1, OwnerFacts DEF Dies, Becomes
<1>5. ContextsInv'
  <2>1. owner.id # 0 /\ live[owner.id] = 0 /\ owner.id <= deaths + 1 /\ session = 0
    BY <1>1, <1>2, AdapterAssumption DEF AdapterInv, ContextsInv
  <2>2. \A o \in Owners : o > owner.id => live[o] = 0 BY DEF AdapterInv, ContextsInv
  <2>3. deaths = 0 => \A o \in Owners : live[o] = 0
    BY <2>1, <2>2, OwnerFacts DEF Owners
  <2> QED BY <1>1, <1>3, <1>4, <2>1, <2>2, <2>3, OwnerFacts DEF ContextsInv, OwnerAlive, sessionVars
<1> QED BY <1>1, <1>2, <1>3, <1>5, OwnerFacts, DiesRests DEF Failed, sessionVars, NoRequest, AdapterRequest

(* While nothing is ready no caller has an unread answer, and nobody       *)
(* queues for the lock while a session is there.                           *)
LEMMA NotReadyFacts ==
  ASSUME AdapterInv, ~Ready, NEW c \in Callers
  PROVE  /\ caller[c].result = "none"
         /\ caller[c].step = "queued" => session = 0 \/ Stopped
BY QueuedMeansReady DEF Ready

(* The contexts the owner works on.                                        *)
LEMMA OpenContexts ==
  ASSUME AdapterInv, owner.step \in {"closing", "starting"}
  PROVE  /\ OwnerAlive /\ stack = owner.id /\ owner.id \in Owners /\ owner.id # 0 /\ live[owner.id] = 1
         /\ owner.id <= deaths + 1 /\ \A o \in Owners : o > owner.id => live[o] = 0
         /\ stop \in {"no", "joining"}
         /\ current \in Reqs /\ Shaped(current)
         /\ owner.step = "closing" => session # 0
<1>1. OwnerAlive /\ owner.step # "absent" BY DEF OwnerAlive
<1>2. owner.id # 0 /\ stack = owner.id /\ owner.id \in Owners
  BY <1>1, OwnerFacts, AdapterAssumption DEF AdapterInv, ContextsInv, Owners
<1>3. current \in Reqs
  BY OwnerFacts DEF AdapterInv, RequestsInv, NoRequest, AdapterRequest
<1> QED BY <1>1, <1>2, <1>3, RestTyped DEF AdapterInv, ContextsInv, RequestsInv, StopInv

(* They are exited.                                                        *)
LEMMA ExitedFacts ==
  ASSUME AdapterInv, owner.step \in {"closing", "starting"}, ClosedStack
  PROVE  /\ live' \in [Owners -> 0..1] /\ live'[owner.id] = 0
         /\ \A o \in Owners : o # owner.id => live'[o] = live[o]
         /\ deaths = 0 => \A o \in Owners : live'[o] = 0
<1>1. live' = [live EXCEPT ![owner.id] = @ - 1] BY OpenContexts DEF ClosedStack
<1>2. /\ live' \in [Owners -> 0..1] /\ live'[owner.id] = 0
      /\ \A o \in Owners : o # owner.id => live'[o] = live[o]
  BY <1>1, OpenContexts, OwnerFacts
<1>3. ASSUME deaths = 0, NEW o \in Owners  PROVE live'[o] = 0
  BY <1>2, <1>3, OpenContexts, OwnerFacts DEF Owners
<1> QED BY <1>2, <1>3

LEMMA CloseEndsStep ==
  ASSUME AdapterInv, ~Ready, CloseEnds
  PROVE  AdapterInv'
<1>1. /\ owner.step = "closing" /\ session' = 0
      /\ UNCHANGED <<generation, dirty, failures, deaths, attempted, startLock, stop, gathering>>
  BY DEF CloseEnds
<1>2. CASE /\ current.op = "close" /\ ClosedStack /\ stack' = 0 /\ Dies({})
  <2>1. Stopped /\ Stopped' BY <1>1, <1>2 DEF AdapterInv, StopInv, Stopped
  <2>2. owner' = [id |-> owner.id, step |-> "dead"] BY <1>2, OwnerFacts DEF Dies, Becomes
  <2>3. ContextsInv'
    BY <1>1, <1>2, <2>1, <2>2, OpenContexts, ExitedFacts, OwnerFacts DEF ContextsInv, OwnerAlive
  <2> QED BY <1>1, <1>2, <2>1, <2>3, OpenContexts, ExitedFacts, OwnerFacts, RestTyped, DiesRests DEF Failed
<1>3. CASE /\ current.op = "reconnect"
           /\ stack' = owner.id
           /\ live' = IF stack = owner.id THEN live ELSE [live EXCEPT ![stack] = @ - 1, ![owner.id] = @ + 1]
           /\ Becomes("starting") /\ UNCHANGED <<queue, current, flights, caller, warm>>
  <2>1. owner' = [id |-> owner.id, step |-> "starting"] /\ OwnerAlive' /\ stack' = stack /\ live' = live
    BY <1>1, <1>3, OwnerFacts, OpenContexts DEF Becomes, OwnerAlive
  <2>2. dirty # 0 /\ NoneHeld
    BY <1>1, <1>3, OpenContexts DEF AdapterInv, ReconnectsInv, Due, Shaped, Gens
  <2>3. AdapterTypeOK'
    BY <1>1, <1>3, <2>1, OwnerFacts, AdapterAssumption DEF AdapterInv, AdapterTypeOK
  <2>4. RequestsInv' BY <1>1, <1>3, <2>1 DEF AdapterInv, RequestsInv
  <2>5. ContextsInv'
    BY <1>1, <2>1, OpenContexts, OwnerFacts DEF AdapterInv, ContextsInv, Stopped
  <2>6. MarksInv' BY <1>1, <1>3, <2>1, <2>2 DEF AdapterInv, MarksInv
  <2>7. ReconnectsInv' BY <1>1, <1>3 DEF AdapterInv, ReconnectsInv, Due, NoneHeld
  <2>8. StartsInv' BY <1>1, <1>3, <2>2 DEF StartsInv, NoneHeld
  <2>9. CallersInv'
    <3>1. ASSUME NEW c \in Callers  PROVE CallerFits(c)'
      <4>1. (Asked(c) => Asked(c)') /\ (Stopped => Stopped') /\ (Failed => Failed')
        BY <1>1, <1>3 DEF Asked, Stopped, Failed
      <4>2. CallerFits(c) BY CallerFacts
      <4>3. caller[c].step = "queued" /\ ~Stopped' => FALSE
        BY <2>2, <4>1, <4>2, NotReadyFacts DEF CallerFits
      <4> QED BY <1>1, <1>3, <4>1, <4>2, <4>3, NotReadyFacts, CallerServed DEF CallerFits
    <3> QED BY <3>1 DEF CallersInv
  <2>10. OffInv' BY <1>1, <2>2 DEF OffInv
  <2>11. StopInv'
    BY <1>1, <1>3, <2>1, OpenContexts DEF AdapterInv, StopInv
  <2> QED BY <2>3, <2>4, <2>5, <2>6, <2>7, <2>8, <2>9, <2>10, <2>11 DEF AdapterInv
<1> QED BY <1>2, <1>3 DEF CloseEnds

LEMMA CloseFailsStep ==
  ASSUME AdapterInv, ~Ready, CloseFails
  PROVE  AdapterInv'
<1>1. /\ owner.step = "closing" /\ current.op = "close" /\ failures < MaxFailures
      /\ failures' = failures + 1 /\ ClosedStack /\ stack' = 0 /\ session' = 0
      /\ owner' = [id |-> owner.id, step |-> "idle"] /\ current' = NoRequest
      /\ UNCHANGED <<generation, dirty, queue, deaths, attempted, startLock, flights, caller, warm, stop, gathering>>
  BY OwnerFacts DEF CloseFails, Becomes
<1>2. stop = "joining" /\ queue = <<>> /\ Len(queue) = 0 /\ Stopped /\ Stopped' /\ Failed'
  BY <1>1 DEF AdapterInv, StopInv, Stopped, Failed
<1>3. OwnerAlive' BY <1>1 DEF OwnerAlive
<1>4. AdapterTypeOK'
  <2>1. owner.id \in 0..MaxDeaths + 1 /\ failures + 1 \in 0..MaxFailures
    BY <1>1, OwnerFacts, AdapterAssumption
  <2> QED BY <1>1, <2>1, RestTyped, ExitedFacts DEF AdapterInv, AdapterTypeOK, NoRequest, AdapterRequest
<1>5. RequestsInv' BY <1>1, <1>3 DEF AdapterInv, RequestsInv, NoRequest, AdapterRequest, Shaped
<1>6. ContextsInv' BY <1>1, <1>2, <1>3, OpenContexts, ExitedFacts, OwnerFacts DEF ContextsInv
<1>7. MarksInv' BY <1>1, <1>2 DEF AdapterInv, MarksInv
<1>8. ReconnectsInv' /\ StartsInv'
  BY <1>1, <1>2 DEF ReconnectsInv, StartsInv, NoneHeld, NoRequest, AdapterRequest
<1>9. CallersInv'
  <2>1. ASSUME NEW c \in Callers  PROVE CallerFits(c)'
    <3>1. ~Asked(c) BY <1>1, <1>2 DEF Asked, AdapterRequest
    <3> QED BY <1>1, <1>2, <1>3, <3>1, CallerServed, CallerFacts DEF CallerFits
  <2> QED BY <2>1 DEF CallersInv
<1>10. OffInv' BY <1>2 DEF OffInv
<1>11. StopInv' BY <1>1, <1>2, <1>3 DEF StopInv, NoRequest, AdapterRequest
<1> QED BY <1>4, <1>5, <1>6, <1>7, <1>8, <1>9, <1>10, <1>11 DEF AdapterInv

(* A start that is under way ends with nothing else to reconnect, and with *)
(* room for one more session.                                              *)
LEMMA StartingFacts ==
  ASSUME AdapterInv, owner.step = "starting"
  PROVE  /\ session = 0 /\ generation < MaxGen /\ stop \in {"no", "joining"}
         /\ generation = 0 \/ dirty # 0
         /\ dirty = IF current.op = "reconnect" THEN current.gen ELSE 0
         /\ \A i \in 1..Len(queue) : queue[i].op # "reconnect"
         /\ current.op \in {"start", "reconnect"} /\ current \in Reqs /\ Shaped(current)
<1>1. /\ session = 0 /\ current.op \in {"start", "reconnect"}
      /\ stop \in {"no", "joining"} /\ current \in Reqs /\ Shaped(current)
  BY OpenContexts DEF AdapterInv, ContextsInv, RequestsInv
<1>2. dirty = IF current.op = "reconnect" THEN current.gen ELSE 0
  BY <1>1 DEF AdapterInv, ReconnectsInv, StartsInv, Due
<1>3. generation = 0 \/ dirty # 0 BY <1>1 DEF AdapterInv, MarksInv, NoRequest, AdapterRequest
<1>4. generation < MaxGen BY <1>3, AdapterAssumption DEF AdapterInv, MarksInv
<1>5. ASSUME NEW i \in 1..Len(queue), queue[i].op = "reconnect"  PROVE FALSE
  <2>1. Due(queue[i]) /\ current.op # "reconnect" BY <1>5 DEF AdapterInv, ReconnectsInv
  <2>2. Shaped(queue[i]) BY DEF AdapterInv, RequestsInv
  <2> QED BY <1>2, <1>5, <2>1, <2>2 DEF Due, Shaped, Gens
<1> QED BY <1>1, <1>2, <1>3, <1>4, <1>5

(* What an ended start leaves, however it ended.                           *)
LEMMA StartEnds ==
  ASSUME AdapterInv, owner.step = "starting",
         owner' = [owner EXCEPT !.step = "idle"], current' = NoRequest,
         UNCHANGED <<queue, deaths, attempted, startLock, stop, gathering>>,
         dirty' \in {dirty, 0}, session' # 0 => dirty' = 0
  PROVE  RequestsInv' /\ ReconnectsInv' /\ StartsInv' /\ StopInv' /\ OwnerAlive'
<1>1. owner' = [id |-> owner.id, step |-> "idle"] /\ OwnerAlive' BY OwnerFacts DEF OwnerAlive
<1>2. RequestsInv' BY <1>1 DEF AdapterInv, RequestsInv, NoRequest, AdapterRequest, Shaped
<1>3. ReconnectsInv' BY StartingFacts DEF ReconnectsInv, NoRequest, AdapterRequest
<1>4. StartsInv'
  <2>1. dirty # 0 => NoneHeld BY StartingFacts DEF AdapterInv, StartsInv
  <2> QED BY <2>1 DEF StartsInv, NoneHeld, NoRequest, AdapterRequest
<1>5. StopInv'
  <2>1. current.op # "close" /\ OwnerAlive BY StartingFacts DEF OwnerAlive
  <2> QED BY <1>1, <2>1, StartingFacts DEF AdapterInv, StopInv, NoRequest, AdapterRequest
<1> QED BY <1>1, <1>2, <1>3, <1>4, <1>5

LEMMA AskedStill ==
  ASSUME AdapterInv, NEW c \in Callers, Asked(c), AdapterRequest("start", c, 0) # current, queue' = queue
  PROVE  Asked(c)'
BY DEF Asked

LEMMA StartSucceedsStep ==
  ASSUME AdapterInv, ~Ready, StartSucceeds
  PROVE  AdapterInv'
<1>1. /\ owner.step = "starting" /\ generation' = generation + 1 /\ session' = generation + 1
      /\ dirty' = IF current.op = "reconnect" /\ dirty = current.gen THEN 0 ELSE dirty
      /\ owner' = [owner EXCEPT !.step = "idle"] /\ current' = NoRequest
      /\ Resolved({current}, "ok")
      /\ UNCHANGED <<stack, live, queue, failures, deaths, attempted, startLock, stop, gathering>>
  BY DEF StartSucceeds, Becomes
<1>2. dirty' = 0 BY <1>1, StartingFacts
<1>3. generation + 1 \in 1..MaxGen BY <1>1, StartingFacts, RestTyped, AdapterAssumption
<1>4. RequestsInv' /\ ReconnectsInv' /\ StartsInv' /\ StopInv' /\ OwnerAlive' BY <1>1, <1>2, StartEnds
<1>5. owner' = [id |-> owner.id, step |-> "idle"] BY <1>1, OwnerFacts
<1>6. AdapterTypeOK'
  <2>1. generation + 1 \in 0..MaxGen /\ dirty' \in 0..MaxGen BY <1>2, <1>3, AdapterAssumption
  <2> QED BY <1>1, <1>5, <2>1, OwnerFacts, ResolvedFacts DEF AdapterInv, AdapterTypeOK, Places, NoRequest, AdapterRequest
<1>7. ContextsInv'
  <2>1. stack # 0 /\ session' # 0 BY <1>1, <1>3, OpenContexts
  <2> QED BY <1>1, <1>4, <1>5, <2>1, OpenContexts DEF AdapterInv, ContextsInv, Stopped
<1>8. MarksInv' BY <1>1, <1>2, <1>3, <1>5 DEF MarksInv
<1>9. ASSUME NEW c \in Callers  PROVE CallerFits(c)'
  <2>1. IF AdapterRequest("start", c, 0) = current THEN caller'[c].result = "ok" ELSE caller'[c] = caller[c]
    BY <1>1, ResolvedFacts
  <2>2. caller'[c].step = caller[c].step /\ caller'[c].gen = caller[c].gen BY <1>1, ResolvedFacts
  <2>3. (Failed => Failed') /\ (Stopped => Stopped') /\ session' # 0
    BY <1>1, <1>3 DEF Failed, Stopped
  <2> QED BY <1>1, <1>2, <1>4, <2>1, <2>2, <2>3, AskedStill, CallerFacts, CallerServed DEF CallerFits
<1>10. OffInv' BY <1>1, <1>3 DEF OffInv
<1> QED BY <1>4, <1>6, <1>7, <1>8, <1>9, <1>10 DEF AdapterInv, CallersInv

LEMMA StartFailsStep ==
  ASSUME AdapterInv, ~Ready, StartFails
  PROVE  AdapterInv'
<1>1. /\ owner.step = "starting" /\ failures < MaxFailures /\ failures' = failures + 1
      /\ ClosedStack /\ stack' = 0 /\ session' = 0
      /\ owner' = [owner EXCEPT !.step = "idle"] /\ current' = NoRequest
      /\ Resolved({current}, "failed")
      /\ UNCHANGED <<generation, dirty, queue, deaths, attempted, startLock, stop, gathering>>
  BY DEF StartFails, Becomes
<1>2. Failed' /\ failures + 1 \in 0..MaxFailures BY <1>1, OwnerFacts, AdapterAssumption DEF Failed
<1>3. RequestsInv' /\ ReconnectsInv' /\ StartsInv' /\ StopInv' /\ OwnerAlive' BY <1>1, StartEnds
<1>4. owner' = [id |-> owner.id, step |-> "idle"] BY <1>1, OwnerFacts
<1>5. AdapterTypeOK'
  BY <1>1, <1>2, <1>4, RestTyped, OwnerFacts, ExitedFacts, ResolvedFacts
     DEF AdapterInv, AdapterTypeOK, Places, NoRequest, AdapterRequest
<1>6. ContextsInv' BY <1>1, <1>3, <1>4, OpenContexts, ExitedFacts, OwnerFacts DEF ContextsInv
<1>7. MarksInv' BY <1>1, <1>4, StartingFacts DEF AdapterInv, MarksInv
<1>8. ASSUME NEW c \in Callers  PROVE CallerFits(c)'
  <2>1. IF AdapterRequest("start", c, 0) = current THEN caller'[c].result = "failed" ELSE caller'[c] = caller[c]
    BY <1>1, ResolvedFacts
  <2>2. caller'[c].step = caller[c].step /\ caller'[c].gen = caller[c].gen BY <1>1, ResolvedFacts
  <2>3. Stopped => Stopped' BY <1>1 DEF Stopped
  <2>4. session = 0 BY <1>1, StartingFacts
  <2> QED BY <1>1, <1>2, <1>3, <2>1, <2>2, <2>3, <2>4, AskedStill, CallerFacts, CallerServed DEF CallerFits
<1>9. OffInv' BY <1>2 DEF OffInv
<1> QED BY <1>3, <1>5, <1>6, <1>7, <1>8, <1>9 DEF AdapterInv, CallersInv

(* The owner is cancelled, from outside or by stop().                      *)
LEMMA OwnerCancelledStep ==
  ASSUME AdapterInv, OwnerCancelled, UNCHANGED <<stop, gathering>>, deaths' \in 0..MaxDeaths,
         \/ ~Ready /\ deaths' = deaths + 1
         \/ deaths' = deaths /\ stop = "joining" /\ (owner.step = "idle" => queue = <<>>)
  PROVE  AdapterInv'
<1>1. /\ OwnerAlive /\ Dies({current})
      /\ IF owner.step = "idle" THEN UNCHANGED <<live, stack, session>>
         ELSE ClosedStack /\ stack' = 0 /\ session' = 0
      /\ UNCHANGED <<generation, dirty, failures, attempted, startLock>>
  BY DEF OwnerCancelled
<1>2. owner' = [id |-> owner.id, step |-> "dead"] BY <1>1, OwnerFacts DEF Dies, Becomes
<1>3. Failed' /\ (Stopped => Stopped') /\ deaths' \in {deaths, deaths + 1}
  BY OwnerFacts DEF Failed, Stopped
<1>4. \A c \in Callers : caller[c].step = "queued" => session = 0 \/ Stopped
  BY NotReadyFacts DEF Stopped
<1>5. CASE owner.step = "idle"
  <2>1. deaths' = deaths => stack = 0
    <3>1. ASSUME deaths' = deaths  PROVE stop = "joining" /\ queue = <<>> /\ current.op = "none"
      BY <1>5, <3>1, OwnerFacts DEF AdapterInv, RequestsInv, NoRequest, AdapterRequest
    <3> QED BY <1>1, <3>1 DEF AdapterInv, StopInv
  <2>2. owner.id # 0 /\ owner.id <= deaths + 1 /\ \A o \in Owners : o > owner.id => live[o] = 0
    BY <1>5 DEF AdapterInv, ContextsInv
  <2>3. stack = 0 => live[owner.id] = 0 BY <1>1, <2>2 DEF AdapterInv, ContextsInv
  <2>4. ASSUME deaths' = 0, NEW o \in Owners  PROVE live'[o] = 0
    <3>1. deaths' = deaths /\ deaths = 0 BY <2>4, OwnerFacts
    <3> QED BY <1>1, <1>5, <2>1, <2>2, <2>3, <3>1, OwnerFacts DEF Owners
  <2>5. owner.id <= deaths' \/ Stopped'
    BY <1>3, <2>2, OwnerFacts DEF Stopped
  <2>6. owner.id <= deaths' + 1 BY <1>3, <2>2, OwnerFacts
  <2>7. ContextsInv'
    BY <1>1, <1>2, <1>5, <2>2, <2>4, <2>5, <2>6 DEF AdapterInv, ContextsInv, OwnerAlive
  <2>8. session' = session /\ live' \in [Owners -> 0..1] /\ stack' \in Owners \cup {0}
    BY <1>1, <1>5, OwnerFacts DEF AdapterInv, AdapterTypeOK
  <2> QED BY <1>1, <1>3, <1>4, <2>7, <2>8, DiesRests
<1>6. CASE owner.step # "idle"
  <2>1. owner.step \in {"closing", "starting"} BY <1>1, <1>6 DEF OwnerAlive
  <2>2. ClosedStack /\ stack' = 0 /\ session' = 0 BY <1>1, <1>6
  <2>3. owner.id <= deaths' \/ Stopped'
    BY <1>3, <2>1, OpenContexts, OwnerFacts DEF Stopped
  <2>4. owner.id <= deaths' + 1 BY <1>3, <2>1, OpenContexts, OwnerFacts
  <2>5. deaths' = 0 => deaths = 0 BY OwnerFacts
  <2>6. ContextsInv'
    BY <1>2, <2>1, <2>2, <2>3, <2>4, <2>5, OpenContexts, ExitedFacts, OwnerFacts DEF ContextsInv, OwnerAlive
  <2>7. session' # session => dirty # 0 \/ Stopped
    <3>1. owner.step = "starting" => session = 0 BY DEF AdapterInv, ContextsInv
    <3>2. CASE current.op = "reconnect" BY <2>1, <3>2, OpenContexts DEF AdapterInv, ReconnectsInv, Due, Shaped, Gens
    <3>3. CASE current.op = "close" BY <3>3 DEF AdapterInv, StopInv, Stopped
    <3> QED BY <2>1, <2>2, <3>1, <3>2, <3>3 DEF AdapterInv, RequestsInv
  <2> QED BY <1>1, <1>3, <1>4, <2>1, <2>2, <2>6, <2>7, ExitedFacts, DiesRests
<1> QED BY <1>5, <1>6

LEMMA StopBeginsStep ==
  ASSUME AdapterInv, StopBegins
  PROVE  AdapterInv'
<1>1. /\ stop = "no" /\ Stopped' /\ Failed'
      /\ UNCHANGED <<generation, dirty, live, owner, current, failures, deaths, attempted, startLock,
                     flights, caller, warm, gathering>>
  BY DEF StopBegins, Stopped, Failed
<1>2. stop' \in {"joining", "done"} BY DEF StopBegins
<1>3. OffInv' BY <1>1 DEF OffInv
<1>4. CASE OwnerAlive
  <2> DEFINE r == AdapterRequest("close", Nobody, 0)
  <2>1. stop' = "joining" /\ queue' = Append(queue, r) /\ UNCHANGED <<stack, session>> BY <1>4 DEF StopBegins
  <2>2. r \in Reqs /\ Shaped(r) /\ ~Held(r) /\ r.op = "close"
    BY AdapterAssumption DEF Reqs, Shaped, Held, AdapterRequest
  <2> HIDE DEF r
  <2>3. /\ queue' \in Seq(Reqs) /\ Len(queue') = Len(queue) + 1 /\ Len(queue) \in Nat
        /\ \A i \in 1..Len(queue) : queue'[i] = queue[i]
        /\ queue'[Len(queue) + 1] = r
        /\ \A i \in 1..Len(queue') : Shaped(queue'[i])
    BY <2>1, <2>2, QueueGrows DEF AdapterInv, RequestsInv
  <2>4. \A i \in 1..Len(queue') : i \in 1..Len(queue) \/ i = Len(queue) + 1 BY <2>3
  <2>5. AdapterTypeOK'
    <3>1. \A i \in DOMAIN queue' : queue'[i].op \in {"start", "reconnect", "close"} BY <2>3, OpsOfRequests
    <3> QED BY <1>1, <2>1, <3>1 DEF AdapterInv, AdapterTypeOK
  <2>6. RequestsInv' BY <1>1, <1>4, <2>3 DEF AdapterInv, RequestsInv, OwnerAlive
  <2>7. ContextsInv' BY <1>1, <2>1 DEF AdapterInv, ContextsInv, OwnerAlive
  <2>8. MarksInv' BY <1>1, <2>1 DEF AdapterInv, MarksInv, Stopped
  <2>9. NoneHeld => NoneHeld' BY <2>2, <2>3, <2>4 DEF NoneHeld
  <2>10. ReconnectsInv'
    <3>1. \A q : Due(q)' <=> Due(q) BY <1>1 DEF Due
    <3>2. \A i \in 1..Len(queue') : queue'[i].op = "reconnect" => i \in 1..Len(queue)
      BY <2>2, <2>3, <2>4
    <3>3. ASSUME NEW i \in 1..Len(queue'), queue'[i].op = "reconnect"
          PROVE  /\ Due(queue'[i]) /\ current.op # "reconnect"
                 /\ \A j \in 1..Len(queue') : queue'[j].op = "reconnect" => i = j
                 /\ \A j \in 1..Len(queue') : i < j => ~Held(queue'[j])
      BY <2>2, <2>3, <2>4, <3>2, <3>3 DEF AdapterInv, ReconnectsInv
    <3>4. current.op = "reconnect" => Due(current) /\ NoneHeld' BY <2>9 DEF AdapterInv, ReconnectsInv
    <3> QED BY <1>1, <3>1, <3>3, <3>4 DEF ReconnectsInv, Due
  <2>11. StartsInv' BY <1>1, <2>1, <2>9 DEF AdapterInv, StartsInv
  <2>12. ASSUME NEW c \in Callers  PROVE CallerFits(c)'
    <3>1. Asked(c) => Asked(c)' BY <1>1, <2>3 DEF Asked
    <3> QED BY <1>1, <2>1, <3>1, CallerFacts DEF CallerFits
  <2>13. StopInv'
    <3>1. \A i \in 1..Len(queue) : queue[i].op # "close" BY <1>1 DEF AdapterInv, StopInv
    <3>2. current.op # "close" /\ owner.step # "absent" BY <1>1, <1>4 DEF AdapterInv, StopInv, OwnerAlive
    <3>3. queue' # <<>> /\ queue'[Len(queue')].op = "close" BY <2>2, <2>3
    <3> QED BY <1>1, <2>1, <2>2, <2>3, <2>4, <3>1, <3>2, <3>3 DEF StopInv
  <2> QED BY <1>3, <2>5, <2>6, <2>7, <2>8, <2>10, <2>11, <2>12, <2>13 DEF AdapterInv, CallersInv
<1>5. CASE ~OwnerAlive
  <2>1. stop' = "done" /\ stack' = 0 /\ session' = 0 /\ queue' = queue BY <1>5 DEF StopBegins
  <2>2. queue = <<>> /\ Len(queue) = 0 /\ current = NoRequest /\ owner.step \in {"absent", "dead"}
    BY <1>5, OwnerFacts DEF AdapterInv, RequestsInv, OwnerAlive
  <2>3. AdapterTypeOK'
    BY <1>1, <2>1, AdapterAssumption DEF AdapterInv, AdapterTypeOK
  <2>4. RequestsInv' BY <1>1, <2>1 DEF AdapterInv, RequestsInv, OwnerAlive
  <2>5. ContextsInv' BY <1>1, <1>5, <2>1, <2>2, OwnerFacts DEF AdapterInv, ContextsInv, OwnerAlive
  <2>6. MarksInv' BY <1>1, <2>1, <2>2 DEF AdapterInv, MarksInv
  <2>7. ReconnectsInv' /\ StartsInv'
    BY <1>1, <2>1, <2>2 DEF ReconnectsInv, StartsInv, NoneHeld, NoRequest, AdapterRequest
  <2>8. ASSUME NEW c \in Callers  PROVE CallerFits(c)'
    <3>1. ~Asked(c) BY <2>2 DEF Asked, NoRequest, AdapterRequest
    <3> QED BY <1>1, <2>1, <3>1, CallerFacts DEF CallerFits
  <2>9. StopInv'
    BY <1>1, <1>5, <2>1, <2>2 DEF StopInv, OwnerAlive, NoRequest, AdapterRequest
  <2> QED BY <1>3, <2>3, <2>4, <2>5, <2>6, <2>7, <2>8, <2>9 DEF AdapterInv, CallersInv
<1> QED BY <1>4, <1>5

LEMMA OwnerJoinedStep ==
  ASSUME AdapterInv, OwnerJoined
  PROVE  AdapterInv'
<1>1. /\ stop = "joining" /\ owner.step = "dead" /\ stop' = "gathering" /\ stack' = 0 /\ session' = 0
      /\ gathering' \subseteq Gens /\ Stopped /\ Stopped' /\ Failed'
      /\ UNCHANGED <<generation, dirty, live, owner, queue, current, failures, deaths, attempted, startLock,
                     flights, caller, warm>>
  BY DEF OwnerJoined, Stopped, Failed
<1>2. queue = <<>> /\ Len(queue) = 0 /\ current = NoRequest /\ ~OwnerAlive
  BY <1>1 DEF AdapterInv, RequestsInv, OwnerAlive
<1>3. AdapterTypeOK' BY <1>1, AdapterAssumption DEF AdapterInv, AdapterTypeOK
<1>4. RequestsInv' BY <1>1 DEF AdapterInv, RequestsInv, OwnerAlive
<1>5. ContextsInv' BY <1>1, OwnerFacts DEF AdapterInv, ContextsInv, OwnerAlive
<1>6. MarksInv' BY <1>1, <1>2 DEF AdapterInv, MarksInv
<1>7. ReconnectsInv' /\ StartsInv'
  BY <1>1, <1>2 DEF ReconnectsInv, StartsInv, NoneHeld, NoRequest, AdapterRequest
<1>8. ASSUME NEW c \in Callers  PROVE CallerFits(c)'
  <2>1. ~Asked(c) BY <1>2 DEF Asked, NoRequest, AdapterRequest
  <2> QED BY <1>1, <2>1, CallerFacts DEF CallerFits
<1>9. StopInv' /\ OffInv'
  BY <1>1, <1>2 DEF StopInv, OffInv, OwnerAlive, NoRequest, AdapterRequest
<1> QED BY <1>3, <1>4, <1>5, <1>6, <1>7, <1>8, <1>9 DEF AdapterInv, CallersInv

LEMMA FlightsGatheredStep ==
  ASSUME AdapterInv, FlightsGathered
  PROVE  AdapterInv'
<1>1. /\ stop = "gathering" /\ stop' = "done" /\ Stopped /\ Stopped' /\ Failed'
      /\ UNCHANGED <<sessionVars, ownerVars, attempted, startLock, flights, caller, warm, gathering>>
  BY DEF FlightsGathered, Stopped, Failed
<1>2. AdapterTypeOK' BY <1>1, RestTyped, TypeAtRest DEF sessionVars
<1>3. RequestsInv' BY <1>1 DEF AdapterInv, RequestsInv, OwnerAlive, ownerVars
<1>4. ContextsInv' BY <1>1 DEF AdapterInv, ContextsInv, OwnerAlive, ownerVars, sessionVars
<1>5. MarksInv' BY <1>1 DEF AdapterInv, MarksInv, ownerVars, sessionVars
<1>6. ReconnectsInv' /\ StartsInv'
  BY <1>1 DEF AdapterInv, ReconnectsInv, StartsInv, Due, NoneHeld, ownerVars, sessionVars
<1>7. ASSUME NEW c \in Callers  PROVE CallerFits(c)'
  <2>1. Asked(c) => Asked(c)' BY <1>1 DEF Asked, ownerVars
  <2> QED BY <1>1, <2>1, CallerFacts DEF CallerFits
<1>8. StopInv' /\ OffInv'
  <2>1. ~OwnerAlive BY <1>1 DEF AdapterInv, StopInv
  <2>2. queue = <<>> /\ Len(queue) = 0 /\ current = NoRequest
    BY <2>1, OwnerFacts DEF AdapterInv, RequestsInv, OwnerAlive
  <2> QED BY <1>1, <2>1, <2>2 DEF StopInv, OffInv, OwnerAlive, ownerVars, NoRequest, AdapterRequest
<1> QED BY <1>2, <1>3, <1>4, <1>5, <1>6, <1>7, <1>8 DEF AdapterInv, CallersInv

LEMMA AdapterStarts == AdapterInit => AdapterInv
<1> SUFFICES ASSUME AdapterInit  PROVE AdapterInv OBVIOUS
<1> USE AdapterAssumption DEF AdapterInit
<1>1. AdapterTypeOK
  <2>1. /\ owner \in [id: 0..MaxDeaths + 1, step: {"absent", "idle", "closing", "starting", "dead"}]
        /\ DOMAIN queue = {} /\ current.op = "none" /\ live \in [Owners -> 0..1]
    BY DEF NoRequest, AdapterRequest
  <2>2. caller \in [Callers -> [step: Places, gen: 0..MaxGen, result: {"none", "ok", "failed"}]]
    BY DEF Idle, At, Places
  <2>3. flights \in [Gens -> {"none", "new", "waiting", "ok", "failed"}] OBVIOUS
  <2>4. /\ session \in 0..MaxGen /\ generation \in 0..MaxGen /\ dirty \in 0..MaxGen
        /\ stack \in Owners \cup {0} /\ failures \in 0..MaxFailures /\ deaths \in 0..MaxDeaths
    OBVIOUS
  <2>5. /\ attempted \in BOOLEAN /\ startLock \in Callers \cup {Nobody} /\ gathering \subseteq Gens
        /\ warm \in {"due", "waiting", "over"} /\ stop \in {"no", "joining", "gathering", "done"}
    OBVIOUS
  <2> HIDE DEF AdapterInit
  <2> QED BY <2>1, <2>2, <2>3, <2>4, <2>5 DEF AdapterTypeOK, Places
<1>2. Len(queue) = 0 /\ queue \in Seq(Reqs) OBVIOUS
<1>3. RequestsInv BY <1>2 DEF RequestsInv, OwnerAlive, NoRequest, AdapterRequest, Shaped
<1>4. ContextsInv BY DEF ContextsInv, OwnerAlive, Owners
<1>5. MarksInv BY DEF MarksInv
<1>6. ReconnectsInv /\ StartsInv BY <1>2 DEF ReconnectsInv, StartsInv, NoneHeld, NoRequest, AdapterRequest
<1>7. CallersInv /\ OffInv BY DEF CallersInv, CallerFits, OffInv, Idle, At
<1>8. StopInv BY <1>2 DEF StopInv, OwnerAlive, NoRequest, AdapterRequest
<1> QED BY <1>1, <1>3, <1>4, <1>5, <1>6, <1>7, <1>8 DEF AdapterInv

LEMMA AdapterGoesOn == AdapterInv /\ [AdapterNext]_adapterVars => AdapterInv'
<1> SUFFICES ASSUME AdapterInv, [AdapterNext]_adapterVars  PROVE AdapterInv' OBVIOUS
<1>1. CASE \E c \in Callers : \/ CallDirty(c) \/ CallReady(c) \/ CallCold(c) \/ TakeLock(c) \/ CallerStep(c)
                              \/ RpcBreaks(c) \/ RetryBreaks(c) \/ CancelCaller(c)
  BY <1>1, CallDirtyStep, CallReadyStep, CallColdStep, TakeLockStep, StartReturnsStep, HealReturnsStep,
     RpcEndsStep, RejoinReturnsStep, RpcBreaksStep, RetryBreaksStep, CancelCallerStep DEF CallerStep
<1>2. CASE \E g \in Gens : FlightStep(g)
  BY <1>2, FlightRunsStep, FlightEndsStep DEF FlightStep
<1>3. CASE WarmUp BY <1>3, WarmUpStep
<1>4. CASE OwnerStep
  BY <1>4, SkipRequestStep, StartNeedlessStep, BeginStartStep, BeginCloseStep, CloseNothingStep,
     CloseEndsStep, CloseFailsStep, StartSucceedsStep, StartFailsStep DEF OwnerStep, ContextsChanged
<1>5. CASE StopBegins BY <1>5, StopBeginsStep
<1>6. CASE StopStep
  <2>1. CASE StopTimesOut
    <3>1. /\ stop = "joining" /\ (owner.step = "idle" => queue = <<>>) /\ OwnerCancelled
          /\ deaths' = deaths /\ UNCHANGED <<stop, gathering>>
      BY <2>1 DEF StopTimesOut
    <3> QED BY <3>1, OwnerFacts, OwnerCancelledStep
  <2> QED BY <1>6, <2>1, OwnerJoinedStep, FlightsGatheredStep DEF StopStep
<1>7. CASE ~Ready /\ OwnerKilled
  <2>1. deaths' = deaths + 1 /\ deaths' \in 0..MaxDeaths /\ OwnerCancelled /\ UNCHANGED <<stop, gathering>>
    BY <1>7, OwnerFacts, AdapterAssumption DEF OwnerKilled
  <2> QED BY <1>7, <2>1, OwnerCancelledStep
<1>8. CASE UNCHANGED adapterVars
  <2> USE <1>8 DEF adapterVars
  <2>1. FlightsStay BY DEF FlightsStay
  <2>2. RequestsInv' /\ ContextsInv' /\ MarksInv' /\ ReconnectsInv' /\ StartsInv' /\ StopInv'
    BY <2>1, AdapterAtRest
  <2>3. OffInv' BY OffAtRest DEF AdapterInv
  <2>4. AdapterTypeOK' BY RestTyped, TypeAtRest DEF sessionVars
  <2>5. CallersInv' BY CallerFacts, CallerRests DEF CallersInv
  <2> QED BY <2>2, <2>3, <2>4, <2>5 DEF AdapterInv
<1> QED BY <1>1, <1>2, <1>3, <1>4, <1>5, <1>6, <1>7, <1>8 DEF AdapterNext

LEMMA AdapterStays == AdapterSpec => []AdapterInv
BY AdapterStarts, AdapterGoesOn, PTL DEF AdapterSpec

LEMMA AdapterImplied == AdapterInv => AdapterIsSound
<1> SUFFICES ASSUME AdapterInv  PROVE AdapterIsSound OBVIOUS
<1>1. AdapterTypeOK BY DEF AdapterInv
<1>2. NoChildLeaks
  BY OwnerFacts DEF AdapterInv, ContextsInv, NoChildLeaks
<1>3. DirtyIsCurrent BY DEF AdapterInv, MarksInv, DirtyIsCurrent
<1>4. OffOnlyOnFailure BY DEF AdapterInv, OffInv, Failed, OffOnlyOnFailure
<1>5. StoppedIsClosed
  <2> SUFFICES ASSUME stop = "done", deaths = 0  PROVE \A o \in Owners : live[o] = 0
    BY DEF StoppedIsClosed
  <2>1. owner.step \in {"absent", "dead"} BY OwnerFacts DEF AdapterInv, StopInv, OwnerAlive
  <2>2. owner.step = "absent" => \A o \in Owners : o > 0 /\ o > owner.id
    BY AdapterAssumption DEF AdapterInv, ContextsInv, Owners
  <2> QED BY <2>1, <2>2 DEF AdapterInv, ContextsInv
<1> QED BY <1>1, <1>2, <1>3, <1>4, <1>5 DEF AdapterIsSound

(* No child leaks, a dirty mark is the published generation's, nothing     *)
(* but a failure switches surfacing off, and stop() leaves nothing open    *)
(* that a live owner could close: McpClientSearchAdapter, for any callers  *)
(* and any number of sessions, failed starts and cancelled owners.         *)
THEOREM AdapterStaysSound == AdapterSpec => []AdapterIsSound
BY AdapterStays, AdapterImplied, PTL

(* A reconnect never tears down a session that is not dirty: what a        *)
(* sibling's RPC runs on is taken away by nothing but stop() and the       *)
(* replacement of a dead owner (_do_close, _submit).                       *)
LEMMA HealthyStep ==
  AdapterInv /\ [AdapterNext]_adapterVars =>
    (session # 0 /\ session' = 0 => dirty = session \/ Stopped \/ ~OwnerAlive)
<1> SUFFICES ASSUME AdapterInv, [AdapterNext]_adapterVars, session # 0, session' = 0, ~Stopped, OwnerAlive
             PROVE  dirty = session
  OBVIOUS
<1>1. ASSUME owner.step = "closing"  PROVE dirty = session
  <2>1. current.op # "close" BY DEF AdapterInv, StopInv, Stopped
  <2>2. current.op = "reconnect" /\ current.gen \in Gens BY <1>1, <2>1 DEF AdapterInv, RequestsInv, Shaped
  <2>3. dirty = current.gen BY <2>2 DEF AdapterInv, ReconnectsInv, Due
  <2> QED BY <2>2, <2>3 DEF AdapterInv, MarksInv, Gens
<1>2. owner.step # "starting" BY DEF AdapterInv, ContextsInv
<1>3. owner.step = "idle" => session' = session
  <2> SUFFICES ASSUME owner.step = "idle"  PROVE session' = session OBVIOUS
  <2>1. CASE \E c \in Callers : \/ CallDirty(c) \/ CallReady(c) \/ CallCold(c) \/ TakeLock(c) \/ CallerStep(c)
                                \/ RpcBreaks(c) \/ RetryBreaks(c) \/ CancelCaller(c)
    BY <2>1 DEF CallDirty, CallReady, CallCold, TakeLock, StartLocked, CallerStep, StartReturns, HealReturns,
       RpcEnds, RejoinReturns, RpcBreaks, RetryBreaks, CancelCaller, Submit, sessionVars, OwnerAlive
  <2>2. CASE (\E g \in Gens : FlightStep(g)) \/ WarmUp
    BY <2>2 DEF FlightStep, FlightRuns, FlightEnds, WarmUp, Submit, sessionVars, OwnerAlive
  <2>3. CASE OwnerStep
    BY <2>3 DEF OwnerStep, SkipRequest, StartNeedless, BeginStart, BeginClose, CloseNothing, ContextsChanged,
       CloseEnds, CloseFails, StartSucceeds, StartFails, sessionVars
  <2>4. CASE StopBegins \/ StopStep \/ (~Ready /\ OwnerKilled)
    BY <2>4 DEF StopBegins, StopStep, StopTimesOut, OwnerJoined, FlightsGathered, OwnerKilled, OwnerCancelled,
       sessionVars, OwnerAlive
  <2>5. CASE UNCHANGED adapterVars BY <2>5 DEF adapterVars, sessionVars
  <2> QED BY <2>1, <2>2, <2>3, <2>4, <2>5 DEF AdapterNext
<1> QED BY <1>1, <1>2, <1>3 DEF OwnerAlive

THEOREM HealthySessionsStay == AdapterSpec => HealthySessionKept
<1>1. AdapterInv /\ [AdapterNext]_adapterVars =>
        [session # 0 /\ session' = 0 => dirty = session \/ Stopped \/ ~OwnerAlive]_adapterVars
  BY HealthyStep
<1> QED BY <1>1, AdapterStays, PTL DEF AdapterSpec, HealthySessionKept
===============================================================================
