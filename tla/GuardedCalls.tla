---------------------------- MODULE GuardedCalls -----------------------------
(***************************************************************************)
(* A proxied tool call around the response cache: ProxyManager.call_tool,  *)
(* _call_tool_guarded and _call_tool_inner of proxy/manager.py, for one    *)
(* server, one tool and one set of arguments.  The stretch between two     *)
(* awaits is one action.                                                   *)
(*                                                                         *)
(* A configuration of the server has a connection, the settings that shape *)
(* the stored body, its own TTL and cache overrides (per tool or per       *)
(* server, "inherit" where it has none) and the global TTL.  A snapshot    *)
(* whose file no longer lists the server has connection None.              *)
(*                                                                         *)
(* Left out: stop(), metrics, selection telemetry, lookup faults (served   *)
(* as misses) and direct calls of _call_tool_inner.                        *)
(***************************************************************************)
EXTENDS Integers, FiniteSets

CONSTANTS
  Callers,         \* concurrent call_tool invocations
  Configs,         \* snapshots the config file goes through
  WritesMayFail,   \* whether a cache INSERT or DELETE may raise
  None             \* no connection, no row, no holder

Listed == {f \in Configs : f.conn # None}
Conns == {f.conn : f \in Listed}
Shapes == {f.shape : f \in Listed}
Keys == Conns \X Shapes

ASSUME GuardedAssumption ==
  /\ None \notin Callers \cup Keys
  /\ Listed # {}
  /\ WritesMayFail \in BOOLEAN
  /\ \A f \in Listed : /\ f.ttl \in {"on", "off", "inherit"}
                       /\ f.cache \in {"yes", "no", "annotated"}
  /\ \A f \in Configs : f.default \in BOOLEAN

VARIABLES
  file,         \* self._config, hot-reloaded
  installed,    \* conn.config
  replayable,   \* the annotation policy's verdict on conn.tools
  recovering,   \* the config a background reconnect installs, or None
  row,          \* per key, the connection and shape of the live row's body, or None
  holder,       \* per key, the call inside its stampede lock
  pc,           \* where each call is
  pinned,       \* cfg_snap
  route,        \* the branch of _call_tool_guarded the call took
  key,          \* config_fp
  identity,     \* cache_identity
  sent,         \* connection_identity of the attempt under way or answered
  shape         \* what tc made of the reply

call == <<pc, pinned, route, key, identity, sent, shape>>
server == <<file, installed, replayable, recovering>>
vars == <<server, row, holder, call>>

Lock == INSTANCE KeyMutex WITH Tasks <- Callers, inside <- holder

Init ==
  /\ file \in Listed /\ installed = file
  /\ replayable = TRUE /\ recovering = None
  /\ row = [k \in Keys |-> None] /\ Lock!Init
  /\ pc = [c \in Callers |-> "idle"] /\ pinned = [c \in Callers |-> None]
  /\ route = [c \in Callers |-> "none"] /\ key = [c \in Callers |-> None]
  /\ identity = [c \in Callers |-> None] /\ sent = [c \in Callers |-> None]
  /\ shape = [c \in Callers |-> None]
-----------------------------------------------------------------------------
(* What a pinned snapshot resolves to now: _server_cfg falls back to the   *)
(* installed config when the snapshot does not list the server.            *)

ServerCfg(f) == IF f.conn = None THEN installed ELSE f

KeyOf(f) == <<ServerCfg(f).conn, ServerCfg(f).shape>>

TtlOn(f) ==
  IF ServerCfg(f).ttl = "inherit" THEN f.default ELSE ServerCfg(f).ttl = "on"

Eligible(f) ==
  IF ServerCfg(f).cache = "annotated" THEN replayable ELSE ServerCfg(f).cache = "yes"

(* _invalidate_disabled_cache: a best-effort DELETE when caching is off.   *)
AfterDrain(c) ==
  IF TtlOn(pinned[c]) THEN {row}
  ELSE {[row EXCEPT ![KeyOf(pinned[c])] = None]} \cup (IF WritesMayFail THEN {row} ELSE {})

Release(c) ==
  IF holder[key[c]] = c THEN Lock!Leave(c, key[c]) ELSE UNCHANGED holder

(* A bug: a call keeps its key when it ends. *)
SettleKept(c) ==
  /\ Release(c)
  /\ pc' = [pc EXCEPT ![c] = "idle"] /\ pinned' = [pinned EXCEPT ![c] = None]
  /\ route' = [route EXCEPT ![c] = "none"] /\ UNCHANGED key
  /\ identity' = [identity EXCEPT ![c] = None] /\ sent' = [sent EXCEPT ![c] = None]
  /\ shape' = [shape EXCEPT ![c] = None]

(* The call returns, raises or is cancelled, and leaves its lock.          *)
Settle(c) ==
  /\ Release(c)
  /\ pc' = [pc EXCEPT ![c] = "idle"] /\ pinned' = [pinned EXCEPT ![c] = None]
  /\ route' = [route EXCEPT ![c] = "none"] /\ key' = [key EXCEPT ![c] = None]
  /\ identity' = [identity EXCEPT ![c] = None] /\ sent' = [sent EXCEPT ![c] = None]
  /\ shape' = [shape EXCEPT ![c] = None]
-----------------------------------------------------------------------------
(* The start of a call, up to the first await.  A hit re-surfaces the row; *)
(* a miss queues on the key's lock; the other two routes forward.          *)
Begin(c) ==
  /\ pc[c] = "idle"
  /\ pinned' = [pinned EXCEPT ![c] = file]
  /\ key' = [key EXCEPT ![c] = KeyOf(file)]
  /\ LET r == IF ~TtlOn(file) THEN "off"
              ELSE IF ~Eligible(file) THEN "ineligible" ELSE "guarded"
     IN /\ route' = [route EXCEPT ![c] = r]
        /\ pc' = [pc EXCEPT ![c] = IF r # "guarded" THEN "fetching"
                                   ELSE IF row[KeyOf(file)] # None THEN "serving"
                                   ELSE "waiting"]
        /\ identity' = [identity EXCEPT ![c] =
                          IF r = "guarded" THEN None ELSE ServerCfg(file).conn]
  /\ UNCHANGED <<server, row, holder, sent, shape>>

(* A bug: a miss goes upstream without queueing on the lock. *)
EnterUnlocked(c) ==
  /\ pc[c] = "waiting"
  /\ pc' = [pc EXCEPT ![c] = IF row[key[c]] # None THEN "serving" ELSE "fetching"]
  /\ identity' = [identity EXCEPT ![c] =
                    IF row[key[c]] # None THEN None ELSE ServerCfg(pinned[c]).conn]
  /\ UNCHANGED <<server, row, holder, pinned, route, key, sent, shape>>

(* The lock is acquired, the row looked up again, and on a second miss     *)
(* _call_tool_inner pins the identity of the connection.                   *)
Enter(c) ==
  /\ pc[c] = "waiting" /\ Lock!Enter(c, key[c])
  /\ pc' = [pc EXCEPT ![c] = IF row[key[c]] # None THEN "serving" ELSE "fetching"]
  /\ identity' = [identity EXCEPT ![c] =
                    IF row[key[c]] # None THEN None ELSE ServerCfg(pinned[c]).conn]
  /\ UNCHANGED <<server, row, pinned, route, key, sent, shape>>

(* _on_cache_hit: surfacing over the stored body. *)
Serve(c) == pc[c] = "serving" /\ Settle(c) /\ UNCHANGED <<server, row>>

(* The request's own reconnect: a hot-edited connection, or the one before *)
(* a retry.                                                                *)
Reconnect(c) ==
  /\ pc[c] = "fetching" /\ installed # ServerCfg(pinned[c])
  /\ installed' = ServerCfg(pinned[c])
  /\ UNCHANGED <<file, replayable, recovering, row, holder, call>>

Dispatch(c) ==
  /\ pc[c] = "fetching"
  /\ pc' = [pc EXCEPT ![c] = "rpc"] /\ sent' = [sent EXCEPT ![c] = installed.conn]
  /\ UNCHANGED <<server, row, holder, pinned, route, key, identity, shape>>

(* An ambiguous failure of an idempotent tool, within the deadline. *)
Retry(c) ==
  /\ pc[c] = "rpc"
  /\ pc' = [pc EXCEPT ![c] = "fetching"] /\ sent' = [sent EXCEPT ![c] = None]
  /\ UNCHANGED <<server, row, holder, pinned, route, key, identity, shape>>

(* What _call_tool_guarded does with a raise: only the branch without a    *)
(* lookup drains the row.                                                  *)
Raise(c) ==
  /\ row' \in (IF route[c] = "off" THEN AfterDrain(c) ELSE {row})
  /\ Settle(c)

(* _fetch_upstream raises: breaker open, recovery failed, deadline, or the *)
(* last attempt failed; the latter two may leave a reconnect behind.       *)
FailFetch(c) ==
  /\ pc[c] \in {"fetching", "rpc"} /\ Raise(c)
  /\ \/ UNCHANGED recovering
     \/ recovering = None /\ recovering' = ServerCfg(pinned[c])
  /\ UNCHANGED <<file, installed, replayable>>

(* A reply returned before the cache store: oversized, isError, metadata   *)
(* or structured bypass, or no text.  Each drains for itself.              *)
ReturnEarly(c) ==
  /\ pc[c] = "rpc" /\ row' \in AfterDrain(c) /\ Settle(c) /\ UNCHANGED server

(* A text reply is shaped and compressed under the pinned snapshot. *)
Reply(c) ==
  /\ pc[c] = "rpc"
  /\ pc' = [pc EXCEPT ![c] = "processing"]
  /\ shape' = [shape EXCEPT ![c] = ServerCfg(pinned[c]).shape]
  /\ UNCHANGED <<server, row, holder, pinned, route, key, identity, sent>>

(* A DeliveryError returns its own result, any other error is a raise. *)
FailDelivery(c) == pc[c] = "processing" /\ row' \in AfterDrain(c) /\ Settle(c) /\ UNCHANGED server

FailPipeline(c) == pc[c] = "processing" /\ Raise(c) /\ UNCHANGED server

(* A bug: a reply of the connection that a failed edit left serving is     *)
(* stored under the edited key.                                            *)
AfterStoreUnmatched(c, retry, nontext, storable) ==
  IF retry THEN {row}
  ELSE IF nontext \/ ~TtlOn(pinned[c]) THEN AfterDrain(c)
  ELSE IF ~Eligible(pinned[c]) \/ ~storable THEN {row}
  ELSE {[row EXCEPT ![key[c]] = <<sent[c], shape[c]>>]} \cup (IF WritesMayFail THEN {row} ELSE {})

(* _store_cache, with the facts about the response it is given: what the   *)
(* post-processing left to retry, and whether the content may be stored.   *)
AfterStore(c, retry, nontext, storable) ==
  IF sent[c] # identity[c] THEN AfterDrain(c)
  ELSE IF retry THEN {row}
  ELSE IF nontext \/ ~TtlOn(pinned[c]) THEN AfterDrain(c)
  ELSE IF ~Eligible(pinned[c]) \/ ~storable THEN {row}
  ELSE {[row EXCEPT ![key[c]] = <<sent[c], shape[c]>>]} \cup (IF WritesMayFail THEN {row} ELSE {})

Store(c) ==
  /\ pc[c] = "processing"
  /\ \E retry, nontext, storable \in BOOLEAN : row' \in AfterStore(c, retry, nontext, storable)
  /\ Settle(c) /\ UNCHANGED server

(* A bug: a cancelled call does not leave its lock. *)
CancelHolding(c) ==
  /\ pc[c] # "idle" /\ UNCHANGED <<server, row, holder>>
  /\ pc' = [pc EXCEPT ![c] = "idle"] /\ pinned' = [pinned EXCEPT ![c] = None]
  /\ route' = [route EXCEPT ![c] = "none"] /\ key' = [key EXCEPT ![c] = None]
  /\ identity' = [identity EXCEPT ![c] = None] /\ sent' = [sent EXCEPT ![c] = None]
  /\ shape' = [shape EXCEPT ![c] = None]

(* The client's request is cancelled at an await: nothing is invalidated.  *)
Cancel(c) == pc[c] # "idle" /\ Settle(c) /\ UNCHANGED <<server, row>>
-----------------------------------------------------------------------------
(* The environment. *)

Reload == /\ file' \in Configs \ {file}
          /\ UNCHANGED <<installed, replayable, recovering, row, holder, call>>

(* A refreshed catalogue changes the tool's annotations. *)
Relist == /\ replayable' = ~replayable
          /\ UNCHANGED <<file, installed, recovering, row, holder, call>>

(* The background reconnect ends, with or without a new session. *)
Recovered == /\ recovering # None /\ recovering' = None
             /\ installed' \in {installed, recovering}
             /\ UNCHANGED <<file, replayable, row, holder, call>>

(* A row expires, is evicted or is cleared. *)
Drop(k) == /\ row[k] # None /\ row' = [row EXCEPT ![k] = None]
           /\ UNCHANGED <<server, holder, call>>

FetchEnds(c) == FailFetch(c) \/ ReturnEarly(c) \/ Reply(c)

ProcessEnds(c) == FailDelivery(c) \/ FailPipeline(c) \/ Store(c)

Next ==
  \/ \E c \in Callers :
       \/ Begin(c) \/ Enter(c) \/ Serve(c) \/ Reconnect(c) \/ Dispatch(c) \/ Retry(c)
       \/ FetchEnds(c) \/ ProcessEnds(c) \/ Cancel(c)
  \/ Reload \/ Relist \/ Recovered
  \/ \E k \in Keys : Drop(k)

Spec == Init /\ [][Next]_vars

(* asyncio.Lock serves its waiters first come first served, a fetch ends   *)
(* at its deadline, and the stages after it are bounded by their own.      *)
FairSpec ==
  /\ Spec
  /\ \A c \in Callers : /\ SF_vars(Enter(c)) /\ WF_vars(Serve(c))
                        /\ WF_vars(FetchEnds(c)) /\ WF_vars(ProcessEnds(c))
-----------------------------------------------------------------------------
(* The shape of every state: a call that is under way knows its snapshot   *)
(* and its key, and a row holds a body of some connection and shape.       *)
TypeOK ==
  /\ file \in Configs /\ installed \in Listed
  /\ replayable \in BOOLEAN /\ recovering \in Listed \cup {None}
  /\ row \in [Keys -> Keys \cup {None}] /\ holder \in [Keys -> Callers \cup {None}]
  /\ pc \in [Callers -> {"idle", "waiting", "serving", "fetching", "rpc", "processing"}]
  /\ pinned \in [Callers -> Configs \cup {None}]
  /\ route \in [Callers -> {"none", "off", "ineligible", "guarded"}]
  /\ key \in [Callers -> Keys \cup {None}]
  /\ identity \in [Callers -> Conns \cup {None}] /\ sent \in [Callers -> Conns \cup {None}]
  /\ shape \in [Callers -> Shapes \cup {None}]
  /\ \A c \in Callers : (pc[c] = "idle") <=> (key[c] = None)

(* A row is only ever a body that its key's connection produced, shaped by *)
(* its key's settings, whatever reconnects and reloads ran while the call  *)
(* that stored it waited, fetched and compressed (#871, and the identity   *)
(* captured at dispatch).                                                  *)
RowsMatchKeys == \A k \in Keys : row[k] \in {None, k}

(* The stampede guard: identical calls never have two upstream fetches in  *)
(* flight, even when each pinned a different snapshot (#878).              *)
Fetches(c) == route[c] = "guarded" /\ pc[c] \in {"fetching", "rpc", "processing"}

OneFetchPerKey ==
  \A c, d \in Callers : c # d /\ Fetches(c) /\ Fetches(d) => key[c] # key[d]

(* The stampede guard in states of the declared shape.                     *)
FetchesAreGuarded == TypeOK /\ OneFetchPerKey

(* Every call ends, though the ones it queues behind may be cancelled,     *)
(* fail or serve a hit while they hold the lock.                           *)
CallsEnd == \A c \in Callers : pc[c] # "idle" ~> pc[c] = "idle"

(* What the comments of _call_tool_guarded and _store_cache promise: a     *)
(* call made with caching off, however it returns or raises, leaves no row *)
(* under its key to resurface when the TTL is raised again (#541, #548).   *)
DisabledDrains ==
  [][\A c \in Callers :
       route[c] = "off" /\ (FailFetch(c) \/ ReturnEarly(c) \/ ProcessEnds(c))
         => row'[key[c]] = None]_vars
=============================================================================
