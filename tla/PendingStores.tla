--------------------------- MODULE PendingStores ---------------------------
(***************************************************************************)
(* The pending stores behind stm_proxy_select_chunks and                   *)
(* stm_proxy_read_more: proxy/pending_store.py (two backends with one      *)
(* recency contract), SelectiveCompressor's publication of a selection key *)
(* (proxy/compression.py) and the manager's two slots for them             *)
(* (proxy/manager.py).                                                     *)
(*                                                                         *)
(* A SELECTIVE call pins the compressor of the slot, scores in a worker    *)
(* thread, and publishes its key from that thread: put, expire, trim,      *)
(* under the publish mutex.  Meanwhile the event loop may reload the       *)
(* configuration and swap the slot, cancel the call (the thread goes on),  *)
(* or stop.  A PROGRESSIVE call runs on the loop in one step.  A file may  *)
(* be shared with another process.  A call's key is the call itself; a     *)
(* memory store is the place numbered by its compressor.                   *)
(***************************************************************************)
EXTENDS Integers, Sequences, FiniteSets

CONSTANTS Calls,       \* tool calls whose response is kept for later retrieval
          Peer,        \* the key another process puts into a shared file
          Tools,
          Selectives,  \* values of a tool's "selective" block
          NoBlock,     \* the member of Selectives of a tool that has none
          FileOf,      \* the file of each, or Memory
          Shared,      \* the files another process writes, too
          Keep,        \* max_pending of each
          FirstLayout, \* at start, and
          Layouts,     \* what a reload may install: [sel: tool -> block, more: max_stored]
          Memory, NoCall, Cold,
          MaxReloads, MaxStores, MaxRank, MaxAged   \* bounds of the runs

Files == {FileOf[s] : s \in Selectives} \ {Memory}
Keys == Calls \cup {Peer}
Compressors == 1..MaxStores
\* 0 is the memory of the progressive store.
Places == Files \cup {0} \cup Compressors

ASSUME PendingAssumption ==
  /\ IsFiniteSet(Calls) /\ NoCall \notin Calls /\ Peer \notin Calls
  /\ {MaxRank, MaxStores} \subseteq Nat
  /\ Keep \in [Selectives -> Nat] /\ NoBlock \in Selectives /\ FileOf[NoBlock] = Memory
  /\ Layouts \subseteq [sel : [Tools -> Selectives], more : Nat] /\ FirstLayout \in Layouts
  /\ Shared \subseteq Files /\ Files \cap (0..MaxStores) = {} /\ Cold \notin Selectives

VARIABLES configs,   \* the layouts loaded so far; the last is live
          rows,      \* place -> the rows of the store there
          stores,    \* the compressors built so far
          slot,      \* the manager's compressor, 0 for none
          more,      \* what the progressive store was built for, or Cold
          phase,     \* of the manager: "up", "stopping" or "down"
          mutex,     \* the call that holds the publish mutex
          progress,   \* each call's progress
          order      \* history: place -> the pairs of its keys, the first used before the second

pendingVars == <<configs, rows, stores, slot, more, phase, mutex, progress, order>>

Live == configs[Len(configs)]
Place(i) == IF FileOf[stores[i].cfg] = Memory THEN i ELSE FileOf[stores[i].cfg]
MorePlace == IF FileOf[more] = Memory THEN 0 ELSE FileOf[more]
Kind(r) == IF r.format = "progressive" THEN "progressive" ELSE "selective"

\* A call's record: what it no longer needs is reset.
RowAt(pc) == [pc |-> pc, tool |-> CHOOSE t \in Tools : TRUE, kind |-> "selective", pin |-> 1,
           store |-> 0, target |-> 0, gone |-> FALSE]

PendingInit == /\ configs = <<FirstLayout>>
               /\ rows = [p \in Places |-> {}]
               /\ stores = << >>
               /\ slot = 0
               /\ more = Cold
               /\ phase = "up"
               /\ mutex = NoCall
               /\ progress = [c \in Calls |-> RowAt("idle")]
               /\ order = [p \in Places |-> {}]

---------------------------------------------------------------------------
(* The recency contract of the two backends: put and touch take the next   *)
(* rank, a trim keeps the highest ranks.                                   *)

\* _NEXT_SEQ: the rank is computed inside the writing statement.
RankByCount(rs) == Cardinality(rs) + 1
NextRank(rs) == IF rs = {} THEN 1 ELSE 1 + CHOOSE m \in {r.rank : r \in rs} :
                                              \A r \in rs : r.rank <= m

Other(rs, k) == {r \in rs : r.key # k}
PutRow(rs, k, f) == Other(rs, k) \cup
                    {[key |-> k, format |-> f, rank |-> NextRank(rs), old |-> FALSE]}
Touched(rs, k) == {[r EXCEPT !.rank = IF r.key = k THEN NextRank(rs) ELSE r.rank,
                             !.old = IF r.key = k THEN FALSE ELSE r.old] : r \in rs}
\* evict_expired and evict_progressive_expired, each within its own format.
Expired(rs, kind) == {r \in rs : r.old => Kind(r) # kind}
TrimmedAlike(rs, kind, n) == {r \in rs : Cardinality({q \in rs : q.rank > r.rank}) < n}
\* evict_oldest, scoped to one format.
Trimmed(rs, kind, n) ==
  {r \in rs : \/ Kind(r) # kind
              \/ Cardinality({q \in rs : Kind(q) = kind /\ q.rank > r.rank}) < n}

\* The history of uses at a place: what is used goes last, what is gone leaves.
KeysOf(rs) == {r.key : r \in rs}
Left(p, rs) == {o \in order[p] : {o[1], o[2]} \subseteq KeysOf(rs)}
Used(p, k, rs) == {o \in Left(p, rs) : o[1] # k} \cup ((KeysOf(rs) \ {k}) \X {k})
KeysAt(p) == KeysOf(rows[p])

\* Rows of place p become rs, without or with a use of key k there.
Becomes(p, rs) == /\ rows' = [rows EXCEPT ![p] = rs]
                  /\ order' = [order EXCEPT ![p] = Left(p, rs)]
BecomesUsing(p, k, rs) ==
  /\ NextRank(rows[p]) <= MaxRank
  /\ rows' = [rows EXCEPT ![p] = rs]
  /\ order' = [order EXCEPT ![p] = Used(p, k, rs)]

---------------------------------------------------------------------------
(* Compressors and their stores.                                           *)

Pinned(ss, i) == [ss EXCEPT ![i].uses = @ + 1]
\* close(): deferred to the last end_use while a call is pinned.
Closed(ss, i) == IF i = 0 THEN ss
                 ELSE IF ss[i].uses > 0 THEN [ss EXCEPT ![i].asked = TRUE]
                 ELSE [ss EXCEPT ![i].open = FALSE]
ReleasedForgetting(ss, i) == [ss EXCEPT ![i].uses = @ - 1]
\* end_use(): the last one applies the deferred close.
Released(ss, i) == [ss EXCEPT ![i].uses = @ - 1,
                              ![i].open = @ /\ ~(ss[i].asked /\ ss[i].uses = 1)]
Built(s) == [cfg |-> s, open |-> TRUE, asked |-> FALSE, uses |-> 0]
CanBuild == Len(stores) < MaxStores

---------------------------------------------------------------------------
(* Calls.  A call pins the live configuration when it starts; a SELECTIVE  *)
(* one publishes under the live one in any case.                           *)

Starts(c, t, k) ==
  /\ progress[c].pc = "idle" /\ phase = "up"
  /\ progress' = [progress EXCEPT ![c].pc = "fetched", ![c].tool = t, ![c].kind = k,
                          ![c].pin = IF k = "progressive" THEN Len(configs) ELSE 1]
  /\ UNCHANGED <<configs, rows, stores, slot, more, phase, mutex, order>>

Reload(l) ==
  /\ phase = "up" /\ Len(configs) <= MaxReloads /\ l # Live
  /\ configs' = Append(configs, l)
  /\ UNCHANGED <<rows, stores, slot, more, phase, mutex, progress, order>>

\* _publication_pair: the pin's own block when it is live, else the live one.
Publication(c) == Live.sel[progress[c].tool]

\* What a compressor kept in memory is out of every reader's reach once it has
\* left the slot.
Forgets(ps) == /\ rows' = [p \in Places |-> IF p \in ps THEN {} ELSE rows[p]]
               /\ order' = [p \in Places |-> IF p \in ps THEN {} ELSE order[p]]

\* Under _selective_lock: the slot is rebuilt when it is not the publication
\* generation's, and the compressor is pinned before the lock drops.
Enters(c) ==
  /\ progress[c].pc = "fetched" /\ progress[c].kind = "selective" /\ phase = "up"
  /\ IF slot # 0 /\ stores[slot].cfg = Publication(c)
     THEN /\ stores' = Pinned(stores, slot)
          /\ progress' = [progress EXCEPT ![c] = [RowAt("scoring") EXCEPT !.store = slot]]
          /\ UNCHANGED <<slot, rows, order>>
     ELSE /\ CanBuild /\ mutex = NoCall
          /\ slot' = Len(stores) + 1
          /\ stores' = Pinned(Append(Closed(stores, slot), Built(Publication(c))), slot')
          /\ progress' = [progress EXCEPT ![c] = [RowAt("scoring") EXCEPT !.store = slot']]
          /\ Forgets({slot} \ {0})
  /\ UNCHANGED <<configs, more, phase, mutex>>

\* Refused after stop() began, the lock timed out, or the store did not open.
Refused(c) ==
  /\ progress[c].pc = "fetched"
  /\ progress' = [progress EXCEPT ![c] = RowAt("over")]
  /\ UNCHANGED <<configs, rows, stores, slot, more, phase, mutex, order>>

TargetOwn(c) == progress[c].store
\* _publish: the live generation's store, or the call's own once stop() cleared
\* the slot.
Target(c) == IF slot # 0 THEN slot ELSE progress[c].store

\* The thread's compress() returned or raised; nobody awaits a cancelled call's.
Ends(c) ==
  [progress EXCEPT ![c] = IF @.gone THEN RowAt("over")
                          ELSE [RowAt("ended") EXCEPT !.store = progress[c].store]]

\* The worker thread scores, then puts under the publish mutex; the store
\* refuses a row when it is closed.
Publishes(c) ==
  /\ progress[c].pc = "scoring" /\ mutex = NoCall
  /\ LET i == Target(c) IN
       /\ Place(i) \in Files => stores[i].open
       /\ BecomesUsing(Place(i), c, PutRow(rows[Place(i)], c, "json"))
       /\ progress' = [progress EXCEPT ![c].pc = "expiring", ![c].target = i]
  /\ mutex' = c
  /\ UNCHANGED <<configs, stores, slot, more, phase>>

\* A closed or failing store, a refused (credential-bearing) row: nothing put.
PublishFails(c) ==
  /\ progress[c].pc = "scoring" /\ mutex = NoCall
  /\ progress' = Ends(c)
  /\ UNCHANGED <<configs, rows, stores, slot, more, phase, mutex, order>>

PolicyOwn(c) == progress[c].store
\* _evict runs the policy of the store's owner.
Policy(c) == progress[c].target

EvictExpires(c) ==
  /\ progress[c].pc = "expiring"
  /\ LET p == Place(progress[c].target) IN Becomes(p, Expired(rows[p], "selective"))
  /\ progress' = [progress EXCEPT ![c].pc = "trimming"]
  /\ UNCHANGED <<configs, stores, slot, more, phase, mutex>>

EvictTrims(c) ==
  /\ progress[c].pc = "trimming"
  /\ LET p == Place(progress[c].target)
     IN  Becomes(p, Trimmed(rows[p], "selective", Keep[stores[Policy(c)].cfg]))
  /\ progress' = Ends(c)
  /\ mutex' = NoCall
  /\ UNCHANGED <<configs, stores, slot, more, phase>>

\* An eviction that fails takes the call with it; its row stays.
EvictFails(c) ==
  /\ progress[c].pc \in {"expiring", "trimming"}
  /\ progress' = Ends(c)
  /\ mutex' = NoCall
  /\ UNCHANGED <<configs, rows, stores, slot, more, phase, order>>

Returns(c) ==
  /\ progress[c].pc = "ended"
  /\ stores' = Released(stores, progress[c].store)
  /\ progress' = [progress EXCEPT ![c] = RowAt("over")]
  /\ UNCHANGED <<configs, rows, slot, more, phase, mutex, order>>

\* The task is cancelled at its await: end_use runs, the thread does not stop.
Cancelled(c) ==
  /\ progress[c].pc \in {"scoring", "expiring", "trimming"} /\ ~progress[c].gone
  /\ stores' = Released(stores, progress[c].store)
  /\ progress' = [progress EXCEPT ![c].gone = TRUE]
  /\ UNCHANGED <<configs, rows, slot, more, phase, mutex, order>>

\* _get_progressive_store: rebuilt when the publication's block moved it.
MoreFor(s) == IF more = Cold \/ (s # NoBlock /\ s # more) THEN s ELSE more

\* _apply_progressive: rebuild, then evict (only when the pin is live), then put.
Evicts(c) == progress[c].pin = Len(configs)
Delivers(c) ==
  /\ progress[c].pc = "fetched" /\ progress[c].kind = "progressive" /\ phase = "up"
  /\ more' = MoreFor(Publication(c))
  /\ LET p == IF FileOf[more'] = Memory THEN 0 ELSE FileOf[more']
         had == IF p = 0 /\ more' # more THEN {} ELSE rows[p]
         left == IF Evicts(c) THEN Trimmed(Expired(had, "progressive"), "progressive",
                                           configs[progress[c].pin].more) ELSE had
     IN  BecomesUsing(p, c, PutRow(left, c, "progressive"))
  /\ progress' = [progress EXCEPT ![c] = RowAt("over")]
  /\ UNCHANGED <<configs, stores, slot, phase, mutex>>

---------------------------------------------------------------------------
(* Retrieval.  Several live blocks may name files; a key is looked for in  *)
(* the slot's store and then, when there are several files, in each.       *)

\* _distinct_sqlite_selective_cfgs: the files of the live layout.
LiveFiles == {FileOf[Live.sel[t]] : t \in Tools} \ {Memory}
BlockOf(f) == CHOOSE s \in {Live.sel[t] : t \in Tools} : FileOf[s] = f
Holding(k) == {f \in LiveFiles : k \in KeysAt(f)}
\* _sqlite_cfg_holding_key probes only when there are several.
Probed(k) == IF Cardinality(LiveFiles) > 1 THEN Holding(k) ELSE {}
\* The file a cold slot is filled from: the one that holds the key, or the first.
RecoveryFiles(k) == IF Probed(k) # {} THEN Probed(k) ELSE LiveFiles

SelectedWithoutProbing(k, p) == IF p \in Places THEN {p} ELSE {}
\* The places a lookup that first reads p goes on to.
Searched(k, p) == {p} \cup (IF k \in KeysAt(p) THEN {} ELSE Probed(k))

Readable(p, k, kind) == \E r \in rows[p] : r.key = k /\ Kind(r) = kind /\ ~r.old
Found(k, kind, ps) == {p \in ps : Readable(p, k, kind)}

\* The expiry and the touch of a lookup, at the place that holds the key or at
\* the place read first.
Looks(k, kind, ps, first) ==
  IF Found(k, kind, ps) # {}
  THEN LET p == CHOOSE q \in Found(k, kind, ps) : TRUE
       IN  BecomesUsing(p, k, Touched(Expired(rows[p], kind), k))
  ELSE Becomes(first, Expired(rows[first], kind))

\* select_chunks on a slot that is filled.
Selects(k) ==
  /\ slot # 0
  /\ Looks(k, "selective", Searched(k, Place(slot)), Place(slot))
  /\ UNCHANGED <<configs, stores, slot, more, phase, mutex, progress>>

\* select_chunks on a cold slot: the recovery builds a compressor and installs
\* it under the publish mutex.
SelectRecovers(k, f) ==
  /\ slot = 0 /\ phase = "up" /\ mutex = NoCall /\ CanBuild
  /\ f \in RecoveryFiles(k)
  /\ stores' = Append(stores, Built(BlockOf(f)))
  /\ slot' = Len(stores) + 1
  /\ Looks(k, "selective", {f}, f)
  /\ UNCHANGED <<configs, more, phase, mutex, progress>>

\* read_more; a cold progressive store is built, from a file if there is one.
ReadsMore(k) ==
  /\ \/ more # Cold /\ more' = more
     \/ more = Cold /\ phase = "up" /\ LiveFiles = {} /\ more' = NoBlock
     \/ more = Cold /\ phase = "up" /\ \E f \in RecoveryFiles(k) : more' = BlockOf(f)
  /\ LET p == IF FileOf[more'] = Memory THEN 0 ELSE FileOf[more']
     IN  IF Found(k, "progressive", Searched(k, p)) # {}
         THEN LET q == CHOOSE q \in Found(k, "progressive", Searched(k, p)) : TRUE
              IN  BecomesUsing(q, k, Touched(rows[q], k))
         ELSE Becomes(p, {r \in rows[p] : ~(r.key = k /\ r.old /\ r.format = "progressive")})
  /\ UNCHANGED <<configs, stores, slot, phase, mutex, progress>>

---------------------------------------------------------------------------
(* The manager stops, time passes, another process writes.                 *)

StopSetsFlag == /\ phase = "up"
              /\ phase' = "stopping"
              /\ UNCHANGED <<configs, rows, stores, slot, more, mutex, progress, order>>

\* The two stores are closed, the selective one under the publish mutex.
StopCloses == /\ phase = "stopping" /\ mutex = NoCall
              /\ phase' = "down"
              /\ stores' = Closed(stores, slot)
              /\ slot' = 0
              /\ more' = Cold
              /\ Forgets({0, slot})
              /\ UNCHANGED <<configs, mutex, progress>>

Ages(p) == \E r \in rows[p] :
  /\ ~r.old /\ \A q \in rows[p] : q.rank >= r.rank \/ q.old
  /\ MaxAged > Cardinality(UNION {{q \in rows[x] : q.old} : x \in Files})
  /\ Becomes(p, (rows[p] \ {r}) \cup {[r EXCEPT !.old = TRUE]})
  /\ UNCHANGED <<configs, stores, slot, more, phase, mutex, progress>>

\* Another process publishes into the same file, under its own configuration.
PeerPuts(f) == /\ \A p \in Places : Peer \notin KeysAt(p)
               /\ BecomesUsing(f, Peer, PutRow(rows[f], Peer, "json"))
               /\ UNCHANGED <<configs, stores, slot, more, phase, mutex, progress>>

PendingNext ==
  \/ \E c \in Calls : \/ \E t \in Tools, k \in {"selective", "progressive"} : Starts(c, t, k)
                      \/ Enters(c) \/ Refused(c) \/ Publishes(c) \/ PublishFails(c)
                      \/ EvictExpires(c) \/ EvictTrims(c) \/ EvictFails(c)
                      \/ Returns(c) \/ Cancelled(c) \/ Delivers(c)
  \/ \E l \in Layouts : Reload(l)
  \/ \E k \in Keys : Selects(k) \/ ReadsMore(k) \/ \E f \in Files : SelectRecovers(k, f)
  \/ \E p \in Files : Ages(p)
  \/ \E f \in Shared : PeerPuts(f)
  \/ StopSetsFlag \/ StopCloses

PendingSpec == PendingInit /\ [][PendingNext]_pendingVars

---------------------------------------------------------------------------
(* Properties.                                                             *)

PendingTypeOK ==
  /\ slot \in 0..Len(stores)
  /\ mutex \in Calls \cup {NoCall}
  /\ \A p \in Places : \A r \in rows[p] : r.key \in Keys /\ r.rank \in 1..MaxRank
  /\ \A c \in Calls : progress[c].store \in 0..Len(stores) /\ progress[c].target \in 0..Len(stores)

\* The calls that hold a pin on compressor i.
PinsOn(i) == {c \in Calls : /\ progress[c].pc \in {"scoring", "expiring", "trimming", "ended"}
                            /\ progress[c].store = i /\ ~progress[c].gone}

\* A compressor's store is open exactly as long as the manager's slot or a call
\* that has not been cancelled needs it: no rebuild, recovery or stop closes it
\* under a worker, and none leaves a connection open behind.
OpenWhileNeeded ==
  /\ PendingTypeOK
  /\ \A i \in 1..Len(stores) : stores[i].open <=> (i = slot \/ PinsOn(i) # {})

\* The rank of a row is its place in the order of use, whichever process used it
\* last: what a trim drops is what was used longest ago (#901).
RanksAreRecency ==
  \A p \in Places : \A r, q \in rows[p] :
    /\ <<r.key, q.key>> \in order[p] <=> r.rank < q.rank
    /\ r.key = q.key \/ r.rank = q.rank => r = q

\* A selection key a worker publishes lands in the store that select_chunks
\* reads at that moment, however often the slot was swapped while it scored
\* (#898).
PublishedWhereRead ==
  [][\A c \in Calls : \A p \in Places :
       (progress[c].kind = "selective" /\ c \in {r.key : r \in rows'[p]} \ KeysAt(p) /\ slot # 0)
         => p = Place(slot)]_pendingVars

\* A row that has not expired is dropped only by a trim of its own format under
\* the policy of the generation in force: that many of its kind remain.
Dropped(p) == {r \in rows[p] : ~r.old /\ r.key \notin {q.key : q \in rows'[p]}}
Remaining(p, kind) == {r \in rows[p] : Kind(r) = kind /\ r.key \in {q.key : q \in rows'[p]}}
TrimsAreLive ==
  [][\A p \in Files \cup (({slot} \cap {slot'}) \ {0}) : \A r \in Dropped(p) :
       IF Kind(r) = "progressive"
       THEN Cardinality(Remaining(p, "progressive")) >= Live.more
       ELSE slot # 0 => /\ p = Place(slot)
                        /\ Cardinality(Remaining(p, "selective")) >= Keep[stores[slot].cfg]]_pendingVars

\* What a lookup now would find, the slot being filled or filled by it.
Answers(k) == IF slot # 0 THEN Found(k, "selective", Searched(k, Place(slot))) # {}
              ELSE \A f \in RecoveryFiles(k) : Readable(f, k, "selective")

\* While several files are configured a live key in any of them is found,
\* whichever store the slot holds (#583).
FilesAreSearched ==
  phase = "up" /\ Cardinality(LiveFiles) > 1 =>
    \A k \in Keys : (\E f \in LiveFiles : Readable(f, k, "selective")) => Answers(k)

\* Connections and ranks are what their users made them, and a lookup finds every
\* live key.
PendingIsSound == OpenWhileNeeded /\ RanksAreRecency /\ FilesAreSearched

\* A publication, its put and its trims alike, is one of the generation in force.
PublicationsAreLive == PublishedWhereRead /\ TrimsAreLive
=============================================================================
