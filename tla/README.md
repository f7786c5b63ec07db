# A TLA+ model of memtomem-stm

memtomem-stm is an MCP proxy. An agent talks to it as if it were one MCP
server; behind it are several upstream MCP servers and one long-term-memory
server (the LTM). A tool call goes to its upstream, the answer is cleaned,
compressed, enriched with memories from the LTM ("surfacing"), stored in a
response cache and returned. Surfacing may also run in a daemon that several
host applications share, and a set of commands moves server registrations
between the hosts' configuration files and the proxy's own. Almost everything
runs on one asyncio event loop, so the hard part is not memory races but what
happens between two `await`s: a reconnect, a hot reload, a cancellation, a
shutdown. The rest is several processes over one SQLite file, one log, one lock
file, one handshake record or one configuration file.

This directory models those parts in TLA+, checks them with TLC and proves
every safety invariant and action property of the checked instances with TLAPS,
for all values of the constants. Source paths below are relative to
`src/src/memtomem_stm/`; `PROJECT.json` maps every definition to its lines.

Contents: [inventory](#1-inventory) · [plan](#2-plan) ·
[modules](#3-modules-and-the-code) · [runs](#4-runs) ·
[fairness](#5-fairness) · [findings](#6-where-the-code-and-its-comments-disagree) ·
[proofs](#7-proofs) · [limits](#8-what-is-not-shown)

## 1. Inventory

### Components that keep interesting state

| component (source) | state | operations | hard behaviour | correct when |
|---|---|---|---|---|
| circuit breaker (`utils/circuit_breaker.py`) | failure count, state, time of opening | `is_open`, `record_success`, `record_failure` | outcomes of calls admitted long ago arrive in any order; half-open is computed, not stored | late failures do not prolong an outage; every outage ends |
| upstream connection (`proxy/manager.py`) | published session and its generation, leases per generation, retired transports and their close tasks, an "unavailable" mark, a shared recovery task, the reconnect lock | dispatch and release, retry, reconnect, recovery, config-change reconnect, retire | a swap under running RPCs; cancellation anywhere; a reload that races a recovery | no RPC loses its transport to a reconnect, no transport is forgotten, at most one recovery, no edit is lost |
| guarded calls (`proxy/manager.py`) | a stampede lock and a cache key per call, the connection identity of the attempt | lookup, fetch, process, store | the connection and the settings change while a call waits or fetches | a row holds only what its key's connection and settings produced; one fetch per key |
| response pipeline (`proxy/manager.py`, `compression.py`, `pipeline_stages.py`) | what has become of a reply, the background stages in flight | shape, compress, surface, index, extract, count, cache | a stage that fails, is refused at the cap or is cancelled after the answer was shaped | only a body that lost nothing is cached; every call is counted once |
| keyed locks (`utils/keyed_locks.py`) | an entry with a lock and a count per key in use | `hold` | cancellation before and after the wake-up | mutual exclusion per key, no entry leaks |
| response cache (`proxy/cache.py`) | rows, invalidation queue, triggers, policy stamp, in one SQLite file | `initialize` (repair), `get`, `set`, `clear`, `close` | several processes, some of older builds, initialize and write at once; a crash in the repair | what a stamp vouches for was vetted by its policy; nothing unvetted survives `initialize` |
| pending stores (`proxy/pending_store.py`, `compression.py`) | large answers by key and recency rank, in memory or in files; two slots for the compressors | publish, touch, expire, trim, `select_chunks`, `read_more` | shared by processes; the publishing thread outlives a cancelled call; reloads swap the slot | a live key is found where selections look; a store closes when the last user leaves |
| tool catalogue (`proxy/manager.py`, `server.py`) | tool list per connection, dirty and running marks; verdicts, advertisement, registered names | `tools/list_changed`, refresh, `get_proxy_tools`, the gate of every call | a reconnect replaces the session during the listing; bundle, catalogue, settings and host move independently | an old listing never replaces a newer one; what is offered was approved |
| tool graph consult (`proxy/manager.py`, `toolgraph_cache.py`) | a cache file of verdicts by generation | probe, question, facts, write | the graph moves on between two questions; starts share the file | no verdict of a generation the server has left |
| manager shutdown, fact extractors (`proxy/manager.py`) | the task set and its cap, retiring extractors with claims and retry requests | `stop`, `_spawn_background`, `_get_extractor` | stop and rebuild overlap; cancelled close tasks | everything opened is closed once; no close loses its last retry |
| LTM adapter (`surfacing/mcp_client.py`) | session, owner task and queue, dirty mark, start lock, reconnect flights | `search` and other RPCs, `warm_up`, `stop`, reconnect | transport contexts belong to one task; callers leave at their timeout; the owner may be cancelled | one open child at most, healthy sessions stay, every waiter is answered, `stop` ends |
| surfacing engine (`surfacing/engine.py`, `relevance.py`) | session dedup claims, rate slots, breaker, abandoned operations, result cache | `surface`, `stop` | timeout against answer, cancellation after a claim | a claim is given back exactly if nothing was delivered; a healthy LTM is not charged |
| store worker and feedback store (`surfacing/store_io.py`, `feedback_store.py`) | a bounded FIFO of writes on one thread; fault episodes in a shared file | enqueue, await, close; open and close an episode | writes outlive their callers and arrive out of order; teardown drops the queue | the count of slots is exact; every open episode has an owner; the close comes last |
| ratings and tuning (`surfacing/engine.py`, `feedback.py`) | ratings, accepted events, hidden results; a score per tool, saved and in memory | `handle_feedback(_batch)`, `maybe_adjust` | callers give up; servers adjust the same scores | a rating takes effect once; a score moves only on new evidence and stays in its band |
| metrics and selection log (`proxy/metrics_store.py`, `selection_log.py`) | recent and daily rows; a log with rotated backups | record, trim, backfill; append, rotate, label | builds of different age share the file; torn writes, renames under open files | no record is lost or counted twice; what was reported written is found |
| daemon (`daemon/`, `cli/daemon_cmd.py`) | lifetime lock, handshake record, admitted requests | serve, drain, tear down; start, stop, stop --all, ping, request | starters race, a stop acts on a record it read earlier, daemons die at any point | one owner; the record lasts until the teardown is over; a stop reports the truth |
| server lifespan (`server.py`, `utils/signal_shutdown.py`, `parent_liveness.py`, `teardown_watchdog.py`) | what is open, the teardown's step, the watcher's memory of its client | open, serve, tear down step by step, exit | steps hang or are cancelled; a watchdog thread fires at any time | a resource closes behind its users; a client that is served is not taken for gone |
| child reaper (`utils/child_reaper.py`, `daemon/spawn.py`) | claims on detached children, probe windows | spawn, reap, sweep | pids are recycled between enumeration and signal | a sweep never signals a process that is not ours |
| commands on files (`cli/proxy.py`, `cli/mms_import.py`, `cli/mms_host.py`, `mms/state.py`) | the hosts' files, STM's file and its backup rows; the registry and its baselines | add --import, init, prune, eject, remove, add, tune; import, sync | hosts take no lock; a command dies between two writes | nothing is saved over what was not read; no entry leaves without evidence |

### How they interact

    agent ── call_tool ──> gate (exposure) ── guarded call ── stampede lock (keyed locks)
                              │   └── response cache (SQLite, shared by processes)
                              └── _fetch_upstream ──> upstream connection ── breaker
                                                       │  └── recovery task, retire tasks
                                                       └── tools/list_changed ──> refresh
    answer ── response pipeline ── pending stores (select_chunks, read_more)
                 ├── fact extractors, index stage (background tasks under a cap)
                 ├── metrics, selection log
                 └── surfacing engine ── LTM adapter ──> LTM child
                        │     └── or the daemon, through its record and lock
                        └── store worker ── feedback store ── tuning
    process ── lifespan: opens and closes all of the above; reaps what is left
    commands ── hosts' files, STM's file, registry (file locks)

The guarded call uses the keyed lock and reads the connection's configuration;
the connection uses the breaker; the engine uses the breaker, the keyed locks
and the adapter. The configuration is hot-reloaded between any two awaits.

### Components without a model

`PROJECT.json` lists every part with its status and the reason: the text work of
the pipeline (cleaning, the compressors themselves, scoring), evaluation,
configuration parsing, prompts and diagnostics of the command line, hooks,
transports, logging, tracing and redaction are pure functions or pure I/O.
Their failure modes appear as nondeterministic outcomes of the modelled steps
(an RPC that fails, a write that raises, a start that does not come up).

## 2. Plan

The order in which the project was built, the most important behaviour first:

1. the proxy's core: `UpstreamConnection` with `CircuitBreaker`; `KeyMutex`
   (abstract) and `KeyedLocks`, which implements it; `GuardedCalls`, which
   composes the mutex with the snapshots and identities of a call;
2. shared files and processes: `ResponseCache`, `LtmAdapter`, `Daemon`;
3. what the manager keeps beside its connections: `UpstreamShutdown`,
   `ToolsRefresh`, `RetiringExtractors`, `PendingStores`, then `ToolExposure`
   and `GraphConsult`, composed by `Manager`;
4. what happens to an answer: `SurfacingEngine`, `ResponsePipeline`;
5. what is recorded: `StoreWorker`, `FeedbackEffects`, `FeedbackTuning`,
   `MetricsFile`, `SelectionLog`, composed by `Stores`;
6. the process and the commands: `ServerLifespan`, `ChildReaper`, `HostMoves`,
   `ServerRegistry`, the last three composed by `FileCommands`;
7. the proofs, component by component in the same order.

What would come next: the field-filling and pruning compressors as pure
operators against a reference definition; the page boundaries of progressive
contents; the validation rules of the configuration; the hooks of the hosts;
the first connect of `ProxyManager.start()`. Abstract specifications worth
stating: an abstract connection (a call runs on a live transport or fails) for
`UpstreamConnection`, and a single-slot service for `Daemon`.

## 3. Modules and the code

One action is the stretch of code between two awaits, or one transaction, or
one system call, together with everything that stretch changes. Composing
modules put parts that share no variable side by side: a behaviour moves one
part and leaves the others as they began, so the states are a sum and not a
product.

### The proxy's calls

**`CircuitBreaker`** (operators and actions, no processes). `age` counts time
since the breaker opened and saturates at `ResetTimeout`; `HalfOpen` is computed
from it as `_effective_state` does. `record_failure` counts before it decides.
The modules that use a breaker extend it.

**`UpstreamConnection`** is one upstream. `gen`, `installed`, `active`,
`retired`, `retiring`, `unavailable` and `recoveryTask` are the fields of the
same meaning in the class `UpstreamConnection`; `transport` says what each
generation's owner task has done with its transport; `desired` is the file.
`call[c]` is a run of `_fetch_upstream` (pc, pinned config, generation it
leases, attempt, recovery it awaits), `rc[p]` a run of `_reconnect_server` by a
caller or a recovery task: wait for the lock, skip or establish, swap, leave.
`Swap` publishes the new generation and retires the old one in one step, as the
code does without an await. A release of the last lease of a retired generation
spawns the close task. `DeadlineExpires`, `DispatchTooLate` and `CallCancelled`
end a call at any await, and clear what its `finally` clears.

**`KeyedLocks`** models `hold` together with CPython's `asyncio.Lock`: `ahead`
is the FIFO order, `future` says whether a waiter was woken or cancelled. The
entry's count is claimed before the await and released in the `finally`.
**`KeyMutex`** is what users of the locks may assume.

**`GuardedCalls`** is `call_tool` for one server, tool and argument set, with
`KeyMutex` for the stampede lock. A call pins a snapshot, derives its key from
it (from the installed configuration when the snapshot does not list the
server), looks the row up, enters the lock, looks again, fetches on whatever
connection is then installed (`sent`), shapes the reply, and stores it only if
it was sent on the connection pinned before the fetch (`identity`). The file
changes, the catalogue is listed again and background reconnects end between any
two steps; a call may be cancelled at each of its awaits.

**`ResponsePipeline`** is what happens between that fetch and that store:
`run[c]` carries the reply, the settings the call pinned and what each stage made
of it (`form`, `met`, `index`, `extract`), `row` the one cache row, `jobs` the
background stages under their cap, `closing` a manager that stops. A body is
`full`, `cut` or a key into a pending store; texts and sizes are abstracted to
whether they fit.

**`ResponseCache`** has the whole SQLite file as shared state: `rows`, `queue`
(the invalidation table the triggers fill), `triggers` (the text installed in
the file), `stamp` (a policy or a repair token). Each process is closed, in a
step of `_repair_privacy_policy`, or open. Processes differ in policy and in
the trigger text they install; `LegacyWrite` is a build that knows only the row
table. `Set` is gate, upsert, trigger effect, dequeue and trim in one
transaction. The unlocked sweep reads a snapshot; its verdicts are applied later.
`MCResponseCache` puts the pipeline beside it.

### The manager (`Manager`, `MCManager`)

**`PendingStores`**: `stores` are the compressors built so far, `slot` the one
the manager holds, `rows[p]` the store at place `p` (a file, or the memory of
compressor `p`). A call that publishes pins its compressor, scores in a thread,
and puts, expires and trims under the mutex, while the loop swaps the slot,
cancels the caller or stops. A key is the call that publishes it; the manager is
stopped once and not restarted; the memory of a compressor that left the slot is
forgotten; only the least recently used row ages. `order` is a history variable:
the order of use the ranks are compared with.

**`ToolsRefresh`**: `dirty`, `claimed` and `registered` are the three fields by
which a notice, a running refresh and a stopping manager find each other;
`task[r]` is a refresh between its awaits, `opening` a connect that lists.
`missed` and `unlisted` record what the catalogue may legitimately not know: a
notice that came before its session was installed, and a refresh that failed.

**`RetiringExtractors`**: `pass[p]` is a run of the closing pass; a pass claims
an extractor (`inflight`), asks the owner of another's claim to try again
(`requested`), and looks again at what was asked of it.

**`UpstreamShutdown`** takes `UpstreamConnection`'s generations at `stop()`: the
owner tasks, the close tasks, a recovery in flight, and the drain that cancels
tasks under a budget. Resources with an owner task only; no request reconnects
while `stop()` runs; every cancelled task takes its cancellation in the first
round of the drain, only a roll-back outlasts the budget.

**`ToolExposure`**: `policy` are the manager's `_toolgraph_*` fields, `table` and
`owned` the server's tool table and what the lifespan registered there. `Refreshed`
is `_refresh_toolgraph_policy` as a function of the fields, `Desired` the pass of
`get_proxy_tools`. Settings, file, catalogue and host move between any two
passes. Assumed: a publication changes the bundle's stamp; the host does not
take a name it gave up again before the next pass; a torn read is a bundle that
cannot be read once (`Flickers`).

**`GraphConsult`**: each start probes, looks the file up, asks, fetches facts
and writes a row; `generation` is the graph's and may grow between any two.
`put()` is four steps: the row's age is taken, the row is committed, `_trim`
counts the rows, and deletes as many as it found too many in a transaction of
its own. Either transaction may fail, and a start that moves no more has died
there. `puts[s]` is what a start has stamped and counted, `commits` how many rows
have been committed, which is how `RowsAreBounded` says by how much the file may
be over its limit: by the rows a trim is about to delete and those committed
since it counted.

### Surfacing

**`SurfacingEngine`**: `call[c]` has the place of the caller and that of its
operation separately, since a timer may part them. `claims` is the rate window,
`surfaced` the dedup map, `rows` the result cache, `inside` the lock of each key
(`KeyMutex`'s variable). `MCSurfacing` puts `KeyedLocks` beside the engine.

**`LtmAdapter`** has one owner task (number and step), its request queue, the
futures as the `who` of each request, and per caller the await it is at.
`Ready` is the order of asyncio's event loop: tasks that a result or a released
lock has made ready run before the next round trip of a transport ends.
`live[o]` counts the transports an owner entered and has not left, which is what
a leak is.

### Files beside the cache (`Stores`, `MCStores`)

**`StoreWorker`**: `queue`, `running` and `left` are the jobs of the
single-threaded executor (a shut-down one may still be in its last), `slots` the
counter of the cap, `blocked` the claim a tool's fault holds, `landed` the
releases whose callback the loop has still to run, `faults` the rows a peer
writes too. The wall clock does not step back; the engine's calls end before the
lifetime is "down"; a peer's write is one step.

**`FeedbackEffects`**: `request[r]` is a run of `handle_feedback` or its batch
form; its write waits in `line`; `hidden`, `claimed` and `counted` are what it
does to the result cache and to the LTM. A call whose write failed is `excused`,
and so is one that could not read the event of a memory it rated down; such a
call still boosts. The boost may be counted by the LTM whatever the caller is
told (`happened`): an adapter that swallowed the error, or a cancellation, leaves
the claim (`BoostEnds`), a timeout gives it back (`BoostFails`), so a later rating
may have the access counted again. `gaveBack` keeps which calls did.

**`FeedbackTuning`**: each server has its `tuner` in memory and an adjustment
(`tuning`) whose statements interleave with the writes of the others. The
watermark is two reads, `CountTool` and `CountAll`, and a rating that lands
between them is seen as new by two adjustments; `torn` counts those. Scores are
whole steps, the tool's ratio and the fallback to all tools are one read, the
base score is the same for all servers.

**`MetricsFile`**: `opener[p]` is how far a process has come with opening and
migrating; `kept`, `daily` and `lost` are where a recorded call may be. Any row of
a source may be its oldest, as the clock may step.

**`SelectionLog`**: `files` are contents, `named` which file each name has;
`append[p]` is the chain of system calls of one append or rotation, `status` what
it reported. Records of builds before self-framing are not held to the
properties; labels may target any record.

### Processes and commands

**`Daemon`** is one config fingerprint. `lock` is the flock (released by the
death of its holder), `record` the handshake file, `daemon[d]` the phase of each
process from `waiting` for the lock to `gone`. Commands carry what they have
read (`raw`) and whom they wait for (`told`), so that everything between read
and use is a race. A start with one attempt is what a hook or the adapter does
to auto-spawn. Requests are accepted, queued at `max_pending_requests`, run at
`max_concurrent_ltm_ops`, and expire. Draining waits for accepted connections
because `Server.wait_closed` of Python 3.12 and later does.

**`ServerLifespan`** is the server's process from its first await (or from a
teardown entered because opening raised) to its exit: `step` walks the teardown,
whose steps may fail, hang, block the loop or be cut by a cancellation;
`watchdog` is the thread, `watch`, `confirmed`, `missing`, `quiet` and `inFlight`
the parent watcher. The five stores open and close alike and are one resource.
`MCProcesses` puts it beside `Daemon`.

**`ChildReaper`**: `bearer` is what each pid names, `claims` the detached
children, `sweep[s]` what a sweep's probe saw and answered. Moments of the
monotonic clock are only compared, so a retirement keeps the sweeps that were
looking. Assumed: a pid is not handed out again between a sweep's answer and the
signals it sends at once. The code narrows that window only for SIGKILL, before
which the stragglers are polled; SIGTERM goes out without a second look. The
embedding host's child stays.

**`HostMoves`** and **`ServerRegistry`**: files as functions from hosts to what
they register; `cmd[p]` and `job` the command between its reads and writes.
Hosts edit at any time, a command may die at any point. In the registry its lock
serialises the commands, hand edits fall between commands, a command that
changes nothing writes the same content, hashes do not collide, and names do not
interact, so one name is enough. **`FileCommands`** composes them with the reaper.

## 4. Runs

| run | asks | instance |
|---|---|---|
| `upstream` | leases, orphans, one recovery, lost edits | 2 callers, 2 recovery slots, 2 configs, 1 edit, 2 reconnects, symmetry |
| `upstream_live` | does every call end, with retries of its own; are superseded transports closed? | 2 callers, 1 config, 1 retry, 1 reconnect |
| `upstream_restore` | finding: an older snapshot undoes an edit | 2 configs, 1 edit |
| `guarded` | rows against keys, one fetch per key, every call ends | 2 callers, 3 snapshots, failing writes |
| `guarded_disabled` | finding: a disabled call that leaves a row | 1 caller |
| `cache` | what the stamp vouches for, what `initialize` leaves and deletes, does a repair end; what the pipeline may cache and counts | 3 processes of different builds, 2 keys, 2 attempts, limit of 1 entry; 2 pipeline calls, 6 settings, cap of 1 stage |
| `ltm` | leaks, current dirty mark, sticky start flag, needless reconnects, hung callers | 2 callers (one replays), warm-up, stop, 3 sessions, queue of 2, 1 failed start, 1 owner killed |
| `surfacing` | claims, rate slots, dedup, rows under their lock, outages, every caller answered; the keyed locks as a mutex | 2 calls, 2 queries, 1 memory, 1 slot, 1 abandoned operation; 3 tasks, 2 keys, 3 lock entries |
| `manager` | pending keys, refreshes, extractors, shutdown, offers, consults | 2 calls over 4 settings and a shared file, 1 reload; 2 refresh tasks, 2 sessions; 2 passes and `stop()`, 3 extractors; 2 generations and 2 leases; 2 names, 2 contracts, 3 bundles, 2 stamps; 2 consults, 3 scopes, a file of 1 row, 1 fault |
| `store_worker` | slots, fault episodes, ratings, scores, metrics, the selection log; does the store close? | 1 tool, 3 queued, 2 claims; 2 requests on 2 events and 2 memories; 2 servers, 2 tools (one rated off scale), 2 changes, base score 3; 2 openers and an old build, 1 row kept, 4 ids, 1 damage; 2 writers and an old one, 3 records, 2 backups |
| `daemon` | one owner, lasting record, covered work, true reports; a teardown in order, a shutdown that is called for; stops and shutdowns end | 2 processes, a start, a stop, a stop --all, 2 clients; 1 frame, 1 misread sample, grace of 1 poll |
| `commands` | saves over what was read, entries kept, evidence of removals, healing, leaks only | 2 commands of 3, 3 hosts, 2 servers, 1 edit; 1 name, 2 definitions, 3 files, 3 runs; 3 pids, 2 launches, 1 stdio server, 2 sweeps; symmetry |

`manager` and `commands` check safety only; the others check liveness too, under
the fairness of section 5. Several properties of a run are conjunctions of named
parts (`RecordsAreKept == MetricsAreSound /\ LogIsTruthful`, and so on); each
part has its own comment in its module.

Why the bounds are enough. *upstream*: two callers give a waiter and a mover;
a second recovery slot is what a duplicate recovery would need; two reconnects
give a current, a previous and an older generation, which is what marks and
leases can confuse. A breaker that opens at its first failure and resets after
one tick passes through all of its states. *cache*: three builds, since the
interesting triple is two that know the stamp with different policies and one
whose triggers miss writes; two keys because a sweep's verdict on one races a
write to the other; an entry limit of one makes `_trim` delete; the settings
take every strategy, store and stage once. *ltm*: three sessions are an old, a
current and a next; the queue bound stops only abandoned starts from piling up.
*surfacing*: two calls are a holder and a waiter of a query's lock, or two
searches racing on one memory and one slot; three tasks are a holder, a woken
and a queued waiter. *manager*: every part has the two actors its race takes and
one more object than the race uses up (a third extractor, a second session, a
second generation); a file for one row and three scopes let an older row and
two racing starts put it over its limit, and trims of both delete too much.
*store_worker*: two claims are an older and a newer one; two
requests are a late and an early write of one rating; three records fill a file
and make a rotation meet an append; a backlog of one row makes every insert
trim. *daemon*: two processes are predecessor and successor; a third would
repeat the second. *commands*: two commands are one that died and one that
finds what it left, a third adds or removes what they moved. The theorems of
section 7 remove these bounds from everything but liveness.

`CHECK_DEADLOCK FALSE` is said in `cache`, `daemon`, `surfacing`, `store_worker`,
`manager` and `commands`: their processes end, their calls are made once, their
counters reach their bounds. Counters such as `edits`, `failures`, `deaths`,
`runs`, `damage`, `faults` exist only as bounds.

## 5. Fairness

- Upstream: every task that can run runs (weak fairness of each call, recovery,
  retire and owner step). RPCs and establishments end because each carries a
  timeout. `asyncio.Lock` is first come first served, hence strong fairness for
  taking the reconnect lock. Nothing is assumed of clients, of the overall
  deadline or of the file.
- Guarded calls: strong fairness for entering the lock, for the same FIFO
  reason; fetch and processing are bounded by deadlines.
- Cache: `initialize` is synchronous, so a process that does not die goes on.
- Adapter: owner, flights and callers run; strong fairness for the start lock;
  the join in `stop()` has a timeout.
- Surfacing: callers and operations that are ready run, timers fire and the
  breaker's clock ticks. An LTM need not answer, nor an abandoned operation
  unwind. In the locks the loop resumes what is ready and a hold ends; the FIFO
  order is in the model, not assumed.
- Store worker: the thread takes the next job and a write ends within SQLite's
  busy timeout; the timers of the drain and of the close fire.
- Daemon: a process that runs takes its next step, and a deadline fires. An
  operation itself may hang for ever: no fairness is assumed of a request.
- Lifespan: the watchdog's thread and the watcher's task are scheduled. None is
  assumed of the teardown's steps, nor of a cancellation that has to land.

## 6. Where the code and its comments disagree

Two disagreements are runs that must fail:

- `upstream_restore`: a call that pinned its config before an edit, and reaches
  `_reconnect_server` after the edit's reconnect has completed, installs the
  older connection again (`proxy/manager.py:2688`); the comment there says that
  an unwanted request skips. The next call repairs it.
- `guarded_disabled`: a call made while caching is off drains the row only on
  the plain store path (`proxy/manager.py:7701`); other endings leave a frozen
  row that reappears when caching is switched on.

Others were met while reading and modelling; the models do what the code does
and the properties are stated so that they hold of it:

- The waiter on a recovery clears `unavailable_generation` without looking at
  which generation it names (`proxy/manager.py:6204`); the field's comment says
  only a stale mark is cleared. The cost is one failed call. It is the one
  hazard without a property.
- A snapshot whose file no longer lists the server falls back to the installed
  config in two places, read at different moments (`proxy/manager.py:6003`), so
  a row can be stored under a key it does not match. `guarded` takes snapshots
  that list the server, and `RowsAreTheirKeys` says so as a hypothesis.
- A profile changed from review to strict while the bundle's stamp stays keeps
  the bundle compiled for review in force (`proxy/manager.py:1505-1521` returns
  before the check at 1524), against `docs/configuration.md`.
- A cancelled miss gives back a dedup claim that a cache hit has delivered
  meanwhile (`surfacing/engine.py:3077`; the comment at 2226 excludes it).
- `teardown_completed()` runs in the innermost `finally` (`server.py:866`), so a
  truncated teardown exits with 0, against the docstring of
  `utils/signal_shutdown.py` and `tests/test_signal_shutdown.py`.
- `prune` deletes whatever the host has under the name by then
  (`cli/proxy.py:5213`); the backup row has the entry of the scan, where the
  docstring (5168) speaks of the verbatim host entry.
- `import` backfills baselines only for names that have no row
  (`cli/mms_import.py`), where `cli/mms_host.py:28-31` promises more.
- With a single pending file and a warm slot whose compressor keeps its keys in
  memory, a selection does not search the file (`proxy/manager.py:5030`), against
  the changelog.
- The ladder of compression fallbacks caches a truncation also after a store
  attempt that failed, as opposed to one that was refused; background index and
  extract responses are never cached; the compression fingerprint lacks the
  index settings; an extraction reports success when some facts failed to index;
  a failed write of the automatic index is an attempt without an outcome.
- A batch of ratings whose write fails halfway leaves a committed prefix without
  the cache being told. After a restart the tuner's watermark is empty, so old
  ratings move a score once more; deletions by retention change it too. And the
  watermark is read in two statements (`surfacing/feedback.py:361-364`): a rating
  that another server lands between them moves a score twice.
- The boost of a helpful rating is given up at its timeout and its claim rolled
  back (`surfacing/engine.py:2010`, 2107, 2127), though the LTM may have counted
  it by then; a second helpful rating then counts the event again, where the
  docstring (1930) promises one increment. `CountedOnce` excepts exactly that.
- The consults' cache is trimmed in a second transaction after the commit of a
  row (`proxy/toolgraph_cache.py:474`, 495): when that fails or the process dies
  the file stays over its limit until a later trim, and the warning says the row
  was not cached. Two processes that trim at once delete what both counted, which
  may leave fewer rows than the limit, or none.
- A selection-log rotation checks the size before it has the lock and not again,
  so two in a row evict history early; a rename that finds the log moved fails
  that append. An append of an older build can run into the unterminated last
  record of a rotated backup and spoil it while a label for it is being written:
  `LabelsMeetTheirSelection` names that case.
- In the compressors, which have no model: `_fit_extracted` returns `{}` where a
  compact form fits, and `_prune` may announce "0 items omitted", which ends
  `_compress_weighted` at a tighter tier (`proxy/compression.py`, docstrings at
  1908 and 2319).

## 7. Proofs

Every invariant and every action property that a passing run checks is a
theorem of the specification, for all values of the constants that satisfy the
named assumptions of its module; those say that null values differ from the
others, that bounds are naturals and sets of workers finite, and nothing more.
The one exception is a hypothesis stated in the theorem itself: in
`RowsAreTheirKeys` every snapshot lists the server. The theorems are about the
modules' own specifications; the MC modules only give the constants values and,
for liveness, put parts side by side.

Each proof has the same shape: an inductive invariant, larger than the property,
with `Init => Inv`, one lemma for each action of `Next`, and `Inv => Property`.
What follows names, per proof module, what the invariant adds and why.

**`UpstreamConnectionProofs`**: `TypeCorrect`, `LeasesAreRespected`,
`NothingIsOrphaned` and both with the exact count as `LeasesStaySafe`;
`RecoveriesAreSingle`, `EditsAreNotSwallowed`. Leases rest on the published
generation being live (`CurrentLive`), on later ones being untouched
(`FutureUntouched`), on a close task existing only for a generation without
leases (`RetiringDrained`), and on a call in its RPC awaiting no recovery
(`RpcAwaitsNoTask`). Steps that touch no lease are treated once (`QuietStep`),
then dispatch, release, swap and retirement.

**`GuardedCallsProofs`**: `GuardedTyped`, `FetchesStayGuarded`,
`RowsAreTheirKeys` (what a call resolves never changes under it, `MatchInv`);
and of `ServerLifespan`, `LifespanStaysSound` and `ShutdownsAreCalledFor`. There
`TeardownInv` says what has been attempted at each step, `EndInv` what each exit
implies of the sweep, `WatchInv` what the watcher's counts remember of the last
samples and frames.

**`ResponseCacheProofs`**: `CacheTyped`, `CacheStaysVouched`,
`InitializeIsClean`, `RepairsAreExact`. A stamp vouches for nothing while a
repair token is published, yet the initializer that finishes under its token
empties the queue. `SweepSound` is what makes that safe: under its own token and
triggers, every row it must not leave is queued or condemned by its sweep, and a
condemned key that is not queued still has the body the sweep judged.
`TokenNotLast` gives the attempt bound. `PipelineStaysSound`: a call that runs is
counted nowhere yet, a hit goes straight to surfacing, and what leaves
compression can be delivered.

**`SurfacingEngineProofs`**: `BreakerSafe`, `SurfacingOutages`,
`OutageNeverExtended` (a closed breaker is below its threshold, inductive as it
stands); `LocksExclude`, `RegistryStaysSound`, `LocksTyped` and the refinement
`RegistryIsMutex`; `SearchesShowOnce`, `ClaimsStaySound`, `AttemptsStayCounted`,
`RowsWrittenUnderLock`. The registry's invariant follows the code's bookkeeping:
users of a key share its entry (`OneKey`, `Registered`), the count is their
number (`Counted`, by the cardinality lemmas `UserJoins` and `UserLeaves`), a
locked entry has one holder (`HeldByOne`), waiters are ordered, and a woken one
is first and finds the lock free (`Queued`). For the refinement, `HolderNames`
says that the mapped variable names the one task inside a key; `Register` of a
free key and `Resume` then map to `Enter`, `Exit` to `Leave`, and every other
step to a stutter.

**`DaemonProofs`**: `DaemonTyped`, `OneDaemon`, `RecordsLast`, `WorkIsCovered`,
`DaemonStaysSound`, `StopsTellTheTruth`. `Owner` ties the lock to the phase of
its holder, `Holders` covers commands that hold it, `Recorded` says whose record
may exist in which phase, `Remembered` what a command's earlier reading still
implies, `Working` what a request implies of its daemon. And of `LtmAdapter`,
`AdapterStaysSound` and `HealthySessionsStay`. Its invariant says that a session
that has gone left a dirty mark (`MarksInv`), that at most one reconnect is
queued, of the dirty generation and with its flight waiting, and no held start
behind it (`ReconnectsInv`), and that a close request is the last
(`StopInv`); `RequestsInv`, `ContextsInv`, `StartsInv`, `CallersInv` and `OffInv` are
what each party may wait for. The lemma the steps turn on is `QueuedMeansReady`:
a caller that queues for the start lock while a session is there is about to be
served, since the lock is free, its holder has its answer, or the owner has
requests to take.

**`ManagerProofs`**:
- `NothingStaysLeft`. `ExtractorInv`: claims are of retired extractors, an
  extractor is skipped only if asked for, and a pass in its second loop has
  nothing of its first left. `ShutdownInv`: an open transport is the current or
  a kept one, one that opens is the recovery's next, and after the drain no
  task runs.
- `RefreshStaysSound`, `ListingsOnlyAdvance`. `RefreshInv`: who lives is
  registered; sessions are opened, installed and asked in order; an answer is
  no older than the list it will replace; a change after a listing was
  announced.
- `OffersStaySound`, `NamesStayTheHosts`. `ExposureInv`: a policy that carries
  the file's stamp is of that file's content and withholds nothing by a failure;
  verdicts bound to the catalogue in force are on it; a consult's policy is its
  answer or its failure. `ConsultInv`: rows are apart by scope, no facts are
  older than their verdict, no answer is of a generation yet to come, and
  `PutsAccount`: since a trim counted, the file has grown by no more than what was
  committed, so what it counted too many bounds what is over the limit.
- `PendingStaysSound`, `PublicationsStand`. `PendingInv`: a compressor's uses are
  the calls that pin it, and it is open iff the slot or a pin needs it; a call
  that evicts holds the mutex and its place is the slot's; ranks are the order of
  use; a key is in one place, and only after its call published. `TrimsLeave`: a
  row that a trim drops is outranked by as many kept rows of its format as the
  policy promises.

**`StoresProofs`**:
- `WorkStaysOwned`, `RecoveriesStand`. `WorkerInv`: the tool of a pending fault
  still holds a claim that no landed release matches; a pending recovery is
  younger than the episode it closes; jobs are ordered, and after a shutdown
  only the job that was left is the engine's.
- `RatingsStaySound`. `EffectsInv`: a write that waits is its call's; what an
  ended call accepted as negative is hidden, whoever wrote it; and (`BoostInv`) of
  an event, the call that boosts or was counted, and kept its claim, is alone,
  with the event claimed. `TuningInv`: saved and own scores are in their bands and
  on the side of the base that some rating asked for. `EvidenceInv`: a tool's
  moves, the one under way included, are at most one more than the changes up to
  the first count of its mark and the torn ones; a mark that differs is evidence
  of a change since.
- `RecordsStayKept`. `MetricsInv`: ids are apart, rows kept, in the daily table
  and lost are all that were written; beyond the cap a source has only rows of
  its last row's interval; an opener finds what its earlier steps built. `LogInv`:
  nothing of a record is in any file before its write, and after it only where
  it was written; appends that run have records of their own; a record that
  failed is in no named file and one that was written is a framed line; who
  rotates holds the lock; while a label is written its selection is found, or run
  into by an older build.

**`CommandsProofs`**:
- `CommandsStaySound`. `MovesInv`: a command that runs holds the lock and has
  what STM's file says, what it pruned or is about to is backed up, and until a
  host edits, the hosts still have what it read or wrote. `ReaperInv`: a pid
  names the daemon launched under it, a claim is of a launched daemon, a release
  reaches the sweeps that were looking, and a daemon that a probe saw is still
  launching or exempt.
- `SourcesStayKept`, `SyncsHeal`. `RegistryInv`: a plan to remove or to change an
  entry carries its evidence until it is written, and a sync plans no row
  without an entry.

Action properties are proved from the invariant in the state before the step.
The strengthenings were tried with TLC on small instances before they were
proved, which is where most of their conjuncts come from.

Only model-checked: every liveness property (`ConnectionsProgress`, `CallsEnd`,
`RepairEnds`, `AdapterAnswers`, `NobodyIsKeptWaiting`, `StoreCloses`,
`ProcessesEnd`), because fairness and `ENABLED` are beyond the prover. No module
declares a recursive operator: what is repeated in the code is modelled as
steps, cardinalities and ranges, so no result rests on induction over data that
the prover could not do.

## 8. What is not shown

- The first connect of `ProxyManager.start()`, and request-driven reconnects
  while `stop()` runs.
- The cache's legacy-key migrations, and SQLite errors inside a transaction:
  `set()` commits or does not.
- In `GuardedCalls`, lookups that raise (served as misses) and the direct
  callers of `_call_tool_inner`.
- What texts become: cleaning, the compressors, relevance scores, page
  boundaries, the formats of bundles, logs and host files.
- In `LtmAdapter`, what results contain; a failed close in `stop()` counts as
  its timeout.
- In `Daemon`, recycled pids and ports, Windows (where no command signals a
  pid), tokens and frames, the eviction of unauthenticated connections. A
  client's read of the record and its connect are one step, since a stale record
  costs it one refused connection. A client that gives up does not change the
  server's state.
- In `SurfacingEngine`, excluded tools, the holdout arm, pinned items, demotion,
  and the pruning of the dedup map at 10000 entries.
- In `StoreWorker`, faults other than an open circuit, and a wall clock that
  steps back; in the other stores, the evaluation of what is recorded.
- In the commands, prompts, secrets, the project index, and the hooks.
- Clocks are ticks or "may have passed": no property depends on durations.
- Whatever section 1 lists without a module.
