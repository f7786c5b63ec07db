----------------------------- MODULE MetricsFile -----------------------------
(***************************************************************************)
(* The file of call metrics, proxy/metrics_store.py: rows of recent calls, *)
(* at most max_history of a source, and a daily table a trigger feeds with *)
(* each row that is deleted.  Servers, hooks and builds that know nothing  *)
(* of the daily table open, migrate, write and trim the one file.          *)
(*                                                                         *)
(* One source stands for a source's days, servers and tools, which the     *)
(* daily table keeps apart, and a count for the sums of its columns.  Any  *)
(* of a source's rows may be the oldest: the clock that dates them may     *)
(* step.  A transaction of SQLite is one action.                           *)
(***************************************************************************)
EXTENDS Naturals, FiniteSets, FiniteSetsExt

CONSTANTS
  Openers,      \* the processes of this build
  OldBuilds,    \* those of a build without the daily table
  Reconciling,  \* the openers that trim when they open: not the hooks
  Origins,      \* the sources of the rows: mcp and hook
  Columns,      \* the columns added after the first schema
  MaxHistory,
  TrimInterval, \* _trim_interval
  MaxIds,       \* bounds the rows ever written
  MaxDamage,    \* bounds how often someone deletes the markers
  Unmarked,     \* no marker
  Unknown       \* rows were lost, nobody knows how many

ASSUME MetricsAssumption ==
  /\ IsFiniteSet(Origins)
  /\ MaxHistory \in Nat /\ TrimInterval \in Nat \ {0}
  /\ Reconciling \subseteq Openers /\ Openers \cap OldBuilds = {}

VARIABLES
  schema,   \* what the file has: the table, its columns, the daily table and its trigger
  stamp,    \* the schema_fingerprint
  lost,     \* rollup_rows_lost_before_install, written with rollup_installed_at
  kept,     \* proxy_metrics: the id and source of each row
  seq,      \* sqlite_sequence: the last id used
  daily,    \* proxy_metrics_daily: per source
  written,  \* per source: the rows ever committed
  opener,   \* per process: how far it has opened the file
  damage    \* how often the markers were deleted

metricsVars == <<schema, stamp, lost, kept, seq, daily, written, opener, damage>>

Closed == [at |-> "closed"]

MetricsInit ==
  /\ schema = [table |-> FALSE, columns |-> {}, rollup |-> FALSE]
  /\ stamp = "none" /\ lost = Unmarked /\ kept = {} /\ seq = 0 /\ damage = 0
  /\ daily = [s \in Origins |-> 0] /\ written = [s \in Origins |-> 0]
  /\ opener = [p \in Openers \cup OldBuilds |-> Closed]
-----------------------------------------------------------------------------
(* Opening.                                                                *)

Continue(p, at) == opener' = [opener EXCEPT ![p] = at]

(* _schema_is_current: a current stamp leaves out the steps that build.    *)
Probe(p) ==
  /\ p \in Openers /\ opener[p].at = "closed"
  /\ Continue(p, [at |-> IF stamp = "current" THEN "reconcile" ELSE "create"])
  /\ UNCHANGED <<schema, stamp, lost, kept, seq, daily, written, damage>>

Create(p) ==
  /\ opener[p].at = "create"
  /\ schema' = [schema EXCEPT !.table = TRUE]
  /\ Continue(p, [at |-> "inspect"])
  /\ UNCHANGED <<stamp, lost, kept, seq, daily, written, damage>>

(* _migrate reads which columns there are ...                              *)
Inspect(p) ==
  /\ opener[p].at = "inspect"
  /\ Continue(p, [at |-> "migrate", missing |-> Columns \ schema.columns])
  /\ UNCHANGED <<schema, stamp, lost, kept, seq, daily, written, damage>>

(* ... and adds the others: one that another opener has added since is     *)
(* there, which is all it asks.                                            *)
AddColumn(p, c) ==
  /\ opener[p].at = "migrate" /\ c \in opener[p].missing
  /\ schema' = [schema EXCEPT !.columns = @ \cup {c}]
  /\ Continue(p, [at |-> "migrate", missing |-> opener[p].missing \ {c}])
  /\ UNCHANGED <<stamp, lost, kept, seq, daily, written, damage>>

(* A bug: every installation of the marker counts what is lost.            *)
LossRecounted == seq - Cardinality(kept)

(* What left the table before the trigger was there: unknown when only the *)
(* markers are gone, since then rows have left for the daily table.        *)
Loss == IF schema.rollup THEN Unknown ELSE seq - Cardinality(kept)

(* _install_rollup_and_stamp, one transaction; the marker of a former      *)
(* installation stands.                                                    *)
Install(p) ==
  /\ opener[p].at = "migrate" /\ opener[p].missing = {}
  /\ schema' = [schema EXCEPT !.rollup = TRUE]
  /\ lost' = IF lost = Unmarked THEN Loss ELSE lost
  /\ stamp' = "current"
  /\ Continue(p, [at |-> "reconcile"])
  /\ UNCHANGED <<kept, seq, daily, written, damage>>

Of(s, rows) == {r \in rows : r.source = s}

Excess(s, rows) == IF Cardinality(Of(s, rows)) > MaxHistory
                   THEN Cardinality(Of(s, rows)) - MaxHistory ELSE 0

(* The rows a trim of a source may delete.                                 *)
Oldest(s, rows) == kSubset(Excess(s, rows), Of(s, rows))

(* A delete feeds the daily table, whoever deletes, once the trigger is    *)
(* in the file.                                                            *)
RolledUp(s, gone) ==
  IF schema.rollup THEN [daily EXCEPT ![s] = @ + Cardinality(gone)] ELSE daily

(* initialize's pass over the sources of a server that keeps the cap.      *)
Reconcile(p, s) ==
  /\ opener[p].at = "reconcile" /\ p \in Reconciling /\ Excess(s, kept) > 0
  /\ \E gone \in Oldest(s, kept) : kept' = kept \ gone /\ daily' = RolledUp(s, gone)
  /\ UNCHANGED <<schema, stamp, lost, seq, written, opener, damage>>

OpenStore(p) ==
  /\ opener[p].at = "reconcile"
  /\ p \in Reconciling => \A s \in Origins : Excess(s, kept) = 0
  /\ Continue(p, [at |-> "open"])
  /\ UNCHANGED <<schema, stamp, lost, kept, seq, daily, written, damage>>

(* It ends, or a step of opening fails: the steps committed stay.          *)
Close(p) ==
  /\ opener[p].at # "closed"
  /\ Continue(p, Closed)
  /\ UNCHANGED <<schema, stamp, lost, kept, seq, daily, written, damage>>
-----------------------------------------------------------------------------
(* Writing.                                                                *)

(* _previous_row_id.                                                       *)
Previous(s) == {r.id : r \in Of(s, kept)}

(* _should_trim: the row is in another bucket than its source's last.      *)
Crosses(s, id) ==
  \/ TrimInterval <= 1 \/ Previous(s) = {}
  \/ id \div TrimInterval # Max(Previous(s)) \div TrimInterval

(* The row and the trim it may owe, or neither.                            *)
Insert(s, trims) ==
  LET row == [id |-> seq + 1, source |-> s] IN
  /\ seq < MaxIds
  /\ seq' = seq + 1
  /\ written' = [written EXCEPT ![s] = @ + 1]
  /\ \E gone \in IF trims THEN Oldest(s, kept \cup {row}) ELSE {{}} :
       kept' = (kept \cup {row}) \ gone /\ daily' = RolledUp(s, gone)

(* record: the statement names every column.                               *)
Record(p, s) ==
  /\ p \in Openers /\ opener[p].at = "open" /\ Columns \subseteq schema.columns
  /\ Insert(s, Crosses(s, seq + 1))
  /\ UNCHANGED <<schema, stamp, lost, opener, damage>>

(* A build without the daily table: it makes the table, stamps the file as *)
(* its own and trims with each row.                                        *)
OldOpen(p) ==
  /\ p \in OldBuilds /\ opener[p].at = "closed"
  /\ schema' = [schema EXCEPT !.table = TRUE]
  /\ stamp' = "old"
  /\ Continue(p, [at |-> "open"])
  /\ UNCHANGED <<lost, kept, seq, daily, written, damage>>

OldRecord(p, s) ==
  /\ p \in OldBuilds /\ opener[p].at = "open"
  /\ Insert(s, TRUE)
  /\ UNCHANGED <<schema, stamp, lost, opener, damage>>

(* Someone deletes metrics_meta.                                           *)
LoseMarkers ==
  /\ damage < MaxDamage /\ schema.table
  /\ stamp' = "none" /\ lost' = Unmarked /\ damage' = damage + 1
  /\ UNCHANGED <<schema, kept, seq, daily, written, opener>>

MetricsNext ==
  \/ \E p \in Openers : \/ Probe(p) \/ Create(p) \/ Inspect(p) \/ Install(p) \/ OpenStore(p)
                        \/ \E c \in Columns : AddColumn(p, c)
                        \/ \E s \in Origins : Reconcile(p, s) \/ Record(p, s)
  \/ \E p \in OldBuilds : OldOpen(p) \/ \E s \in Origins : OldRecord(p, s)
  \/ \E p \in Openers \cup OldBuilds : Close(p)
  \/ LoseMarkers

MetricsSpec == MetricsInit /\ [][MetricsNext]_metricsVars
-----------------------------------------------------------------------------
(* read_compression_all_time: the rows kept and those the daily table has, *)
(* once the installation is marked.                                        *)
AllTime(s) == Cardinality(Of(s, kept)) + daily[s]

(* As many members as the counts of the sources add up to.                 *)
Total(counts) == Cardinality(UNION {{s} \X (1..counts[s]) : s \in Origins})

Installed == schema.rollup /\ lost # Unmarked

(* No call is lost or counted twice in the all-time totals, whichever      *)
(* builds wrote and trimmed and in whatever order they opened the file:    *)
(* with the rows lost before the installation they are all that was ever   *)
(* recorded. A total of a source is never more than was recorded of it.    *)
HistoryIsWhole ==
  /\ Installed /\ lost # Unknown =>
       Cardinality(kept) + Total(daily) + lost = Total(written)
  /\ \A s \in Origins : AllTime(s) <= written[s]

(* Between two trims a source stays below the cap and an interval, however *)
(* the writers of the sources take turns.                                  *)
SourcesStayBounded ==
  \A s \in Origins : Cardinality(Of(s, kept)) <= MaxHistory + TrimInterval - 1

(* The file is never marked current before it has all of the schema, and a *)
(* store that is open finds every column its rows name: openers of several *)
(* builds may stop between any two steps.                                  *)
StampIsEarned ==
  /\ stamp = "current" => schema.table /\ schema.rollup /\ Columns \subseteq schema.columns
  /\ \A p \in Openers : opener[p].at = "open" => Columns \subseteq schema.columns

(* What the builds that share the file keep of it.                         *)
MetricsAreSound == HistoryIsWhole /\ SourcesStayBounded /\ StampIsEarned
=============================================================================
