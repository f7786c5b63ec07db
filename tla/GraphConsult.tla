----------------------------- MODULE GraphConsult -----------------------------
(***************************************************************************)
(* The startup consult of the tool graph (_run_consult) and the disk cache *)
(* that lets a restart reuse it (GraphConsultCache).                       *)
(*                                                                         *)
(* A start first asks the graph for its generation, then looks for a row   *)
(* of that generation; a miss asks about the tools, asks for their facts   *)
(* and puts a row: it is committed, then the rows are counted and those    *)
(* over the limit deleted, each a statement of its own.  Between any two   *)
(* of these the graph may move on and every proxy of the machine, which    *)
(* all share the file, may read and write it; a start that moves no more   *)
(* is a process that has died there.  The graph is external: its           *)
(* generation only grows, and decides both answers.  A scope is the set of *)
(* tools asked about; the agent, the profile and the provider are fixed.   *)
(***************************************************************************)
EXTENDS Integers, FiniteSets

CONSTANTS
  Consults,       \* starts of a proxy, of one process after another or side by side
  Scopes,         \* candidate sets a start may ask about
  MaxGeneration,  \* bound: changes of the graph
  MaxScopes,      \* consult_cache_max_scopes
  MaxFaults,      \* bound: sqlite errors
  Nowhere         \* no row

ASSUME ConsultAssumption ==
  MaxGeneration \in Nat \ {0} /\ MaxScopes \in Nat \ {0} /\ MaxFaults \in Nat

VARIABLES
  generation,     \* the graph's, now
  known,          \* whether the graph knows the agent
  verdictRows,    \* the file: scope, generation, generation of the facts (0: none), age
  clock, faults,
  consults,       \* start -> its _run_consult
  puts,           \* start -> its put()
  commits         \* history: the rows committed

fileVars == <<verdictRows, clock, puts, commits>>
consultVars == <<generation, known, fileVars, faults, consults>>

Idle == [pc |-> "idle", scope |-> Nowhere, wants |-> FALSE, probed |-> 0, verdict |-> 0,
         facts |-> 0, cached |-> FALSE]

\* The age of its row; the commits there were when it counted the rows (0: it has
\* not), and how many of them it is about to delete.
NotPut == [stamp |-> 0, counted |-> 0, excess |-> 0]

\* The file may hold a row of an earlier process.
ConsultInit ==
  /\ generation = 1 /\ known \in BOOLEAN
  /\ verdictRows \in {{}} \cup {{[scope |-> x, generation |-> 1, facts |-> f, at |-> 0]} :
                         x \in Scopes, f \in {0, 1}}
  /\ clock = 0 /\ faults = 0 /\ commits = 0
  /\ consults = [s \in Consults |-> Idle]
  /\ puts = [s \in Consults |-> NotPut]

At(s, pc) == consults[s].pc = pc

Continues(s, c) == consults' = [consults EXCEPT ![s] = c]

RowsOf(scope, gen) == {r \in verdictRows : r.scope = scope /\ r.generation = gen}

\* A row without facts serves only a start that does not want them.
Serves(r, wants) == r.facts > 0 \/ ~wants

-----------------------------------------------------------------------------
GraphMoves ==
  /\ generation < MaxGeneration
  /\ generation' = generation + 1
  /\ known' \in BOOLEAN
  /\ UNCHANGED <<fileVars, faults, consults>>

\* eligible_tools([]): the generation, from the graph itself, on every start.
Probe(s, scope, wants) ==
  /\ At(s, "idle")
  /\ Continues(s, IF known THEN [Idle EXCEPT !.pc = "probed", !.scope = scope, !.wants = wants,
                                           !.probed = generation]
                ELSE [Idle EXCEPT !.pc = "unknown"])
  /\ UNCHANGED <<generation, known, fileVars, faults>>

\* An unreachable graph, a timeout or a malformed answer, at any question but the facts.
AskFails(s) ==
  /\ consults[s].pc \in {"idle", "missed"}
  /\ Continues(s, [Idle EXCEPT !.pc = "failed"])
  /\ UNCHANGED <<generation, known, fileVars, faults>>

Hit(s) ==
  LET c == consults[s]
  IN  /\ At(s, "probed")
      /\ \E r \in RowsOf(c.scope, c.probed) :
           /\ Serves(r, c.wants)
           /\ Continues(s, [c EXCEPT !.pc = "done", !.verdict = r.generation, !.cached = TRUE,
                                   !.facts = IF c.wants THEN r.facts ELSE 0])
      /\ UNCHANGED <<generation, known, fileVars, faults>>

\* No row, none that serves, or one that cannot be read.
Miss(s, unreadable) ==
  LET c == consults[s]
  IN  /\ At(s, "probed")
      /\ unreadable \/ ~\E r \in RowsOf(c.scope, c.probed) : Serves(r, c.wants)
      /\ unreadable => faults < MaxFaults
      /\ faults' = IF unreadable THEN faults + 1 ELSE faults
      /\ Continues(s, [c EXCEPT !.pc = "missed"])
      /\ UNCHANGED <<generation, known, fileVars>>

\* eligible_tools(refs): the graph may have moved since the probe.
Ask(s) ==
  LET c == consults[s]
  IN  /\ At(s, "missed")
      /\ Continues(s, IF known THEN [c EXCEPT !.pc = IF c.wants THEN "judged" ELSE "answered",
                                            !.verdict = generation]
                    ELSE [Idle EXCEPT !.pc = "unknown"])
      /\ UNCHANGED <<generation, known, fileVars, faults>>

\* rank_features: a failure leaves the start without facts.
AskFacts(s, answered) ==
  /\ At(s, "judged")
  /\ Continues(s, [consults[s] EXCEPT !.pc = "answered",
                                    !.facts = IF answered THEN generation ELSE 0])
  /\ UNCHANGED <<generation, known, fileVars, faults>>

\* put(): the row's age is taken before the file is.
PutBegins(s) ==
  /\ At(s, "answered")
  /\ clock' = clock + 1 /\ puts' = [puts EXCEPT ![s].stamp = clock + 1]
  /\ Continues(s, [consults[s] EXCEPT !.pc = "writing"])
  /\ UNCHANGED <<generation, known, verdictRows, faults, commits>>

\* A row of the scope replaces those of other generations.
Replaced(c, stamp) ==
  {r \in verdictRows : r.scope # c.scope}
    \cup {[scope |-> c.scope, generation |-> c.verdict, facts |-> c.facts, at |-> stamp]}

PutCommits(s) ==
  /\ At(s, "writing")
  /\ verdictRows' = Replaced(consults[s], puts[s].stamp) /\ commits' = commits + 1
  /\ Continues(s, [consults[s] EXCEPT !.pc = "written"])
  /\ UNCHANGED <<generation, known, clock, faults, puts>>

\* The write is rolled back; the start goes on with what it was answered.
PutFails(s) ==
  /\ At(s, "writing") /\ faults < MaxFaults
  /\ faults' = faults + 1
  /\ Continues(s, [consults[s] EXCEPT !.pc = "done"])
  /\ UNCHANGED <<generation, known, fileVars>>

\* A bug: the row just written is taken for the one the limit leaves room for.
ExcessButOne(count) == count - MaxScopes - 1

Excess(count) == count - MaxScopes

\* _trim() counts the rows, and is done when there are no more than the limit.
CountRows(s) ==
  LET over == Cardinality(verdictRows) > MaxScopes
  IN  /\ At(s, "written")
      /\ puts' = [puts EXCEPT ![s].counted = commits,
                              ![s].excess = IF over THEN Excess(Cardinality(verdictRows)) ELSE 0]
      /\ Continues(s, [consults[s] EXCEPT !.pc = IF over THEN "trimming" ELSE "done"])
      /\ UNCHANGED <<generation, known, verdictRows, clock, faults, commits>>

\* The n least recent rows, or all of them.
Oldest(n) ==
  {gone \in SUBSET verdictRows :
     /\ Cardinality(gone) = IF n < Cardinality(verdictRows) THEN n ELSE Cardinality(verdictRows)
     /\ \A q \in gone, r \in verdictRows \ gone : q.at <= r.at}

\* Then as many as it counted too many are deleted, whoever has trimmed meanwhile.
Trim(s) ==
  /\ At(s, "trimming")
  /\ \E gone \in Oldest(puts[s].excess) : verdictRows' = verdictRows \ gone
  /\ puts' = [puts EXCEPT ![s].excess = 0]
  /\ Continues(s, [consults[s] EXCEPT !.pc = "done"])
  /\ UNCHANGED <<generation, known, clock, faults, commits>>

\* An error of the count or the deletion: the row is there, the rows over the limit too.
TrimFails(s) ==
  /\ consults[s].pc \in {"written", "trimming"} /\ faults < MaxFaults
  /\ faults' = faults + 1
  /\ puts' = [puts EXCEPT ![s] = NotPut]
  /\ Continues(s, [consults[s] EXCEPT !.pc = "done"])
  /\ UNCHANGED <<generation, known, verdictRows, clock, commits>>

ConsultStep(s) ==
  \/ \E scope \in Scopes, wants \in BOOLEAN : Probe(s, scope, wants)
  \/ AskFails(s) \/ Hit(s) \/ Miss(s, FALSE) \/ Miss(s, TRUE) \/ Ask(s)
  \/ AskFacts(s, TRUE) \/ AskFacts(s, FALSE)
  \/ PutBegins(s) \/ PutCommits(s) \/ PutFails(s) \/ CountRows(s) \/ Trim(s) \/ TrimFails(s)

ConsultNext == GraphMoves \/ \E s \in Consults : ConsultStep(s)

ConsultSpec == ConsultInit /\ [][ConsultNext]_consultVars
-----------------------------------------------------------------------------
\* Type correctness.
ConsultTypeOK ==
  /\ generation \in 1..MaxGeneration /\ known \in BOOLEAN /\ faults \in 0..MaxFaults
  /\ \A r \in verdictRows : /\ r.scope \in Scopes /\ r.generation \in 1..MaxGeneration
                     /\ r.facts \in 0..MaxGeneration /\ r.at \in 0..clock
  /\ \A s \in Consults :
       /\ consults[s].pc \in {"idle", "probed", "missed", "judged", "answered", "writing",
                              "written", "trimming", "done", "unknown", "failed"}
       /\ consults[s].scope \in Scopes \cup {Nowhere}
       /\ puts[s].stamp \in 0..clock /\ puts[s].counted \in 0..commits /\ puts[s].excess \in Nat

(* The file keeps one generation a scope, whichever process wrote last,    *)
(* and grows past its limit only by rows whose own trim is still to come   *)
(* or was lost: however the starts that trim race, once one has counted    *)
(* the rows the file is over the limit by at most those it is about to     *)
(* delete and those committed since, so a trim that ends also makes up for *)
(* the ones before it that failed or died.                                 *)
RowsAreBounded ==
  /\ \A s \in Consults : puts[s].counted # 0 =>
       Cardinality(verdictRows) <= MaxScopes + puts[s].excess + (commits - puts[s].counted)
  /\ \A q, r \in verdictRows : q.scope = r.scope => q = r

(* What a start adopts from the file is what the graph answers under the   *)
(* generation it named when this start probed it.  The facts of a row may  *)
(* be younger than its verdict, and no start is served older ones, or none *)
(* where it wants them.                                                    *)
ReusedIsCurrent ==
  \A s \in Consults : consults[s].cached =>
     /\ consults[s].verdict = consults[s].probed
     /\ consults[s].wants => consults[s].facts >= consults[s].probed

ConsultIsSound == ConsultTypeOK /\ RowsAreBounded /\ ReusedIsCurrent

=============================================================================
