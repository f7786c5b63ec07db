------------------------------ MODULE MCManager ------------------------------
(***************************************************************************)
(* Two calls of two tools, two refresh tasks, two callers of the fact      *)
(* extractor, two names and two consults.                                  *)
(***************************************************************************)
EXTENDS Manager, TLC

CONSTANTS f, g, none, tight, wide, other, t, u,   \* PendingStores
          reader, flipped,                         \* ToolsRefresh
          n1, n2                                   \* ToolExposure

\* Two tools.  Across a reload the file f is kept under two policies; one layout
\* has a tool without a block (in memory), the other a second file.
FileTable == [s \in {none, tight, wide, other} |->
                CASE s = none -> Memory [] s \in {tight, wide} -> f [] s = other -> g]
KeepTable == [s \in {none, tight, wide, other} |-> IF s = wide THEN 2 ELSE 1]
OneFile == [sel |-> [x \in {t, u} |-> IF x = t THEN tight ELSE none], more |-> 1]
TwoFiles == [sel |-> [x \in {t, u} |-> IF x = t THEN wide ELSE other], more |-> 2]
LayoutSet == {OneFile, TwoFiles}
Calling == Permutations(Calls)

\* The second listing of the server has a tool the first lacks.
EligibleTools(v) == IF v = 1 THEN {reader} ELSE {reader, flipped}

CatalogSet == {[n \in {n1, n2} |-> IF n = n1 THEN 0 ELSE 1]}
\* A bundle that knows only the second contract of n1, one nobody can read, and one
\* compiled for the review profile; the second contract of n2 requires tasks.
Bundle(readable, scope, first, second) ==
  [readable |-> readable, scope |-> scope,
   approves |-> [n \in {n1, n2} |-> IF n = n1 THEN first ELSE second]]
BundleSet == {Bundle(TRUE, "strict", 2, 1), Bundle(FALSE, "strict", 0, 0),
              Bundle(TRUE, "review", 1, 1)}
Setting(source, profile) == [source |-> source, profile |-> profile, query |-> profile]
SettingTable == {Setting("off", "strict"), Setting("bundle", "strict"),
                 Setting("bundle", "review"), Setting("stdio", "strict")}
HiddenPairs == {<<n2, 2>>}
FlaggedPairs == {<<n1, 2>>}
=============================================================================
