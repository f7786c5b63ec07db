----------------------------- MODULE ServerRegistry -----------------------------
(***************************************************************************)
(* The registry of MCP servers (~/.mms/registry.toml) and the sidecar that *)
(* holds the baseline each entry was imported with (import_state.toml),    *)
(* reconciled with the hosts' configuration files by `mms import --apply`  *)
(* (cli/mms_import.py) and `mms host sync --apply` (cli/mms_host.py). The  *)
(* write lock of mms/state.py is held from before the first read to after  *)
(* the last write, so one command runs at a time; hosts edit their files   *)
(* whenever they like, the user may edit the sidecar, and a command may    *)
(* fail or die between its two writes.                                     *)
(***************************************************************************)
EXTENDS Naturals, FiniteSets, Sequences

CONSTANTS
  Names,        \* names of servers
  Shapes,       \* definitions: command, arguments, environment; also their drift hash
  ScanOrder,    \* the hosts' files, in the order a scan reads them
  Label,        \* file -> the source label its entries carry
  Home,         \* file -> the directory whose scans read it, or Everywhere
  Directories,  \* the directories mms is run in
  Reporting,    \* the files whose scanner reports that it could not read them
  Everywhere,
  MaxRuns,      \* bound: the commands that are run
  MaxHostEdits, \* bound: edits of the hosts' files
  MaxHandEdits, \* bound: edits of the sidecar by the user
  None          \* no entry, no row, no file

HostFiles == {ScanOrder[i] : i \in 1..Len(ScanOrder)}
Labels == {Label[f] : f \in HostFiles}
Local(f) == Home[f] # Everywhere

\* current: drift_hash_version is the running build's
RegistryRows == [hash : Shapes, source : Labels, current : BOOLEAN]

ASSUME RegistryAssumption ==
  /\ ScanOrder \in Seq(HostFiles) /\ None \notin Shapes /\ None \notin RegistryRows
  /\ Label \in [HostFiles -> Labels] /\ Home \in [HostFiles -> Directories \cup {Everywhere}]
  /\ Reporting \subseteq HostFiles /\ Everywhere \notin Directories
  /\ MaxRuns \in Nat /\ MaxHostEdits \in Nat /\ MaxHandEdits \in Nat

VARIABLES
  hosts,    \* file -> name -> the definition it registers, or None
  servers,  \* registry.toml: name -> definition, or None
  baselines,     \* import_state.toml: name -> its baseline, or None
  job,      \* the command that holds the write lock
  runs, hostEdits, handEdits

registryVars == <<hosts, servers, baselines, job, runs, hostEdits, handEdits>>

Stamp(shape, label) == [hash |-> shape, source |-> label, current |-> TRUE]

NoJob == [op |-> "none", at |-> "idle", seen |-> [f \in HostFiles |-> [n \in Names |-> None]],
          gaps |-> {}, forced |-> FALSE, acknowledged |-> FALSE,
          servers |-> [n \in Names |-> None], baselines |-> [n \in Names |-> None]]

RegistryInit ==
  /\ hosts \in [HostFiles -> [Names -> Shapes \cup {None}]]
  /\ servers = [n \in Names |-> None] /\ baselines = [n \in Names |-> None]
  /\ job = NoJob /\ runs = 0 /\ hostEdits = 0 /\ handEdits = 0
-----------------------------------------------------------------------------
(* discover, discover_with_gaps: the files read from a directory. What a   *)
(* file that cannot be read registers is not seen; only some scanners say  *)
(* so, the others read it as empty.                                        *)
Read(dir) == {f \in HostFiles : Home[f] \in {dir, Everywhere}}
Seen(read) == [f \in HostFiles |-> IF f \in read THEN hosts[f] ELSE NoJob.seen[f]]
Gaps(unread) == {Label[f] : f \in unread \cap Reporting}

Holders(n, seen) == {f \in HostFiles : seen[f][n] # None}
FirstOf(S) == ScanOrder[CHOOSE i \in 1..Len(ScanOrder) : /\ ScanOrder[i] \in S
                         /\ \A j \in 1..(i - 1) : ScanOrder[j] \notin S]
LastOf(S) == ScanOrder[CHOOSE i \in 1..Len(ScanOrder) : /\ ScanOrder[i] \in S
                        /\ \A j \in (i + 1)..Len(ScanOrder) : ScanOrder[j] \notin S]

(* _classify_against_registry: the first file that holds a name counts; a  *)
(* later one is idempotent with it, or in conflict.                        *)
New(seen) == {n \in Names : servers[n] = None /\ Holders(n, seen) # {}}
Idempotent(n, seen) ==
  LET first == FirstOf(Holders(n, seen)) IN
    {f \in Holders(n, seen) :
       IF f = first THEN seen[f][n] = servers[n] ELSE seen[f][n] = seen[first][n]}
Adopted(n, seen) == LET f == FirstOf(Holders(n, seen)) IN Stamp(seen[f][n], Label[f])

(* The gate on definitions that a checkout brought along.                  *)
Acknowledged(files, ack) == ack \/ \A f \in files : ~Local(f)


(* A command scans, loads both files and decides; --from narrows the scan. *)
Begins(op, read, unread, forced, ack, newServers, newRows) ==
  /\ job = NoJob /\ runs < MaxRuns /\ runs' = runs + 1
  /\ job' = [op |-> op, at |-> "planned", seen |-> Seen(read \ unread),
             gaps |-> Gaps(read \cap unread), forced |-> forced, acknowledged |-> ack,
             servers |-> newServers, baselines |-> newRows]
  /\ UNCHANGED <<hosts, servers, baselines, hostEdits, handEdits>>

Unread == {u \in SUBSET HostFiles : Cardinality(u) <= 1}
-----------------------------------------------------------------------------
(* import_command --apply. A row is backfilled only where there is none,   *)
(* and after those of the new entries: both may name the same server.      *)
Unstamped(n) == baselines[n] = None

Backfills(seen) == {n \in Names : Unstamped(n) /\ Holders(n, seen) # {} /\ Idempotent(n, seen) # {}}
Backfilled(n, seen) ==
  Stamp(seen[FirstOf(Holders(n, seen))][n], Label[LastOf(Idempotent(n, seen))])

ImportPlans ==
  \E dir \in Directories, from \in {HostFiles} \cup {{f} : f \in HostFiles}, unread \in Unread, ack \in BOOLEAN :
    LET read == Read(dir) \cap from
        seen == Seen(read \ unread) IN
    /\ read # {} /\ unread \subseteq read
    /\ Acknowledged({FirstOf(Holders(n, seen)) : n \in New(seen)}, ack)
    /\ Begins("import", read, unread, FALSE, ack,
         [n \in Names |-> IF n \in New(seen) THEN Adopted(n, seen).hash ELSE servers[n]],
         [n \in Names |-> IF n \in Backfills(seen) THEN Backfilled(n, seen)
                          ELSE IF n \in New(seen) THEN Adopted(n, seen) ELSE baselines[n]])
-----------------------------------------------------------------------------
(* sync_cmd --apply. An entry is compared with the file its baseline came  *)
(* from, else with the first that holds it (_select_candidate_by_name).    *)
AtHome(n, seen) == {f \in Holders(n, seen) : baselines[n] # None /\ Label[f] = baselines[n].source}
Candidate(n, seen) == IF AtHome(n, seen) # {} THEN FirstOf(AtHome(n, seen)) ELSE FirstOf(Holders(n, seen))

InRegistry == {n \in Names : servers[n] # None}
Vouched(n) == baselines[n] # None /\ baselines[n].current

(* A bug: a file that was not read counts as read and empty.               *)
MissingAnywhere(n, seen, gaps) == Holders(n, seen) = {}

Missing(n, seen, gaps) == Holders(n, seen) = {} /\ baselines[n].source \notin gaps

Removed(seen, gaps) == {n \in InRegistry : Vouched(n) /\ Missing(n, seen, gaps)}
(* A bug: a changed entry is adopted from whichever file holds it.         *)
RestampedAnywhere(seen) == {n \in InRegistry : Vouched(n) /\ Holders(n, seen) # {}
                                               /\ seen[Candidate(n, seen)][n] # baselines[n].hash}

Restamped(seen) == {n \in InRegistry : Vouched(n) /\ AtHome(n, seen) # {}
                                       /\ seen[Candidate(n, seen)][n] # baselines[n].hash}

BaselinesMissing(seen) == {n \in InRegistry : ~Vouched(n) /\ Holders(n, seen) # {}}
(* A bug: orphaned baselines are no reason to write.                       *)
OrphansIgnored == {}

Orphans == {n \in Names : baselines[n] # None} \ InRegistry

SyncPlans ==
  \E dir \in Directories, unread \in Unread, forced \in BOOLEAN, ack \in BOOLEAN :
    LET read == Read(dir)
        seen == Seen(read \ unread)
        gone == Removed(seen, Gaps(read \cap unread))
        adopts == IF forced THEN Restamped(seen) ELSE {}
        stamps == adopts \cup BaselinesMissing(seen)
        now(n) == seen[Candidate(n, seen)][n]
        keep == [n \in Names |->
                  IF n \in gone THEN None
                  ELSE IF n \in New(seen) THEN Adopted(n, seen).hash
                  ELSE IF n \in adopts THEN now(n) ELSE servers[n]] IN
    /\ unread \subseteq read
    /\ Acknowledged({FirstOf(Holders(n, seen)) : n \in New(seen)}
                    \cup {Candidate(n, seen) : n \in adopts}, ack)
    /\ Begins("sync", read, unread, forced, ack, keep,
         IF New(seen) \cup gone \cup stamps \cup Orphans = {} THEN baselines ELSE
         [n \in Names |-> IF keep[n] = None THEN None
                          ELSE IF n \in New(seen) THEN Adopted(n, seen)
                          ELSE IF n \in stamps THEN Stamp(now(n), Label[Candidate(n, seen)])
                          ELSE baselines[n]])
-----------------------------------------------------------------------------
(* The registry first, the sidecar second; what it would leave as it is, a *)
(* command does not write.                                                 *)
WritesRegistry ==
  /\ job.at = "planned"
  /\ servers' = job.servers /\ job' = [job EXCEPT !.at = "registry"]
  /\ UNCHANGED <<hosts, baselines, runs, hostEdits, handEdits>>

Completes ==
  /\ job.at = "registry"
  /\ baselines' = job.baselines /\ job' = NoJob
  /\ UNCHANGED <<hosts, servers, runs, hostEdits, handEdits>>

(* Declined at the prompt, failed to write, interrupted or killed.         *)
Declines == /\ job # NoJob /\ job' = NoJob
            /\ UNCHANGED <<hosts, servers, baselines, runs, hostEdits, handEdits>>

FileEdits ==
  /\ hostEdits < MaxHostEdits /\ hostEdits' = hostEdits + 1
  /\ \E f \in HostFiles, n \in Names, v \in Shapes \cup {None} :
       v # hosts[f][n] /\ hosts' = [hosts EXCEPT ![f][n] = v]
  /\ UNCHANGED <<servers, baselines, job, runs, handEdits>>

(* The user deletes a row, or a build with another hash version wrote it.  *)
HandEdits ==
  /\ job = NoJob /\ handEdits < MaxHandEdits /\ handEdits' = handEdits + 1
  /\ \E n \in {m \in Names : baselines[m] # None} :
       \/ baselines' = [baselines EXCEPT ![n] = None]
       \/ baselines[n].current /\ baselines' = [baselines EXCEPT ![n].current = FALSE]
  /\ UNCHANGED <<hosts, servers, job, runs, hostEdits>>

RegistryNext ==
  \/ ImportPlans \/ SyncPlans \/ WritesRegistry \/ Completes \/ Declines
  \/ FileEdits \/ HandEdits

RegistrySpec == RegistryInit /\ [][RegistryNext]_registryVars
-----------------------------------------------------------------------------
RegistryTypeOK ==
  /\ hosts \in [HostFiles -> [Names -> Shapes \cup {None}]]
  /\ servers \in [Names -> Shapes \cup {None}] /\ baselines \in [Names -> RegistryRows \cup {None}]
  /\ job.at \in {"idle", "planned", "registry"} /\ job.op \in {"none", "import", "sync"}
  /\ runs \in 0..MaxRuns /\ hostEdits \in 0..MaxHostEdits /\ handEdits \in 0..MaxHandEdits

(* An entry leaves the registry only when a scan that read the file its    *)
(* baseline came from found it in no file: what was not inspected (sync's  *)
(* not_inspected bucket) or has no trustworthy baseline is never removed,  *)
(* whatever the hosts, the sidecar's edits and earlier crashes did.        *)
RemovalsAreEvidenced == [][
  \A n \in Names : servers[n] # None /\ servers'[n] = None =>
    /\ job.op = "sync" /\ Holders(n, job.seen) = {}
    /\ Vouched(n) /\ baselines[n].source \notin job.gaps]_registryVars

(* What an entry runs changes only by a forced sync, and only to what the  *)
(* file of its baseline says (first import wins, an entry never moves to   *)
(* another host by itself); and a definition from a checkout's file enters *)
(* the registry only when the user said so.                                *)
AdoptionsAreChosen == [][
  \A n \in Names : servers'[n] \notin {None, servers[n]} =>
    \E f \in Holders(n, job.seen) :
      /\ servers'[n] = job.seen[f][n] /\ (Local(f) => job.acknowledged)
      /\ servers[n] # None => job.forced /\ Label[f] = baselines[n].source]_registryVars

(* A sync that completes leaves every row with its entry, and every entry  *)
(* it found at a host with a row it can trust, also after a command that   *)
(* died between the two writes: sync_cmd's docstring says that a crash     *)
(* heals on the next run.                                                  *)
CompletedSyncHeals == [][
  Completes /\ job.op = "sync" =>
    \A n \in Names :
      /\ baselines'[n] # None => servers[n] # None
      /\ servers[n] # None /\ Holders(n, job.seen) # {} => baselines'[n] # None /\ baselines'[n].current
  ]_registryVars

(* What a command changes of a row is backed by what it has read and by    *)
(* what its caller chose.                                                  *)
RowsAreVouched == RemovalsAreEvidenced /\ AdoptionsAreChosen
=============================================================================
