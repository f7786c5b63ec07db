------------------------------- MODULE HostMoves -------------------------------
(***************************************************************************)
(* The commands that move one MCP server's registration between the host   *)
(* clients' configuration files and STM's own (cli/proxy.py): add --import *)
(* and init copy it in and may prune the originals, prune removes what is  *)
(* registered twice, eject puts it back, remove and add edit STM's side.   *)
(* They exclude each other by a lock on STM's file; nothing locks a host's *)
(* file, which its own client edits, and a command may die at any point.   *)
(***************************************************************************)
EXTENDS Naturals, FiniteSets, Sequences

CONSTANTS
  Commands,    \* the processes that run mms
  Order,       \* the host sources, in the order the scan reads them
  Shell,       \* those written by running `claude mcp ...`
  Unmanaged,   \* those mms never writes
  Servers,     \* identities: command or URL, arguments, env or headers
  MaxCommands, \* bound: the commands that are run
  MaxEdits,    \* bound: the edits the hosts make themselves
  Absent       \* no registration, no holder of the lock

Sources == {Order[i] : i \in 1..Len(Order)}

\* extra: fields of the host's that its identity does not cover
Entries == [id : Servers, extra : BOOLEAN]
Slots == Entries \cup {Absent}
Managed == Sources \ Unmanaged

\* original and rows: origin.original, and the sources with the row's prune flag
Rows == [id : Servers, tuned : BOOLEAN,
         origin : [kind : Sources \cup {Absent}, original : Slots,
                   rows : SUBSET Sources, pruned : SUBSET Sources]]

ASSUME MovesAssumption ==
  /\ Order \in Seq(Sources) /\ Shell \subseteq Sources /\ Unmanaged \subseteq Sources \ Shell
  /\ Absent \notin Sources \cup Commands /\ Absent \notin Entries /\ Absent \notin Rows
  /\ MaxCommands \in Nat /\ MaxEdits \in Nat

VARIABLES
  host,    \* per source: what it registers under the server's name
  stm,     \* the row of upstream_servers, or Absent
  backups, \* the rows of the prune backup log
  lock,    \* the lock file of STM's configuration
  cmd,     \* per process: its command
  ran,     \* how many commands were begun
  edits,   \* how many edits the hosts made
  edited   \* a host edited its file since the running command began

movesVars == <<host, stm, backups, lock, cmd, ran, edits, edited>>

NoOrigin == [kind |-> Absent, original |-> Absent, rows |-> {}, pruned |-> {}]
Row(id, origin) == [id |-> id, origin |-> origin, tuned |-> FALSE]

NoCommand ==
  [op |-> "none", at |-> "idle", data |-> Absent, seen |-> [h \in Sources |-> Absent], todo |-> {},
   done |-> {}, target |-> Absent, payload |-> Absent, plan |-> "none", loss |-> FALSE]

MovesInit ==
  /\ host \in [Sources -> Slots] /\ stm = Absent /\ backups = {}
  /\ lock = Absent /\ cmd = [p \in Commands |-> NoCommand]
  /\ ran = 0 /\ edits = 0 /\ edited = FALSE
-----------------------------------------------------------------------------
(* Every command holds the lock from before it reads to after it writes.   *)

(* A bug: the lock is taken for the write only.                            *)
Unlocked == TRUE

Locked == lock = Absent

BeginCommand(p, run) ==
  /\ cmd[p] = NoCommand /\ Locked /\ ran < MaxCommands
  /\ lock' = p /\ ran' = ran + 1 /\ edited' = FALSE
  /\ cmd' = [cmd EXCEPT ![p] = run]
  /\ UNCHANGED <<host, stm, backups, edits>>

Step(p, run) == cmd' = [cmd EXCEPT ![p] = run] /\ UNCHANGED <<lock, ran, edits, edited>>
End(p) ==
  /\ cmd' = [cmd EXCEPT ![p] = NoCommand]
  /\ lock' = IF lock = p THEN Absent ELSE lock
  /\ UNCHANGED <<ran, edits, edited>>

Reached(p, at) == cmd[p].at = at

(* Declined, refused, failed to write, interrupted or killed: what it has  *)
(* not written by then it never writes.                                    *)
GivesUp(p) == ~Reached(p, "idle") /\ End(p) /\ UNCHANGED <<host, stm, backups>>

\* the row is written back from what the command read
Save(p, row) == stm' = row
-----------------------------------------------------------------------------
(* _discover_candidates: the first source that names the server, and those *)
(* that name the same one; another server under the name is a conflict.    *)
Registered == {i \in 1..Len(Order) : host[Order[i]] # Absent}
Primary == Order[CHOOSE i \in Registered : \A j \in Registered : i <= j]
Scan ==
  [h \in Sources |->
    IF host[h] # Absent /\ host[h].id = host[Primary].id THEN host[h] ELSE Absent]
First(S) == Order[CHOOSE i \in 1..Len(Order) :
                    Order[i] \in S /\ \A j \in 1..Len(Order) : Order[j] \in S => i <= j]
Scanned(seen) == {h \in Sources : seen[h] # Absent}

Origin(seen) ==
  [kind |-> First(Scanned(seen)), original |-> seen[First(Scanned(seen))],
   rows |-> Scanned(seen), pruned |-> {}]

ImportStarts(p) ==
  /\ stm = Absent /\ Registered # {}
  /\ BeginCommand(p, [NoCommand EXCEPT !.op = "import", !.at = "picked", !.seen = Scan])

(* A bug: the import is saved together with the marks of its prune.        *)
ImportSavesLast(p) ==
  LET seen == cmd[p].seen
      row == Row(seen[First(Scanned(seen))].id, Origin(seen)) IN
  /\ Reached(p, "picked") /\ cmd[p].op = "import"
  /\ Step(p, [cmd[p] EXCEPT !.at = "prunes", !.data = row, !.todo = Scanned(seen) \ Unmanaged])
  /\ UNCHANGED <<host, stm, backups>>

(* Saved before anything is pruned.                                        *)
ImportSaves(p) ==
  LET seen == cmd[p].seen
      row == Row(seen[First(Scanned(seen))].id, Origin(seen)) IN
  /\ Reached(p, "picked") /\ cmd[p].op = "import"
  /\ Save(p, row)
  /\ Step(p, [cmd[p] EXCEPT !.at = "prunes", !.data = row, !.todo = Scanned(seen) \ Unmanaged])
  /\ UNCHANGED <<host, backups>>

PruneStarts(p) ==
  /\ stm # Absent /\ Registered # {} /\ host[Primary].id = stm.id
  /\ Scanned(Scan) \ Unmanaged # {}
  /\ BeginCommand(p, [NoCommand EXCEPT !.op = "prune", !.at = "prunes", !.data = stm, !.seen = Scan,
                           !.todo = Scanned(Scan) \ Unmanaged])

(* A bug: the delete goes ahead without its backup row.                    *)
SkippedNever(run, h) == [run EXCEPT !.at = "deletes"]

Skipped(run, h) == [run EXCEPT !.todo = @ \ {h}]

(* _append_pruned_backup, before the delete.                               *)
BacksUp(p) ==
  LET h == First(cmd[p].todo) IN
  /\ Reached(p, "prunes") /\ cmd[p].todo # {}
  /\ \/ /\ backups' = backups \cup {[source |-> h, original |-> cmd[p].seen[h]]}
        /\ Step(p, [cmd[p] EXCEPT !.at = "deletes"])
     \/ Step(p, Skipped(cmd[p], h)) /\ UNCHANGED backups
  /\ UNCHANGED <<host, stm>>

(* _prune_from_source removes whatever the source has under the name; a    *)
(* `claude` that is killed for taking too long may have done it.           *)
Deletes(p) ==
  LET h == First(cmd[p].todo)
      tried == [cmd[p] EXCEPT !.at = "prunes", !.todo = @ \ {h}] IN
  /\ Reached(p, "deletes")
  /\ \/ /\ host[h] # Absent /\ host' = [host EXCEPT ![h] = Absent]
        /\ \/ Step(p, [tried EXCEPT !.done = @ \cup {h}])
           \/ h \in Shell /\ Step(p, tried)
     \/ Step(p, tried) /\ UNCHANGED host
  /\ UNCHANGED <<stm, backups>>

(* A bug: the prune flags say what was asked for.                          *)
MarkedAsked(run) == run.data.origin.rows \ Unmanaged

Marked(run) == run.data.origin.pruned \cup (run.done \cap run.data.origin.rows)

(* _mark_pruned_sources and its save.                                      *)
PruneEnds(p) ==
  /\ Reached(p, "prunes") /\ cmd[p].todo = {}
  /\ Save(p, [cmd[p].data EXCEPT !.origin.pruned = Marked(cmd[p])])
  /\ End(p) /\ UNCHANGED <<host, backups>>
-----------------------------------------------------------------------------
(* eject.                                                                  *)

\* without an origin mms writes, --to names the target
EjectTargets == IF stm.origin.kind \in Managed THEN {stm.origin.kind} ELSE Managed
Payload ==
  IF stm.origin.original # Absent THEN stm.origin.original ELSE [id |-> stm.id, extra |-> FALSE]

EjectStarts(p) ==
  stm # Absent /\ \E target \in EjectTargets, plan \in {"write", "skip", "over"} :
    /\ (plan = "write") <=> (host[target] = Absent)
    /\ host[target] # Absent => ((plan = "skip") <=> (host[target].id = Payload.id))
    /\ BeginCommand(p, [NoCommand EXCEPT !.op = "eject",
                             !.at = IF plan = "skip" THEN "verifies" ELSE "writes",
                             !.data = stm, !.target = target, !.payload = Payload, !.plan = plan])

\* the client keeps only the fields of its own schema
Stripped(e) == [e EXCEPT !.extra = FALSE]

(* --force: `claude mcp add-json` overwrites nothing, so it is removed.    *)
EjectRemoves(p) ==
  LET h == cmd[p].target IN
  /\ Reached(p, "writes") /\ h \in Shell /\ cmd[p].plan = "over" /\ host[h] # Absent
  /\ host' = [host EXCEPT ![h] = Absent]
  /\ Step(p, [cmd[p] EXCEPT !.at = "adds"]) \/ End(p)
  /\ UNCHANGED <<stm, backups>>

EjectAdds(p) ==
  LET h == cmd[p].target IN
  /\ h \in Shell /\ host[h] = Absent
  /\ Reached(p, "adds") \/ (Reached(p, "writes") /\ cmd[p].plan = "write")
  /\ host' = [host EXCEPT ![h] = Stripped(cmd[p].payload)]
  /\ Step(p, [cmd[p] EXCEPT !.at = "verifies"]) \/ End(p)
  /\ UNCHANGED <<stm, backups>>

(* _json_config_set_entry.                                                 *)
EjectSets(p) ==
  LET h == cmd[p].target IN
  /\ Reached(p, "writes") /\ h \notin Shell
  /\ host' = [host EXCEPT ![h] = cmd[p].payload]
  /\ Step(p, [cmd[p] EXCEPT !.at = "verifies"])
  /\ UNCHANGED <<stm, backups>>

(* A bug: an entry that was there already needs no comparison.             *)
VerbatimOrSkipped(run) == run.plan = "skip" \/ host[run.target] = run.payload

Verbatim(run) == host[run.target] = run.payload

(* _eject_verify: a difference only --accept-schema-loss lets through, an  *)
(* absent entry nothing does.                                              *)
EjectVerifies(p) ==
  LET h == cmd[p].target IN
  /\ Reached(p, "verifies") /\ host[h] # Absent
  /\ \E accepted \in BOOLEAN :
       /\ Verbatim(cmd[p]) \/ accepted
       /\ Step(p, [cmd[p] EXCEPT !.at = "drops", !.loss = accepted])
  /\ UNCHANGED <<host, stm, backups>>

EjectSaves(p) ==
  /\ Reached(p, "drops") /\ Save(p, Absent)
  /\ End(p) /\ UNCHANGED <<host, backups>>
-----------------------------------------------------------------------------
(* The commands on STM's side alone.                                       *)

RemoveStarts(p) ==
  stm # Absent /\ BeginCommand(p, [NoCommand EXCEPT !.op = "remove", !.at = "picked", !.data = stm])
TuneStarts(p) ==
  stm # Absent /\ BeginCommand(p, [NoCommand EXCEPT !.op = "tune", !.at = "picked", !.data = stm])
AddStarts(p) ==
  /\ stm = Absent
  /\ \E id \in Servers :
       BeginCommand(p, [NoCommand EXCEPT !.op = "add", !.at = "picked",
                             !.payload = [id |-> id, extra |-> FALSE]])

EditSaves(p) ==
  /\ Reached(p, "picked") /\ cmd[p].op \in {"remove", "tune", "add"}
  /\ Save(p, CASE cmd[p].op = "remove" -> Absent
               [] cmd[p].op = "tune" -> [cmd[p].data EXCEPT !.tuned = TRUE]
               [] cmd[p].op = "add" -> Row(cmd[p].payload.id, NoOrigin))
  /\ End(p) /\ UNCHANGED <<host, backups>>

(* The client of a source edits its own file.                              *)
HostEdits(h) ==
  /\ edits < MaxEdits /\ edits' = edits + 1 /\ edited' = TRUE
  /\ host' \in {[host EXCEPT ![h] = e] : e \in Slots \ {host[h]}}
  /\ UNCHANGED <<stm, backups, lock, cmd, ran>>

CommandStep(p) ==
  \/ ImportStarts(p) \/ ImportSaves(p) \/ PruneStarts(p) \/ BacksUp(p) \/ Deletes(p) \/ PruneEnds(p)
  \/ EjectStarts(p) \/ EjectRemoves(p) \/ EjectAdds(p) \/ EjectSets(p) \/ EjectVerifies(p)
  \/ EjectSaves(p) \/ RemoveStarts(p) \/ TuneStarts(p) \/ AddStarts(p) \/ EditSaves(p) \/ GivesUp(p)

MovesNext == (\E p \in Commands : CommandStep(p)) \/ (\E h \in Sources : HostEdits(h))

MovesSpec == MovesInit /\ [][MovesNext]_movesVars
-----------------------------------------------------------------------------
MovesTypeOK ==
  /\ host \in [Sources -> Slots] /\ stm \in Rows \cup {Absent}
  /\ backups \subseteq [source : Managed, original : Entries]
  /\ lock \in Commands \cup {Absent}
  /\ ran \in 0..MaxCommands /\ edits \in 0..MaxEdits /\ edited \in BOOLEAN

(* What a command writes back is based on the file as it is, so no command *)
(* undoes another's; and a source is marked pruned only when a backup of   *)
(* it was taken.                                                           *)
SavesAreCurrent ==
  /\ MovesTypeOK
  /\ \A p \in Commands : Reached(p, "idle") \/ cmd[p].data = stm
  /\ stm # Absent => \A h \in stm.origin.pruned : \E b \in backups : b.source = h

Moved(p) == cmd'[p] # cmd[p]
Known(id) == (stm # Absent /\ stm.id = id) \/ \E h \in Sources : host[h] # Absent /\ host[h].id = id

(* A command leaves the server it moves registered somewhere, wherever it  *)
(* stops: only remove, or a host's own edit, takes the last registration   *)
(* away, or --force the one it overwrites.                                 *)
NeverDisappears ==
  [][\A id \in Servers :
       Known(id) /\ ~Known(id)' =>
         \/ edited'
         \/ \E p \in Commands : Moved(p) /\ cmd[p].op = "remove"
         \/ \E p \in Commands : Moved(p) /\ cmd[p].plan = "over" /\ cmd[p].payload.id # id
  ]_movesVars

Prunes(p, h) == Moved(p) /\ cmd[p].at = "deletes" /\ host[h] # Absent /\ host'[h] = Absent
BackedUp(h) == [source |-> h, original |-> host[h]] \in backups

(* Nothing is pruned that the backup log does not have, unless the host    *)
(* changed it after the scan.                                              *)
PrunesAreBackedUp ==
  [][\A p \in Commands, h \in Sources : Prunes(p, h) => BackedUp(h) \/ edited]_movesVars

(* STM gives its copy up only for one that is equal to it in every field,  *)
(* or where the operator accepts the loss.                                 *)
RestoredVerbatim ==
  [][\A p \in Commands :
       Moved(p) /\ cmd[p].op = "eject" /\ stm # Absent /\ stm' = Absent
         => cmd[p].loss \/ edited \/ host[cmd[p].target] = cmd[p].payload]_movesVars

(* A host's entry is never lost on the way: it is in a host file, in the   *)
(* registry or in the backup log, and what comes back is what was there.   *)
HostEntriesKept == NeverDisappears /\ PrunesAreBackedUp /\ RestoredVerbatim
=============================================================================
