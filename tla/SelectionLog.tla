---------------------------- MODULE SelectionLog ----------------------------
(***************************************************************************)
(* The log of tool selections, proxy/selection_log.py: processes append    *)
(* records to one file without a lock, a full file is rotated to numbered  *)
(* backups under a lock, and mms selection feedback (cli/selection_cmd.py) *)
(* labels a selection it finds there.  A file is its pieces: newlines, the *)
(* records written whole and what a short write left of one.  Names move   *)
(* while appenders hold the files open; a file that no name holds is lost. *)
(*                                                                         *)
(* An append is the system calls it makes.  Sampling and redaction, which  *)
(* write nothing, are left out; so is Windows, which cannot rename what is *)
(* open.  A build before self-framing appends without the leading newline  *)
(* and asks nothing afterwards; it is not held to the properties.          *)
(***************************************************************************)
EXTENDS Naturals, Sequences, FiniteSets

CONSTANTS
  Writers,     \* the proxies of this build
  OldWriters,  \* those of a build before self-framing
  Labeller,    \* a run of mms selection feedback
  Backups,     \* per writer: max_backups
  MaxBackups,  \* the most a writer keeps
  Full,        \* max_bytes: the pieces of a full file
  MaxRecords,  \* bounds the records
  Nobody       \* no holder of the rotation lock

ASSUME LogAssumption ==
  /\ MaxBackups \in Nat /\ \A w \in Writers : Backups[w] \in 0..MaxBackups
  /\ Writers \cap OldWriters = {} /\ Labeller \notin Writers \cup OldWriters
  /\ Nobody \notin Writers \cup {Labeller}
  /\ Full \in Nat \ {0} /\ MaxRecords \in Nat

VARIABLES
  files,   \* the content of every file there ever was
  named,   \* the file of each name, 0 the log and n its nth backup; 0 is no file
  locked,  \* the holder of the rotation lock
  append,  \* per process: the append it makes
  status,  \* what the append of each record reported
  label    \* the labeller: what it resolved

logVars == <<files, named, locked, append, status, label>>

Processes == Writers \cup OldWriters \cup {Labeller}
Slots == 0..MaxBackups

NotAppending == [at |-> "idle"]
NewLine == [kind |-> "newline", of |-> 0]
Whole(r) == [kind |-> "whole", of |-> r]
Torn(r) == [kind |-> "torn", of |-> r]

LogInit ==
  /\ files = <<>> /\ named = [i \in Slots |-> 0] /\ locked = Nobody
  /\ append = [p \in Processes |-> NotAppending]
  /\ status = <<>> /\ label = [at |-> "idle"]
-----------------------------------------------------------------------------
(* Reading: TelemetryReader.                                               *)

(* A record reads back when it is a line of its own. The last line of the  *)
(* log itself, unterminated, is one still being written.                   *)
Reads(f, active, r) ==
  \E i \in DOMAIN files[f] :
    /\ files[f][i] = Whole(r)
    /\ i > 1 => files[f][i - 1] = NewLine
    /\ IF i < Len(files[f]) THEN files[f][i + 1] = NewLine ELSE ~active

(* The records in the files that have a name: discover_log_files.          *)
Readable == {r \in DOMAIN status : \E n \in Slots : named[n] # 0 /\ Reads(named[n], n = 0, r)}

Reachable(f) == \E n \in Slots : named[n] = f
-----------------------------------------------------------------------------
(* Appending and rotating.                                                 *)

Go(p, at) == append' = [append EXCEPT ![p].at = at]

GoTo(p, at, fd) == append' = [append EXCEPT ![p] = [@ EXCEPT !.at = at, !.fd = fd]]

(* The size is read before the lock is asked for, and not again.           *)
Begin(p) ==
  /\ append[p].at = "idle" /\ Len(status) < MaxRecords
  /\ p = Labeller => label.at = "append"
  /\ status' = Append(status, IF p \in OldWriters THEN "old" ELSE "none")
  /\ append' = [append EXCEPT ![p] =
       [at |-> IF p \in Writers /\ named[0] # 0 /\ Len(files[named[0]]) >= Full
                 THEN "full" ELSE "ready",
        record |-> Len(status) + 1, fd |-> 0]]
  /\ UNCHANGED <<files, named, locked, label>>

MayRotate == locked = Nobody

LockRotation(p) ==
  /\ append[p].at = "full" /\ MayRotate
  /\ locked' = p
  /\ GoTo(p, "rotating", Backups[p])
  /\ UNCHANGED <<files, named, status, label>>

(* A rotation that cannot have the lock is left to the next append.        *)
DeferRotation(p) ==
  /\ append[p].at = "full" /\ locked # Nobody /\ Go(p, "ready")
  /\ UNCHANGED <<files, named, locked, status, label>>

(* _rotate_locked, one rename at a time; fd counts down the backups.       *)
ShiftBackup(p) ==
  LET i == append[p].fd - 1 IN
  /\ append[p].at = "rotating" /\ append[p].fd > 1
  /\ named' = IF named[i] = 0 THEN named ELSE [named EXCEPT ![i + 1] = named[i], ![i] = 0]
  /\ GoTo(p, "rotating", i)
  /\ UNCHANGED <<files, locked, status, label>>

MoveLog(p) ==
  /\ append[p].at = "rotating" /\ append[p].fd <= 1
  /\ append[p].fd = 1 => named[0] # 0
  /\ named' = [named EXCEPT ![0] = 0, ![1] = IF append[p].fd = 1 THEN named[0] ELSE @]
  /\ locked' = Nobody
  /\ GoTo(p, "ready", 0)
  /\ UNCHANGED <<files, status, label>>

Report(p, s) ==
  /\ status' = [status EXCEPT ![append[p].record] = s]
  /\ append' = [append EXCEPT ![p] = NotAppending]
  /\ label' = IF p = Labeller THEN [label EXCEPT !.at = "reported"] ELSE label

(* Another process has moved the log since the size was read: the rename   *)
(* finds nothing, and the append with it fails.                            *)
MoveFails(p) ==
  /\ append[p].at = "rotating" /\ append[p].fd = 1 /\ named[0] = 0
  /\ locked' = Nobody /\ Report(p, "failed")
  /\ UNCHANGED <<files, named>>

OpenLog(p) ==
  /\ append[p].at = "ready"
  /\ IF named[0] = 0
       THEN /\ files' = Append(files, <<>>) /\ named' = [named EXCEPT ![0] = Len(files) + 1]
            /\ GoTo(p, "open", Len(files) + 1)
       ELSE GoTo(p, "open", named[0]) /\ UNCHANGED <<files, named>>
  /\ UNCHANGED <<locked, status, label>>

Put(p, pieces) == files' = [files EXCEPT ![append[p].fd] = @ \o pieces]

(* The newline before a record ships in the same write.                    *)
Framed(p) == IF p \in OldWriters THEN <<>> ELSE <<NewLine>>

(* The write is whole, ...                                                 *)
Write(p) ==
  /\ append[p].at = "open"
  /\ Put(p, Framed(p) \o <<Whole(append[p].record), NewLine>>)
  /\ Go(p, "written")
  /\ UNCHANGED <<named, locked, status, label>>

(* ... short by its newline, ...                                           *)
WriteUnended(p) ==
  /\ append[p].at = "open"
  /\ Put(p, Framed(p) \o <<Whole(append[p].record)>>)
  /\ Go(p, "unended")
  /\ UNCHANGED <<named, locked, status, label>>

(* ... shorter, ...                                                        *)
WriteShort(p) ==
  /\ append[p].at = "open"
  /\ Put(p, Framed(p) \o <<Torn(append[p].record)>>)
  /\ Go(p, "torn")
  /\ UNCHANGED <<named, locked, status, label>>

(* ... or fails.                                                           *)
WriteFails(p) ==
  /\ append[p].at = "open" /\ Report(p, "failed")
  /\ UNCHANGED <<files, named, locked>>

(* What a short write reports: a record short of its newline may read.     *)
ShortStatus(p) == IF append[p].at = "unended" THEN "unconfirmed" ELSE "failed"

(* _terminate_fragment closes the line, if it can.                         *)
Terminate(p, closes) ==
  /\ append[p].at \in {"unended", "torn"} /\ p \notin OldWriters
  /\ IF closes THEN Put(p, <<NewLine>>) ELSE UNCHANGED files
  /\ Report(p, ShortStatus(p))
  /\ UNCHANGED <<named, locked>>

(* _still_reachable, the flush and the close.                              *)
Confirm(p) ==
  /\ append[p].at = "written" /\ p \notin OldWriters
  /\ IF Reachable(append[p].fd) THEN \E s \in {"written", "unconfirmed"} : Report(p, s)
     ELSE Report(p, "failed")
  /\ UNCHANGED <<files, named, locked>>

OldReport(p) ==
  /\ p \in OldWriters /\ append[p].at \in {"written", "unended", "torn"}
  /\ Report(p, "old")
  /\ UNCHANGED <<files, named, locked>>

(* The process dies; its lock goes with it, a started rotation stays so.   *)
AppenderDies(p) ==
  /\ append[p].at # "idle"
  /\ append' = [append EXCEPT ![p] = NotAppending]
  /\ locked' = IF locked = p THEN Nobody ELSE locked
  /\ label' = IF p = Labeller THEN [at |-> "idle"] ELSE label
  /\ UNCHANGED <<files, named, status>>
-----------------------------------------------------------------------------
(* mms selection feedback.                                                 *)

(* resolve_selection under the lock, which is then given back while the    *)
(* operator is asked.                                                      *)
Resolve(r) ==
  /\ label.at = "idle" /\ locked = Nobody /\ r \in Readable
  /\ label' = [at |-> "asked", target |-> r]
  /\ UNCHANGED <<files, named, locked, append, status>>

StillThere == label.target \in Readable

(* It is looked up again, and the lock is held until the label is written. *)
Verify ==
  /\ label.at = "asked" /\ locked = Nobody
  /\ IF StillThere THEN label' = [label EXCEPT !.at = "append"] /\ locked' = Labeller
     ELSE label' = [at |-> "idle"] /\ UNCHANGED locked
  /\ UNCHANGED <<files, named, append, status>>

(* The lock is busy for too long, or the operator says no.                 *)
GiveUp ==
  /\ label.at = "asked" /\ label' = [at |-> "idle"]
  /\ UNCHANGED <<files, named, locked, append, status>>

Labelled ==
  /\ label.at = "reported" /\ label' = [at |-> "idle"] /\ locked' = Nobody
  /\ UNCHANGED <<files, named, append, status>>

LogNext ==
  \/ \E p \in Processes :
       \/ Begin(p) \/ LockRotation(p) \/ DeferRotation(p) \/ ShiftBackup(p) \/ MoveLog(p)
       \/ MoveFails(p) \/ OpenLog(p) \/ Write(p) \/ WriteUnended(p) \/ WriteShort(p)
       \/ WriteFails(p) \/ \E closes \in BOOLEAN : Terminate(p, closes)
       \/ Confirm(p) \/ OldReport(p) \/ AppenderDies(p)
  \/ \E r \in DOMAIN status : Resolve(r)
  \/ Verify \/ GiveUp \/ Labelled

LogSpec == LogInit /\ [][LogNext]_logVars
-----------------------------------------------------------------------------
(* A record reported as written is a line of its own in its file for good, *)
(* whatever other builds and torn writes left before and after it.         *)
WrittenReads ==
  \A r \in DOMAIN status : status[r] = "written" => \E f \in DOMAIN files : Reads(f, TRUE, r)

(* A record reported as failed never shows up: writing it again is no      *)
(* duplicate.                                                              *)
FailedNeverReads == \A r \in DOMAIN status : status[r] = "failed" => r \notin Readable

(* The record ended a file without a newline, and an older build's record, *)
(* which ships none before it, now runs on from it.                        *)
RunInto(f, r) ==
  \E i \in DOMAIN files[f], o \in DOMAIN status :
    /\ files[f][i] = Whole(r) /\ (i > 1 => files[f][i - 1] = NewLine)
    /\ i < Len(files[f]) /\ status[o] = "old" /\ files[f][i + 1] \in {Whole(o), Torn(o)}

(* While a label is being written the selection it names is in the log:    *)
(* it was looked up after the operator's answer, and no rotation runs.     *)
(* Only an older build can spoil its line, the unended last one of a file. *)
LabelsMeetTheirSelection ==
  label.at = "append" =>
    \/ label.target \in Readable
    \/ \E n \in Slots : named[n] # 0 /\ RunInto(named[n], label.target)

(* The log keeps what its writers were told.                               *)
LogIsTruthful == WrittenReads /\ FailedNeverReads /\ LabelsMeetTheirSelection
=============================================================================
