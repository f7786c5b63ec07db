---------------------------- MODULE FileCommands ----------------------------
(***************************************************************************)
(* The two sets of commands that write files, mms on STM's configuration   *)
(* and mms on the registry, and the sweep of the children a command or a   *)
(* server leaves, side by side: they share no file, so a behaviour is of   *)
(* one of them and leaves the others as they began.                        *)
(***************************************************************************)
EXTENDS HostMoves, ServerRegistry, ChildReaper

VARIABLE part

commandVars == <<part, movesVars, registryVars, reaperVars>>

\* A part that does not move begins in one way.
CommandsInit ==
  /\ part \in {"moves", "registry", "sweeps"}
  /\ MovesInit /\ RegistryInit /\ ReaperInit
  /\ part # "registry" => \A x \in HostFiles : \A n \in Names : hosts[x][n] = None
  /\ part # "moves" => \A h \in Sources : host[h] = Absent

HostsMove == part = "moves" /\ MovesNext /\ UNCHANGED <<registryVars, reaperVars>>
RegistryMoves == part = "registry" /\ RegistryNext /\ UNCHANGED <<movesVars, reaperVars>>
SweepsMove == part = "sweeps" /\ ReaperNext /\ UNCHANGED <<movesVars, registryVars>>

CommandsNext == UNCHANGED part /\ (HostsMove \/ RegistryMoves \/ SweepsMove)

CommandsSpec == CommandsInit /\ [][CommandsNext]_commandVars
-----------------------------------------------------------------------------
(* No command saves over what it has not read, and no sweep signals what   *)
(* is not a leak: the invariants of the commands on the configuration and  *)
(* of the sweep.                                                           *)
CommandsAreSound == SavesAreCurrent /\ ReaperIsSound

(* What a host's file says of a server is not lost, in the file itself or  *)
(* in STM's copy, nor taken for gone when it could not be read.            *)
SourcesAreKept == HostEntriesKept /\ RowsAreVouched
=============================================================================
