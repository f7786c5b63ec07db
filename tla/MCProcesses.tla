----------------------------- MODULE MCProcesses -----------------------------
(***************************************************************************)
(* Two processes that must end, side by side: the shared daemon with its   *)
(* commands, and the life of the MCP server's process.  They share no      *)
(* variable, so a behaviour moves one of them and leaves the other as it   *)
(* began.                                                                  *)
(***************************************************************************)
EXTENDS Daemon, ServerLifespan

VARIABLE part

daemonVars == vars
processVars == <<part, daemonVars, lifespanVars>>

DaemonMoves(A) == part = "daemon" /\ A /\ UNCHANGED <<part, lifespanVars>>
LifespanMoves(A) == part = "lifespan" /\ A /\ UNCHANGED <<part, daemonVars>>

\* A part that does not move begins in one way.
ProcessesInit ==
  /\ part \in {"daemon", "lifespan"} /\ Init /\ LifespanInit
  /\ part # "lifespan" => /\ opened = {"manager"} \cup Always /\ stage = "starting"
                          /\ threads /\ parent = "here"

ProcessesNext == DaemonMoves(Next) \/ LifespanMoves(LifespanNext)

\* The fairness of each part, as its module states it.
ProcessesSpec ==
  /\ ProcessesInit /\ [][ProcessesNext]_processVars
  /\ \A d \in Daemons : WF_processVars(DaemonMoves(Serve(d)))
  /\ \A c \in Clients : /\ WF_processVars(DaemonMoves(Admit(c)))
                        /\ WF_processVars(DaemonMoves(Expire(c)))
  /\ WF_processVars(LifespanMoves(TimesOut)) /\ WF_processVars(LifespanMoves(Fires))
  /\ WF_processVars(LifespanMoves(Poll))
-----------------------------------------------------------------------------
(* Every stop of the daemon ends, and so does the process that was told to *)
(* go: the properties StopEnds and ShutdownEnds of the two parts.          *)
ProcessesEnd == StopEnds /\ ShutdownEnds
=============================================================================
