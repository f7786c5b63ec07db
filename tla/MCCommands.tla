----------------------------- MODULE MCCommands -----------------------------
(***************************************************************************)
(* The commands on files and the sweep of children on small instances.     *)
(***************************************************************************)
EXTENDS FileCommands, TLC

CONSTANTS user, desktop, cursor,  \* the hosts of HostMoves
          mcpA, mcpB, a, b        \* the files and directories of ServerRegistry

\* One source is written by a shell command, one as a file, one not at all.
ThreeSources == <<user, desktop, cursor>>

\* The .mcp.json of two directories, and a file every scan reads.
ThreeFiles == <<mcpA, mcpB, cursor>>
FileLabels == mcpA :> "mcp" @@ mcpB :> "mcp" @@ cursor :> "cursor"
FileHomes == mcpA :> a @@ mcpB :> b @@ cursor :> Everywhere

Interchangeable == Permutations(Commands) \cup Permutations(Servers) \cup Permutations(Shapes)
                     \cup Permutations(Pids)
=============================================================================
