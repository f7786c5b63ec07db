----------------------------- MODULE MCUpstream -----------------------------
(* Small instances of UpstreamConnection for TLC.                          *)
EXTENDS UpstreamConnection, TLC

Symmetry == Permutations(Callers) \cup Permutations(Recoveries)
              \cup Permutations(Configs)

(* No deadlock among the reconnect lock, the shared recovery task and the  *)
(* calls that wait for them, and every superseded transport gets closed,   *)
(* whichever of its users was the last.                                    *)
ConnectionsProgress == CallsEnd /\ SupersededCloses
=============================================================================
