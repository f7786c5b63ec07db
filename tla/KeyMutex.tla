------------------------------ MODULE KeyMutex -------------------------------
(* What a per-key lock promises: at most one task at a time inside a key.  *)
CONSTANTS Tasks, Keys, None

VARIABLE inside   \* per key, the task inside it, or None

Init == inside = [k \in Keys |-> None]

Enter(t, k) == inside[k] = None /\ inside' = [inside EXCEPT ![k] = t]

Leave(t, k) == inside[k] = t /\ inside' = [inside EXCEPT ![k] = None]

Next == \E t \in Tasks, k \in Keys : Enter(t, k) \/ Leave(t, k)

Spec == Init /\ [][Next]_inside
=============================================================================
