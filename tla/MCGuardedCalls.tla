--------------------------- MODULE MCGuardedCalls ----------------------------
(* Snapshots for GuardedCalls: two connections, two shapes, caching on by  *)
(* override or globally, off globally.                                     *)
EXTENDS GuardedCalls, TLC

CONSTANTS old, new   \* connection fingerprints

Cfg(c, s, t, e, d) ==
  [conn |-> c, shape |-> s, ttl |-> t, cache |-> e, default |-> d]

Plain == Cfg(old, "short", "on", "annotated", TRUE)
Edited == Cfg(new, "long", "inherit", "yes", TRUE)
Disabled == Cfg(old, "short", "inherit", "annotated", FALSE)

Edits == {Plain, Edited, Disabled}
Toggles == {Plain, Disabled}
Symmetry == Permutations(Callers)
=============================================================================
