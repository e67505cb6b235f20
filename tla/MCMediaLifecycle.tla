-------------------------- MODULE MCMediaLifecycle --------------------------
(***************************************************************************)
(* Instances of MediaLifecycle for TLC, and the statements that comments   *)
(* of the code make and its behaviour refutes.                             *)
(***************************************************************************)
EXTENDS MediaLifecycle, TLC

Symmetry == Permutations(Request) \cup Permutations(Task)

\* worker.js:8-11 "someone restore within that window, and this sweep is what
\* actually erases anything nobody restored in time": what was restored still has
\* its objects.
RestoredHasFiles ==
    \A m \in Media : Live(m) => doc[m].keys \subseteq objects[m]
=============================================================================
