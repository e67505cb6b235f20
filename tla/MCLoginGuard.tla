--------------------------- MODULE MCLoginGuard ---------------------------
(***************************************************************************)
(* An instance of LoginGuard for TLC.                                      *)
(***************************************************************************)
EXTENDS LoginGuard, TLC

\* The lock and the codes share nothing, so a run in which one of them stands still shows
\* as much as their product.
Apart ==
    \/ user = <<0, "off", [r \in Request |-> [attempts |-> 0, lock |-> "off"]], 0, 0, FALSE>>
       /\ \A r \in Request : pc[r] \notin Logins
    \/ \A c \in Code : code[c] = "none" /\ \A r \in Request : pc[r] \notin Codes \cup Resets

Symmetry == Permutations(Request) \cup Permutations(Code)
=============================================================================
