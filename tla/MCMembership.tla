--------------------------- MODULE MCMembership ---------------------------
(***************************************************************************)
(* An instance of Membership for TLC.                                      *)
(***************************************************************************)
EXTENDS Membership, TLC

Symmetry == Permutations(Request) \cup Permutations(Invitation)

\* Both invitations go to the same guest, who is no member at first.
ToGuest == [i \in Invitation |-> "guest"]

\* What follows a blind write satisfies every property but the type invariant by
\* definition, and is not explored.
Sighted == ~blind
=============================================================================
