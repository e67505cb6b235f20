-------------------------- MODULE StorageHandover --------------------------
(***************************************************************************)
(* What a storage migration promises: while files come and go, the files   *)
(* of one provider are handed over to another.  The old provider serves    *)
(* until the new one takes over; it gives up a file only when the new one  *)
(* serves and has it, and the new one gives up a file (a cancel) only      *)
(* while the old one serves and has it.  So no needed file is ever lost.   *)
(***************************************************************************)
CONSTANT File

VARIABLES
    needed,   \* files some document refers to
    held,     \* held[p]: the files provider p has an object of
    serving   \* the providers that are active

vars == <<needed, held, serving>>

Providers == {"source", "target"}

Init ==
    /\ held \in [Providers -> SUBSET File]
    /\ needed \in SUBSET held["source"]
    /\ serving = {"source"}

\* Clients: a new file arrives where the client was told to store it; a file
\* nobody needs any more goes away, at one provider at least.
Arrive(f, p) ==
    /\ f \notin needed
    /\ needed' = needed \cup {f}
    /\ held' = [held EXCEPT ![p] = @ \cup {f}]
    /\ UNCHANGED serving

Depart(f, p) ==
    /\ f \in needed
    /\ needed' = needed \ {f}
    /\ held' = [held EXCEPT ![p] = @ \ {f}]
    /\ UNCHANGED serving

Copy(f) ==
    /\ serving = {"source"}
    /\ f \in held["source"]
    /\ held' = [held EXCEPT !["target"] = @ \cup {f}]
    /\ UNCHANGED <<needed, serving>>

\* Copies are taken back by a cancel, or torn by a failure.
Withdraw(files) ==
    /\ serving = {"source"}
    /\ files \cap needed \subseteq held["source"]
    /\ held' = [held EXCEPT !["target"] = @ \ files]
    /\ UNCHANGED <<needed, serving>>

\* The cutover: first nobody serves, then the target does.
Retire ==
    /\ serving = {"source"}
    /\ serving' = {}
    /\ UNCHANGED <<needed, held>>

Promote ==
    /\ serving = {}
    /\ serving' = {"target"}
    /\ UNCHANGED <<needed, held>>

\* A move empties the old provider.
Purge(f) ==
    /\ serving = {"target"}
    /\ f \in needed => f \in held["target"]
    /\ held' = [held EXCEPT !["source"] = @ \ {f}]
    /\ UNCHANGED <<needed, serving>>

Next ==
    \/ \E f \in File :
          \/ \E p \in Providers : Arrive(f, p) \/ Depart(f, p)
          \/ Copy(f) \/ Purge(f)
    \/ \E files \in SUBSET File : Withdraw(files)
    \/ Retire
    \/ Promote

Spec == Init /\ [][Next]_vars

\* Every file somebody needs is held by somebody: uploads, copies, cancels and the
\* emptying of a moved source never leave a document without its object.
NothingLost == needed \subseteq held["source"] \cup held["target"]

TypeOK ==
    /\ held \in [Providers -> SUBSET File]
    /\ needed \subseteq File
=============================================================================
