-------------------------- MODULE MCStorageAdmin --------------------------
(***************************************************************************)
(* Instances of StorageAdmin for TLC, and a statement that a comment of    *)
(* the code makes and its behaviour refutes.                               *)
(***************************************************************************)
EXTENDS StorageAdmin, TLC

\* After changes that have met no property says anything.  Either there is no scan, and
\* files of one kind, yet to be shown, will do; or there is one, the active provider stays, and
\* one request runs at a time.
ScanOrSwitch ==
    /\ ~raced
    /\ \/ /\ scan = NoScan
          /\ \A p \in Provider : objects[p] \subseteq Counted
          /\ used = {} /\ rows = {}
          /\ \A r \in Request : memory[r].key \in Counted \cup {"none"}
       \/ /\ job = {} /\ stale = {}
          /\ Active = {Bootstrapped}
          /\ \A p \in Provider : provider[p].config = 0
          /\ \E r \in Request : \A q \in Request \ {r} : pc[q] = "idle"

Symmetry == Permutations(Request)

\* orphanScanWorker.js:102 "theme-assets/ image keys aren't individually enumerable from the
\* Theme doc beyond imageKey itself, which is already covered above": no key that has been
\* in use since the scan began is reported.
OrphansAreUnused ==
    scan.status = "completed" => scan.orphans \cap used \subseteq late
=============================================================================
