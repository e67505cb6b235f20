------------------------ MODULE MCStorageMigration ------------------------
(***************************************************************************)
(* Instances of StorageMigration for TLC, and the statements that comments *)
(* of the code make and its behaviour refutes: TLC finds a counterexample  *)
(* to each of them in the instance of MigrationSafety.                     *)
(***************************************************************************)
EXTENDS StorageMigration

\* migrationWorker.js:269 "The source (still active throughout) is never
\* touched by a cancel": a cancelled job leaves the source active.
CancelLeavesSourceActive ==
    status = "cancelled" => isActive["source"]

\* migrationWorker.js:20 "Re-entrant/idempotent at every step so a server
\* restart mid-job just resumes here": no restart lets a file that is still to
\* be copied slip through the cutover.
RestartResumes ==
    status \in {"cutover", "cleanup", "completed"} => Rows("pending") = {}
=============================================================================
