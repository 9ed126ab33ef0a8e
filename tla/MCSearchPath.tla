---------------------------- MODULE MCSearchPath ----------------------------
(* Small instances of SearchPath for TLC. *)
EXTENDS SearchPath, TLC

\* Workers, request threads and files are interchangeable.
Interchangeable ==
  Permutations(Worker) \cup Permutations(Request) \cup Permutations(FileId)
=============================================================================
