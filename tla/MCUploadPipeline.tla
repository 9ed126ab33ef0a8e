-------------------------- MODULE MCUploadPipeline --------------------------
(* Small instances of UploadPipeline for TLC. *)
EXTENDS UploadPipeline, TLC

\* Workers, request threads and files are interchangeable.
Interchangeable ==
  Permutations(Worker) \cup Permutations(Request) \cup Permutations(FileId)
=============================================================================
