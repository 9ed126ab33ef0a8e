---------------------------- MODULE PassageStream ----------------------------
(***************************************************************************)
(* What the upload path relies on when it cuts a file into passages, as    *)
(* tests/test_chunker.py puts it: the passages cover the file completely,  *)
(* in order, overlapping but never gapping, however it arrives.            *)
(*                                                                         *)
(* A passage starts where the bytes held back start; what is held back     *)
(* next starts after that and not after the passage's end.  LineBuffer     *)
(* implements this, and Fed and Flushed of UploadPipeline assume it.       *)
(***************************************************************************)
EXTENDS Integers

VARIABLES
  fed,       \* bytes received so far
  offset,    \* where the bytes held back begin
  latest,    \* the passage emitted last, <<start, end>>
  finished   \* nothing is held back any more, and nothing will come

Init ==
  /\ fed = 0
  /\ offset = 0
  /\ latest = <<0, 0>>
  /\ finished = FALSE

Receive ==
  /\ ~finished
  /\ fed' \in Nat
  /\ fed' >= fed
  /\ UNCHANGED <<offset, latest, finished>>

\* The last cut of a file may end it.
Cut ==
  /\ ~finished
  /\ \E end \in (offset + 1)..fed :
       /\ latest' = <<offset, end>>
       /\ offset' \in (offset + 1)..end
       /\ finished' \in BOOLEAN
       /\ finished' => offset' = fed
  /\ UNCHANGED fed

Finish ==
  /\ ~finished
  /\ offset = fed
  /\ finished' = TRUE
  /\ UNCHANGED <<fed, offset, latest>>

Next == Receive \/ Cut \/ Finish

Spec == Init /\ [][Next]_<<fed, offset, latest, finished>>
=============================================================================
