----------------------------- MODULE PassageSizing -----------------------------
(***************************************************************************)
(* passage_size_for of app/core/config.py: how long the passages of a file *)
(* of a given declared size are, so that its vectors fit in memory.        *)
(*                                                                         *)
(* A vector costs EMBEDDING_DIM bytes, so a budget of B bytes holds        *)
(* B / EMBEDDING_DIM of them, and a file of n bytes needs a stride of      *)
(* n * EMBEDDING_DIM / B.  The code computes this in floating point; the   *)
(* quotients are exact here, and only their integer parts are used.        *)
(***************************************************************************)
EXTENDS Integers

CONSTANTS
  PASSAGE_TARGET_BYTES,
  PASSAGE_MAX_BYTES,
  PASSAGE_OVERLAP_BYTES,
  INDEX_MEMORY_BUDGET_BYTES,
  EMBEDDING_DIM,
  PASSAGE_MAX_TARGET_BYTES

\* The defaults are 600, 2048, 120, 2^30, 384 and 6000; the tests use 200, 600
\* and 40 for the first three.  An overlap of at least three bytes finds the
\* start of a UTF-8 character, which has at most four; one of at most a fifth of
\* the target is what the factors 1.25 and 0.2 of the code are made for.
ASSUME SizingAssumption ==
  /\ PASSAGE_TARGET_BYTES \in Nat
  /\ PASSAGE_MAX_BYTES \in Nat /\ PASSAGE_MAX_BYTES >= PASSAGE_TARGET_BYTES
  /\ PASSAGE_OVERLAP_BYTES \in Nat /\ PASSAGE_OVERLAP_BYTES >= 3
  /\ 5 * PASSAGE_OVERLAP_BYTES <= PASSAGE_TARGET_BYTES
  /\ INDEX_MEMORY_BUDGET_BYTES \in Nat \ {0}
  /\ EMBEDDING_DIM \in Nat \ {0}
  /\ PASSAGE_MAX_TARGET_BYTES \in Nat
  /\ PASSAGE_MAX_TARGET_BYTES >= PASSAGE_TARGET_BYTES

Smaller(a, b) == IF a < b THEN a ELSE b
Larger(a, b) == IF a < b THEN b ELSE a

\* needed_stride > target - overlap, for the default target and overlap.
NeedsLargerPassages(total_size) ==
  total_size * EMBEDDING_DIM >
    (PASSAGE_TARGET_BYTES - PASSAGE_OVERLAP_BYTES) * INDEX_MEMORY_BUDGET_BYTES

\* int(needed_stride * 1.25)
StrideWithSlack(total_size) ==
  (5 * total_size * EMBEDDING_DIM) \div (4 * INDEX_MEMORY_BUDGET_BYTES)

Target(total_size) ==
  IF NeedsLargerPassages(total_size)
  THEN Smaller(StrideWithSlack(total_size), PASSAGE_MAX_TARGET_BYTES)
  ELSE PASSAGE_TARGET_BYTES

\* int(target * 0.2), and never less than the default.
Overlap(total_size) ==
  IF NeedsLargerPassages(total_size)
  THEN Larger(Target(total_size) \div 5, PASSAGE_OVERLAP_BYTES)
  ELSE PASSAGE_OVERLAP_BYTES

PassageSizeFor(total_size) ==
  [target |-> Target(total_size),
   max |-> Larger(3 * Target(total_size), PASSAGE_MAX_BYTES),
   overlap |-> Overlap(total_size)]

\* What LineBuffer takes when it is given no sizes.
DefaultSizes ==
  [target |-> PASSAGE_TARGET_BYTES,
   max |-> PASSAGE_MAX_BYTES,
   overlap |-> PASSAGE_OVERLAP_BYTES]
----------------------------------------------------------------------------
(* Properties *)

\* "The target scales with the declared file size to keep each file's index
\* inside INDEX_MEMORY_BUDGET_BYTES" (passage_size_for): one byte more per
\* passage, which the rounding takes away, and the vectors of a file of the
\* declared size fit, unless the target is at its ceiling.
FitsBudget(total_size) ==
  LET sizes == PassageSizeFor(total_size)
      stride == sizes.target - sizes.overlap
  IN \/ total_size * EMBEDDING_DIM <= (stride + 1) * INDEX_MEMORY_BUDGET_BYTES
     \/ sizes.target = PASSAGE_MAX_TARGET_BYTES

\* "Coarsening should be gradual, not a cliff" (tests/test_config.py): a larger
\* file never gets smaller passages, although the sizes below and above the
\* threshold are computed differently.
GrowsWith(smaller, larger) ==
  LET sizes == PassageSizeFor(smaller)
      coarser == PassageSizeFor(larger)
  IN sizes.target <= coarser.target /\ sizes.overlap <= coarser.overlap
=============================================================================
