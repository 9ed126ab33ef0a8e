-------------------------- MODULE PassageSizing_proofs --------------------------
(***************************************************************************)
(* What passage_size_for promises, for every value of the configuration    *)
(* that SizingAssumption admits and every declared size.                   *)
(***************************************************************************)
EXTENDS PassageSizing, TLAPS

\* Floor division of natural numbers.
LEMMA Quotient ==
  ASSUME NEW a \in Nat, NEW b \in Nat \ {0}
  PROVE  a \div b \in Nat /\ b * (a \div b) <= a /\ a < b * (a \div b) + b
OBVIOUS

\* Products of natural numbers are natural.
LEMMA ProductIsNat ==
  ASSUME NEW a \in Nat, NEW b \in Nat
  PROVE  a * b \in Nat
OBVIOUS

\* Multiplying with a natural number keeps the order.
LEMMA ProductKeepsOrder ==
  ASSUME NEW a \in Nat, NEW b \in Nat, NEW c \in Nat, a <= b
  PROVE  c * a <= c * b
OBVIOUS

\* A quotient that is multiplied out is at least a number whose product is.
LEMMA QuotientAtLeast ==
  ASSUME NEW a \in Nat, NEW b \in Nat \ {0}, NEW q \in Nat, b * q <= a
  PROVE  q <= a \div b
<1>1. a \div b \in Nat /\ a < b * (a \div b) + b
  BY Quotient
<1> SUFFICES ASSUME (a \div b) + 1 <= q PROVE FALSE
  BY <1>1
<1>2. b * ((a \div b) + 1) <= b * q
  BY <1>1, ProductKeepsOrder
<1>3. b * ((a \div b) + 1) = b * (a \div b) + b
  BY <1>1
<1> QED BY <1>1, <1>2, <1>3, ProductIsNat

----------------------------------------------------------------------------
(* The scaled target *)

\* What is divided and what it is divided by.
LEMMA StrideOperands ==
  ASSUME NEW n \in Nat
  PROVE  /\ n * EMBEDDING_DIM \in Nat
         /\ 5 * n * EMBEDDING_DIM = 5 * (n * EMBEDDING_DIM)
         /\ 5 * n * EMBEDDING_DIM \in Nat
         /\ 4 * INDEX_MEMORY_BUDGET_BYTES \in Nat \ {0}
<1>1. n * EMBEDDING_DIM \in Nat
  BY SizingAssumption, ProductIsNat
<1>2. 5 * n * EMBEDDING_DIM = 5 * (n * EMBEDDING_DIM)
  BY SizingAssumption
<1> QED BY <1>1, <1>2, SizingAssumption

\* Rounding takes away less than one byte of the stride with its slack.
LEMMA SlackIsRoundedDown ==
  ASSUME NEW n \in Nat
  PROVE  /\ StrideWithSlack(n) \in Nat
         /\ 5 * (n * EMBEDDING_DIM) <
              4 * INDEX_MEMORY_BUDGET_BYTES * StrideWithSlack(n) + 4 * INDEX_MEMORY_BUDGET_BYTES
BY StrideOperands, Quotient DEF StrideWithSlack

\* Where the default stride is too short, the scaled target is not below the
\* default target: the slack of 1.25 makes up for an overlap of a fifth.
LEMMA ScaledIsLarger ==
  ASSUME NEW n \in Nat, NeedsLargerPassages(n)
  PROVE  StrideWithSlack(n) >= PASSAGE_TARGET_BYTES
<1> DEFINE D == n * EMBEDDING_DIM
           B == INDEX_MEMORY_BUDGET_BYTES
           T == PASSAGE_TARGET_BYTES
           S == PASSAGE_TARGET_BYTES - PASSAGE_OVERLAP_BYTES
<1>1. D \in Nat /\ B \in Nat \ {0} /\ T \in Nat /\ S \in Nat
  BY StrideOperands, SizingAssumption
<1>2. 4 * T <= 5 * S
  BY SizingAssumption
<1>3. S * B < D
  BY DEF NeedsLargerPassages
<1>4. StrideWithSlack(n) = (5 * D) \div (4 * B)
  BY StrideOperands DEF StrideWithSlack
<1> HIDE DEF D, B, T, S
<1>5. B * (4 * T) <= B * (5 * S)
  BY <1>1, <1>2, ProductKeepsOrder
<1>6. B * (5 * S) = 5 * (S * B) /\ S * B \in Nat
  BY <1>1, ProductIsNat
<1>7. (4 * B) * T = B * (4 * T)
  BY <1>1
<1>8. (4 * B) * T <= 5 * D
  BY <1>1, <1>3, <1>5, <1>6, <1>7, ProductIsNat
<1>9. T <= (5 * D) \div (4 * B)
  <2>1. 5 * D \in Nat /\ 4 * B \in Nat \ {0}
    BY <1>1
  <2> QED BY <1>1, <1>8, <2>1, QuotientAtLeast
<1> QED BY <1>4, <1>9 DEF T

\* The target is between the default and the ceiling.
LEMMA TargetInRange ==
  ASSUME NEW n \in Nat
  PROVE  /\ Target(n) \in Nat
         /\ Target(n) >= PASSAGE_TARGET_BYTES
         /\ Target(n) <= PASSAGE_MAX_TARGET_BYTES
BY SlackIsRoundedDown, ScaledIsLarger, SizingAssumption DEF Target, Smaller

\* The overlap is a fifth of a scaled target, and never more of any.
LEMMA OverlapInRange ==
  ASSUME NEW n \in Nat
  PROVE  /\ Overlap(n) \in Nat
         /\ Overlap(n) >= PASSAGE_OVERLAP_BYTES
         /\ 5 * Overlap(n) <= Target(n)
         /\ NeedsLargerPassages(n) => Overlap(n) = Target(n) \div 5
<1>1. /\ Target(n) \in Nat /\ Target(n) >= PASSAGE_TARGET_BYTES
  BY TargetInRange
<1>2. PASSAGE_OVERLAP_BYTES \in Nat /\ 5 * PASSAGE_OVERLAP_BYTES <= Target(n)
  BY <1>1, SizingAssumption
<1> QED BY <1>1, <1>2 DEF Overlap, Larger

----------------------------------------------------------------------------
(* What the chunker and the index rely on *)

InRange(sizes) ==
  /\ sizes.target \in Nat /\ sizes.target >= 15
  /\ sizes.max \in Nat /\ sizes.max >= sizes.target
  /\ sizes.overlap \in Nat /\ sizes.overlap >= 3
  /\ 5 * sizes.overlap <= sizes.target

\* The sizes suit the chunker whatever size is declared, zero and sizes beyond
\* the ceiling included.
THEOREM SizesAreUsable ==
  ASSUME NEW n \in Nat
  PROVE  InRange(PassageSizeFor(n))
<1>1. Target(n) \in Nat /\ Target(n) >= 15
  BY TargetInRange, SizingAssumption
<1>2. /\ Larger(3 * Target(n), PASSAGE_MAX_BYTES) \in Nat
      /\ Larger(3 * Target(n), PASSAGE_MAX_BYTES) >= Target(n)
  BY <1>1, SizingAssumption DEF Larger
<1>3. Overlap(n) \in Nat /\ Overlap(n) >= 3 /\ 5 * Overlap(n) <= Target(n)
  BY OverlapInRange, SizingAssumption
<1> QED BY <1>1, <1>2, <1>3 DEF InRange, PassageSizeFor

\* So do the defaults.
LEMMA DefaultsAreUsable == InRange(DefaultSizes)
BY SizingAssumption DEF InRange, DefaultSizes

\* The index of a file of the declared size fits its budget but for the
\* rounding, below the ceiling.
THEOREM IndexFits ==
  ASSUME NEW n \in Nat
  PROVE  FitsBudget(n)
<1> DEFINE D == n * EMBEDDING_DIM
           B == INDEX_MEMORY_BUDGET_BYTES
           stride == Target(n) - Overlap(n)
<1>1. D \in Nat /\ B \in Nat \ {0} /\ Target(n) \in Nat /\ Overlap(n) \in Nat
      /\ 5 * Overlap(n) <= Target(n)
  BY StrideOperands, TargetInRange, OverlapInRange, SizingAssumption
<1>2. stride \in Nat
  BY <1>1
<1>3. FitsBudget(n) <=> \/ D <= (stride + 1) * B
                        \/ Target(n) = PASSAGE_MAX_TARGET_BYTES
  BY DEF FitsBudget, PassageSizeFor
<1>4. CASE ~NeedsLargerPassages(n)
  <2>1. stride = PASSAGE_TARGET_BYTES - PASSAGE_OVERLAP_BYTES
    BY <1>4 DEF Target, Overlap
  <2>2. D <= stride * B
    BY <1>1, <1>2, <1>4, <2>1, ProductIsNat DEF NeedsLargerPassages
  <2>3. (stride + 1) * B = stride * B + B /\ stride * B \in Nat
    BY <1>1, <1>2, ProductIsNat
  <2> QED BY <1>1, <1>3, <2>2, <2>3
<1>5. CASE NeedsLargerPassages(n) /\ Target(n) # PASSAGE_MAX_TARGET_BYTES
  <2>1. Target(n) = StrideWithSlack(n)
    BY <1>5 DEF Target, Smaller
  <2>2. 5 * D < 4 * B * Target(n) + 4 * B
    BY <2>1, SlackIsRoundedDown
  <2>3. 4 * Target(n) <= 5 * stride
    BY <1>1
  <2> HIDE DEF D, B, stride
  <2>4. B * (4 * Target(n)) <= B * (5 * stride)
    BY <1>1, <1>2, <2>3, ProductKeepsOrder
  <2>5. 4 * B * Target(n) = B * (4 * Target(n))
    BY <1>1
  <2>6. B * (5 * stride) = 5 * (stride * B) /\ stride * B \in Nat
    BY <1>1, <1>2, ProductIsNat
  <2>7. (stride + 1) * B = stride * B + B
    BY <1>1, <1>2
  <2>8. 5 * D < 5 * (stride * B) + 4 * B
    BY <1>1, <2>2, <2>4, <2>5, <2>6, ProductIsNat
  <2> QED BY <1>1, <1>3, <2>6, <2>7, <2>8
<1> QED BY <1>3, <1>4, <1>5

\* A larger file never gets smaller passages.
THEOREM SizesGrowWithTheFile ==
  ASSUME NEW a \in Nat, NEW b \in Nat, a <= b
  PROVE  GrowsWith(a, b)
<1>1. a * EMBEDDING_DIM <= b * EMBEDDING_DIM
  BY ProductKeepsOrder, SizingAssumption
<1>2. /\ Target(a) \in Nat /\ Target(b) \in Nat
      /\ Target(b) >= PASSAGE_TARGET_BYTES
  BY TargetInRange
<1>3. NeedsLargerPassages(a) => NeedsLargerPassages(b)
  <2>1. /\ a * EMBEDDING_DIM \in Nat /\ b * EMBEDDING_DIM \in Nat
        /\ (PASSAGE_TARGET_BYTES - PASSAGE_OVERLAP_BYTES) * INDEX_MEMORY_BUDGET_BYTES \in Nat
    BY StrideOperands, ProductIsNat, SizingAssumption
  <2> QED BY <1>1, <2>1 DEF NeedsLargerPassages
<1>4. StrideWithSlack(a) <= StrideWithSlack(b)
  <2> DEFINE p == 5 * a * EMBEDDING_DIM
             q == 5 * b * EMBEDDING_DIM
             d == 4 * INDEX_MEMORY_BUDGET_BYTES
  <2>1. p \in Nat /\ q \in Nat /\ d \in Nat \ {0} /\ p <= q
    BY <1>1, StrideOperands
  <2> HIDE DEF p, q, d
  <2>2. p \div d \in Nat /\ d * (p \div d) <= p
    BY <2>1, Quotient
  <2>3. d * (p \div d) <= q
    BY <2>1, <2>2, ProductIsNat
  <2>4. p \div d <= q \div d
    BY <2>1, <2>2, <2>3, QuotientAtLeast
  <2> QED BY <2>4 DEF StrideWithSlack, p, q, d
<1>5. Target(a) <= Target(b)
  <2>1. StrideWithSlack(a) \in Nat /\ StrideWithSlack(b) \in Nat
    BY SlackIsRoundedDown
  <2> QED BY <1>2, <1>3, <1>4, <2>1, SizingAssumption DEF Target, Smaller
<1>6. Overlap(a) <= Overlap(b)
  <2>1. Overlap(b) >= PASSAGE_OVERLAP_BYTES
    BY OverlapInRange
  <2>2. CASE NeedsLargerPassages(a)
    <3>1. Overlap(a) = Target(a) \div 5 /\ Overlap(b) = Target(b) \div 5
      BY <1>3, <2>2, OverlapInRange
    <3> QED BY <1>2, <1>5, <3>1
  <2>3. CASE ~NeedsLargerPassages(a)
    BY <2>1, <2>3 DEF Overlap
  <2> QED BY <2>2, <2>3
<1> QED BY <1>5, <1>6 DEF GrowsWith, PassageSizeFor
=============================================================================
