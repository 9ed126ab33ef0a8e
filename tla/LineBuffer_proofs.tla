-------------------------- MODULE LineBuffer_proofs --------------------------
(***************************************************************************)
(* The chunker covers the file and cuts no character: for every text,      *)
(* every way it is split into chunks, every declared size and every        *)
(* configuration that SizingAssumption admits.  The facts the proof turns  *)
(* on are CutInBuffer (a cut is a position in the buffer, and far from its *)
(* start unless it takes the whole of it), OverlapInCut (less than the     *)
(* passage is carried back, and never a negative number), and for the      *)
(* characters that of four positions in a row one is a boundary.           *)
(***************************************************************************)
EXTENDS LineBuffer, PassageSizing_proofs, WellFoundedInduction, TLAPS

\* A nonempty set of natural numbers has a least element.
LEMMA LeastExists ==
  ASSUME NEW S \in SUBSET Nat, S # {}
  PROVE  \E m \in S : \A x \in S : m <= x
<1> DEFINE R == {p \in Nat \X Nat : p[1] < p[2]}
<1>1. IsWellFoundedOn(R, Nat)
  BY NatLessThanWellFounded DEF OpToRel
<1>2. \E m \in S : \A x \in S : ~(<<x, m>> \in R)
  <2> HIDE DEF R
  <2> QED BY <1>1, WFMin
<1>3. PICK m \in S : \A x \in S : ~(<<x, m>> \in R)
  BY <1>2
<1>4. ASSUME NEW x \in S PROVE m <= x
  <2>1. x \in Nat /\ m \in Nat /\ ~(<<x, m>> \in R)
    BY <1>3
  <2>2. ~(x < m)
    BY <2>1
  <2> QED BY <2>1, <2>2
<1> QED BY <1>4

\* A bounded one has a greatest element.
LEMMA GreatestExists ==
  ASSUME NEW S \in SUBSET Nat, S # {}, NEW b \in Nat, \A x \in S : x <= b
  PROVE  \E m \in S : \A x \in S : x <= m
<1> DEFINE D == {b - x : x \in S}
<1>1. D \in SUBSET Nat /\ D # {}
  <2>1. ASSUME NEW x \in S PROVE b - x \in Nat
    OBVIOUS
  <2> QED BY <2>1
<1>2. PICK d \in D : \A x \in D : d <= x
  BY <1>1, LeastExists
<1>3. PICK m \in S : d = b - m
  OBVIOUS
<1>4. ASSUME NEW x \in S PROVE x <= m
  <2>1. b - m <= b - x
    BY <1>2, <1>3
  <2> QED BY <2>1
<1> QED BY <1>4

\* So Min and Max are elements of such a set.
LEMMA MinIsElement ==
  ASSUME NEW S \in SUBSET Nat, S # {}
  PROVE  Min(S) \in S /\ \A x \in S : Min(S) <= x
BY LeastExists DEF Min

\* The greatest one, if there is a bound.
LEMMA MaxIsElement ==
  ASSUME NEW S \in SUBSET Nat, S # {}, NEW b \in Nat, \A x \in S : x <= b
  PROVE  Max(S) \in S
<1>1. \E m \in S : \A x \in S : m >= x
  BY GreatestExists
<1> QED BY <1>1 DEF Max

\* The sizes of feed and flush are usable.
LEMMA SizesInRange ==
  ASSUME total_size \in TotalSizes
  PROVE  InRange(FeedSizes) /\ InRange(FlushSizes)
BY SizesAreUsable, DefaultsAreUsable, TotalAssumption DEF FeedSizes, FlushSizes

\* They do not change.
LEMMA SizesStay ==
  ASSUME total_size' = total_size
  PROVE  FeedSizes' = FeedSizes /\ FlushSizes' = FlushSizes
BY DEF FeedSizes, FlushSizes

\* The overlap of a flush is the smaller one.
LEMMA FlushKeepsLess ==
  ASSUME total_size \in TotalSizes
  PROVE  FlushSizes.overlap <= FeedSizes.overlap
BY OverlapInRange, TotalAssumption
   DEF FeedSizes, FlushSizes, DefaultSizes, PassageSizeFor

\* The sizes in use, and the buffer, are numbers.
LEMMA SizesAndBuffer ==
  ASSUME TypeOK
  PROVE  /\ Sizes.target \in Nat /\ Sizes.target >= 15
         /\ Sizes.max \in Nat /\ Sizes.max >= Sizes.target
         /\ Sizes.overlap \in Nat /\ Sizes.overlap >= 3
         /\ 5 * Sizes.overlap <= Sizes.target
         /\ BufferSize \in Nat
         /\ fed \in Nat /\ offset \in Nat /\ Len(text) \in Nat
         /\ offset + BufferSize = fed /\ fed <= Len(text)
<1>1. InRange(Sizes)
  BY SizesInRange DEF Sizes, TypeOK
<1>2. Len(text) \in Nat
  BY DEF TypeOK
<1> QED BY <1>1, <1>2 DEF InRange, TypeOK, BufferSize

\* A cut at a line break is in the window and leaves half the target behind.
LEMMA NewlineInWindow ==
  ASSUME TypeOK
  PROVE  AtNewline = None \/ (AtNewline \in (Sizes.target \div 2)..Window)
<1>1. /\ Window \in Nat
      /\ Sizes.target \in Nat /\ Sizes.target >= 15
  BY SizesAndBuffer DEF Window, Smaller
<1>2. CASE AfterTarget # {}
  <2>1. AfterTarget \in SUBSET Nat
    BY <1>1 DEF AfterTarget, Newlines
  <2>2. Min(AfterTarget) \in AfterTarget
    BY <1>2, <2>1, MinIsElement
  <2>3. Min(AfterTarget) \in (Sizes.target - 1)..(Window - 1)
    BY <2>2 DEF AfterTarget, Newlines
  <2> QED BY <1>1, <1>2, <2>3 DEF AtNewline
<1>3. CASE /\ AfterTarget = {}
           /\ LastNewline # {} /\ Max(LastNewline) + 1 >= Sizes.target \div 2
  <2>1. LastNewline \in SUBSET Nat /\ \A x \in LastNewline : x <= Window
    BY <1>1 DEF LastNewline, Newlines
  <2>2. Max(LastNewline) \in LastNewline
    BY <1>1, <1>3, <2>1, MaxIsElement
  <2>3. Max(LastNewline) \in 0..(Window - 1)
    BY <2>2 DEF LastNewline, Newlines
  <2>4. Sizes.target \div 2 \in Nat
    BY <1>1
  <2>5. AtNewline = Max(LastNewline) + 1
    BY <1>3 DEF AtNewline
  <2> QED BY <1>1, <1>3, <2>3, <2>4, <2>5
<1>4. CASE /\ AfterTarget = {}
           /\ ~(LastNewline # {} /\ Max(LastNewline) + 1 >= Sizes.target \div 2)
  BY <1>4 DEF AtNewline
<1> QED BY <1>2, <1>3, <1>4

\* A long line is split at most three bytes before the limit.
LEMMA SplitNearLimit ==
  ASSUME TypeOK, BufferSize >= Sizes.max
  PROVE  SafeSplitPoint(Sizes.max) \in (Sizes.max - 3)..Sizes.max
<1>1. Smaller(Sizes.max, BufferSize) = Sizes.max
  BY SizesAndBuffer DEF Smaller
<1> DEFINE boundaries == {i \in (Sizes.max - 3)..Sizes.max : IsBoundary(i)}
<1>2. SafeSplitPoint(Sizes.max) =
        IF boundaries = {} THEN Sizes.max ELSE Max(boundaries)
  BY <1>1 DEF SafeSplitPoint
<1>3. boundaries \in SUBSET Nat /\ \A x \in boundaries : x <= Sizes.max
  BY SizesAndBuffer
<1>4. boundaries # {} => Max(boundaries) \in boundaries
  <2> HIDE DEF boundaries
  <2> QED BY <1>3, SizesAndBuffer, MaxIsElement
<1> QED BY <1>2, <1>4, SizesAndBuffer

\* A cut is a position in the buffer, within the limit, and leaves half the
\* target behind it unless it takes the whole buffer.  The flush cuts until
\* the buffer is empty, and a feed leaves less than the limit.
LEMMA CutInBuffer ==
  ASSUME TypeOK
  PROVE  /\ FindCut \in Nat
         /\ FindCut <= BufferSize
         /\ FindCut <= Sizes.max
         /\ \/ FindCut = None
            \/ FindCut = BufferSize /\ phase = "flushing"
            \/ FindCut >= Sizes.target \div 2
         /\ FindCut = None => /\ BufferSize < Sizes.max
                              /\ phase = "flushing" => BufferSize = 0
<1>1. CASE BufferSize >= Sizes.target /\ AtNewline # None
  <2>1. AtNewline \in (Sizes.target \div 2)..Window
    BY <1>1, NewlineInWindow
  <2>2. Window <= BufferSize /\ Window <= Sizes.max /\ Window \in Nat
    BY SizesAndBuffer DEF Window, Smaller
  <2>3. FindCut = AtNewline
    BY <1>1 DEF FindCut
  <2>4. Sizes.target \div 2 \in Nat /\ Sizes.target \div 2 >= 7
    BY SizesAndBuffer
  <2>5. FindCut \in Nat /\ FindCut <= BufferSize /\ FindCut <= Sizes.max
    BY <2>1, <2>2, <2>3, <2>4, SizesAndBuffer
  <2> QED BY <2>1, <2>3, <2>4, <2>5 DEF None
<1>2. CASE ~(BufferSize >= Sizes.target /\ AtNewline # None) /\ BufferSize >= Sizes.max
  <2>1. FindCut = SafeSplitPoint(Sizes.max)
    BY <1>2 DEF FindCut
  <2> QED BY <1>2, <2>1, SplitNearLimit, SizesAndBuffer DEF None
<1>3. CASE ~(BufferSize >= Sizes.target /\ AtNewline # None) /\ ~(BufferSize >= Sizes.max)
  <2>1. FindCut = IF phase = "flushing" THEN BufferSize ELSE None
    BY <1>3 DEF FindCut
  <2> QED BY <1>3, <2>1, SizesAndBuffer DEF None
<1> QED BY <1>1, <1>2, <1>3

\* The overlap carried back is part of the passage, not all of it.
LEMMA OverlapInCut ==
  ASSUME TypeOK, NEW cut \in Nat, cut >= 1, cut <= BufferSize,
         cut = BufferSize \/ cut >= 6
  PROVE  /\ OverlapSize(cut) \in Nat
         /\ 2 * OverlapSize(cut) <= cut
         /\ OverlapSize(cut) <= Sizes.overlap
<1> DEFINE overlap == Smaller(Sizes.overlap, cut \div 2)
           first == cut - overlap
           boundaries == {i \in first..(first + 3) : IsBoundary(i)}
<1>1. /\ overlap \in Nat /\ 2 * overlap <= cut
      /\ Sizes.overlap \in Nat /\ overlap <= Sizes.overlap
      /\ cut >= 6 => overlap >= 3
  BY SizesAndBuffer DEF Smaller
<1>2. first \in Nat /\ first <= cut
  BY <1>1
<1>3. boundaries \in SUBSET Nat
  BY <1>2
<1>4. OverlapSize(cut) =
        IF overlap <= 0 THEN 0
        ELSE IF boundaries = {} THEN overlap ELSE cut - Min(boundaries)
  BY DEF OverlapSize
<1>5. ASSUME boundaries # {}
      PROVE  Min(boundaries) \in Nat /\ first <= Min(boundaries) /\ Min(boundaries) <= cut
  <2>1. Min(boundaries) \in boundaries /\ \A x \in boundaries : Min(boundaries) <= x
    <3> HIDE DEF boundaries
    <3> QED BY <1>3, <1>5, MinIsElement
  <2>2. Min(boundaries) \in first..(first + 3)
    BY <2>1
  <2>3. CASE overlap >= 3
    BY <1>1, <1>2, <2>2, <2>3
  <2>4. CASE overlap < 3
    <3>1. cut = BufferSize
      BY <1>1, <2>4
    <3>2. cut \in first..(first + 3)
      BY <1>1, <2>4
    <3>3. IsBoundary(cut)
      BY <3>1, SizesAndBuffer DEF IsBoundary
    <3>4. cut \in boundaries
      BY <3>2, <3>3
    <3> QED BY <1>2, <2>1, <2>2, <3>4
  <2> QED BY <1>1, <2>3, <2>4
<1> HIDE DEF overlap, boundaries
<1>6. CASE overlap <= 0 \/ boundaries = {}
  BY <1>1, <1>4, <1>6
<1>7. CASE overlap > 0 /\ boundaries # {}
  <2>1. OverlapSize(cut) = cut - Min(boundaries)
    BY <1>1, <1>4, <1>7
  <2>2. first = cut - overlap
    OBVIOUS
  <2>3. OverlapSize(cut) \in Nat /\ OverlapSize(cut) <= overlap
    BY <1>1, <1>2, <1>5, <1>7, <2>1, <2>2
  <2> HIDE DEF first
  <2> QED BY <1>1, <2>3
<1> QED BY <1>1, <1>6, <1>7

----------------------------------------------------------------------------
(* Counting cuts *)

\* One more cut, and a stride that makes up for it.
LEMMA OneMoreCut ==
  ASSUME NEW a \in Nat, NEW n \in Nat, NEW p \in Nat, NEW q \in Nat,
         a * n <= 10 * p, 10 * (q - p) >= a
  PROVE  a * (n + 1) <= 10 * q
<1>1. a * (n + 1) = a * n + a /\ a * n \in Nat
  BY ProductIsNat
<1> QED BY <1>1

\* One cut less needs no more bytes.
LEMMA OneCutLess ==
  ASSUME NEW a \in Nat, NEW n \in Nat, NEW p \in Nat, NEW q \in Nat,
         a * n <= 10 * p, p <= q
  PROVE  a * (n - 1) <= 10 * q
<1>1. a * (n - 1) = a * n - a /\ a * n \in Nat
  BY ProductIsNat
<1> QED BY <1>1

\* What a number of cuts costs the two targets.
LEMMA TargetsInOrder ==
  ASSUME total_size \in TotalSizes
  PROVE  /\ FeedSizes.target \in Nat /\ FlushSizes.target \in Nat
         /\ 3 * FeedSizes.target - 5 \in Nat /\ 3 * FlushSizes.target - 5 \in Nat
         /\ 3 * FlushSizes.target - 5 <= 3 * FeedSizes.target - 5
<1>1. /\ FeedSizes.target \in Nat /\ FeedSizes.target >= 15
      /\ FlushSizes.target \in Nat /\ FlushSizes.target >= 15
  BY SizesInRange DEF InRange
<1>2. FlushSizes.target <= FeedSizes.target
  BY TargetInRange, TotalAssumption
     DEF FeedSizes, FlushSizes, DefaultSizes, PassageSizeFor
<1> QED BY <1>1, <1>2

\* The sum is kept where no passage is emitted.
LEMMA SumStays ==
  ASSUME TypeOK, CutsAddUp,
         total_size' = total_size, offset' = offset, chunks_total' = chunks_total,
         phase' \in {"waiting", "feeding"} => phase \in {"waiting", "feeding"},
         phase = "done" => phase' = "done"
  PROVE  CutsAddUp'
<1>1. /\ offset \in Nat /\ chunks_total \in Nat /\ 3 * FlushSizes.target - 5 \in Nat
      /\ FeedSizes' = FeedSizes /\ FlushSizes' = FlushSizes
  BY SizesAndBuffer, TargetsInOrder, SizesStay DEF TypeOK
<1>2. CASE phase' = phase
  BY <1>1, <1>2 DEF CutsAddUp
<1>3. CASE phase' # phase /\ phase' # "done"
  BY <1>1, <1>3 DEF CutsAddUp
<1>4. CASE phase # "done" /\ phase' = "done"
  <2>1. (3 * FlushSizes.target - 5) * chunks_total <= 10 * offset
    BY <1>4 DEF CutsAddUp
  <2>2. (3 * FlushSizes.target - 5) * (chunks_total - 1) <= 10 * offset
    BY <1>1, <2>1, OneCutLess
  <2> QED BY <1>1, <1>4, <2>2 DEF CutsAddUp
<1> QED BY <1>2, <1>3, <1>4

\* And where one is.
LEMMA SumGrows ==
  ASSUME TypeOK, CutsAddUp,
         phase \in {"feeding", "flushing"}, phase' \in {phase, "done"},
         phase' = "done" => phase = "flushing",
         total_size' = total_size, chunks_total' = chunks_total + 1,
         offset' \in Nat, offset < offset',
         phase' # "done" => 10 * (offset' - offset) >= 3 * Sizes.target - 5
  PROVE  CutsAddUp'
<1> DEFINE feed == 3 * FeedSizes.target - 5
           flush == 3 * FlushSizes.target - 5
<1>1. /\ offset \in Nat /\ chunks_total \in Nat /\ feed \in Nat /\ flush \in Nat
      /\ flush <= feed
      /\ FeedSizes' = FeedSizes /\ FlushSizes' = FlushSizes
  BY SizesAndBuffer, TargetsInOrder, SizesStay DEF TypeOK
<1>2. flush * chunks_total <= 10 * offset
  BY DEF CutsAddUp
<1>3. PICK p \in Nat, q \in Nat : p = offset /\ q = offset' /\ p < q
  BY <1>1
<1>4. feed \in Nat /\ flush \in Nat /\ flush <= feed
  BY <1>1
<1>5. CASE phase' = "done"
  <2>1. (chunks_total + 1) - 1 = chunks_total
    BY <1>1
  <2>2. flush * chunks_total <= 10 * offset'
    <3>1. flush * chunks_total \in Nat
      BY <1>1, ProductIsNat
    <3> HIDE DEF flush
    <3>2. flush * chunks_total <= 10 * p
      BY <1>2, <1>3
    <3>3. flush * chunks_total <= 10 * q
      BY <1>3, <3>1, <3>2
    <3> QED BY <1>3, <3>3
  <2> QED BY <1>1, <1>5, <2>1, <2>2 DEF CutsAddUp
<1>6. CASE phase' # "done"
  <2>1. 10 * (offset' - offset) >= flush
    <3>1. Sizes \in {FeedSizes, FlushSizes}
      BY DEF Sizes
    <3>2. 3 * Sizes.target - 5 \in {feed, flush}
      BY <3>1
    <3>3. 10 * (offset' - offset) >= 3 * Sizes.target - 5
      BY <1>6
    <3>4. 10 * (q - p) >= feed \/ 10 * (q - p) >= flush
      BY <1>3, <3>2, <3>3
    <3> HIDE DEF feed, flush
    <3>5. 10 * (q - p) >= flush
      <4>1. 10 * (q - p) \in Int
        OBVIOUS
      <4> QED BY <1>4, <3>4, <4>1
    <3> QED BY <1>3, <3>5
  <2>2. flush * (chunks_total + 1) <= 10 * offset'
    <3> HIDE DEF flush
    <3> QED BY <1>1, <1>2, <2>1, OneMoreCut
  <2>3. ASSUME phase' \in {"waiting", "feeding"}
        PROVE  feed * (chunks_total + 1) <= 10 * offset'
    <3>1. phase = "feeding" /\ Sizes = FeedSizes
      BY <1>6, <2>3 DEF Sizes
    <3>2. feed * chunks_total <= 10 * offset
      BY <3>1 DEF CutsAddUp
    <3>3. 10 * (offset' - offset) >= feed
      BY <1>6, <3>1
    <3> HIDE DEF feed
    <3> QED BY <1>1, <3>2, <3>3, OneMoreCut
  <2> QED BY <1>1, <1>6, <2>2, <2>3 DEF CutsAddUp
<1> QED BY <1>5, <1>6

----------------------------------------------------------------------------
(* The invariant *)

\* The buffer starts empty, before any passage.
LEMMA InitHolds == Init => IInv
<1> SUFFICES ASSUME Init PROVE IInv
  OBVIOUS
<1>1. text \in Seq(ByteClass)
  BY TextsAssumption DEF Init
<1>2. Len(text) \in Nat
  BY <1>1
<1>3. TypeOK
  BY <1>1, <1>2 DEF Init, TypeOK
<1>4. PassagesTile /\ BufferMovesOn
  BY <1>3, SizesInRange DEF Init, TypeOK, PassagesTile, BufferMovesOn, InRange
<1>5. TailIsBounded
  BY <1>3, SizesInRange DEF Init, TypeOK, TailIsBounded, BufferSize, InRange
<1>6. PassagesAreBounded
  BY <1>3, SizesInRange DEF Init, TypeOK, PassagesAreBounded, InRange
<1>7. CutsAddUp
  BY <1>3, TargetsInOrder DEF Init, TypeOK, CutsAddUp
<1> QED BY <1>3, <1>4, <1>5, <1>6, <1>7 DEF IInv

\* Bytes that arrive leave passages and the start of the buffer alone.
LEMMA FeedKeeps ==
  ASSUME IInv, NEW n \in Nat, Feed(n)
  PROVE  IInv'
<1>1. TypeOK /\ Len(text) \in Nat
  BY SizesAndBuffer DEF IInv
<1>2. TypeOK'
  BY <1>1 DEF Feed, TypeOK
<1>3. PassagesTile' /\ BufferMovesOn'
  BY SizesStay DEF IInv, Feed, PassagesTile, BufferMovesOn
<1>4. TailIsBounded' /\ PassagesAreBounded'
  BY SizesStay DEF IInv, Feed, TailIsBounded, PassagesAreBounded
<1>5. CutsAddUp'
  BY SumStays DEF IInv, Feed
<1> QED BY <1>2, <1>3, <1>4, <1>5 DEF IInv

\* The flush begins with the last byte fed.
LEMMA FlushKeeps == ASSUME IInv, Flush PROVE IInv'
<1>1. TypeOK'
  BY DEF IInv, Flush, TypeOK
<1>2. PassagesTile' /\ BufferMovesOn'
  BY SizesStay DEF IInv, Flush, PassagesTile, BufferMovesOn
<1>3. TailIsBounded' /\ PassagesAreBounded'
  BY SizesStay DEF IInv, Flush, TailIsBounded, PassagesAreBounded
<1>4. CutsAddUp'
  BY SumStays DEF IInv, Flush
<1> QED BY <1>1, <1>2, <1>3, <1>4 DEF IInv

\* What a round of the loop does to the positions: the passage begins where
\* the buffer did, and the buffer begins after that and within the passage.
\* A covered remainder is empty: then the passage ends the file.  Otherwise the
\* buffer moves on by half the target less an overlap.
LEMMA EmitPositions ==
  ASSUME IInv, Emit
  PROVE  \E end \in (offset + 1)..fed :
           /\ latest' = <<offset, end>>
           /\ previous' = latest
           /\ end - offset <= Sizes.max
           /\ offset' \in (offset + 1)..end
           /\ end - offset' <= Sizes.overlap
           /\ phase = "feeding" => 2 * (end - offset) >= Sizes.target - 1
           /\ phase' # "done" => 10 * (offset' - offset) >= 3 * Sizes.target - 5
           /\ phase = "flushing" /\ end = fed => phase' = "done"
           /\ fed' = fed /\ text' = text /\ total_size' = total_size
           /\ \/ phase' = phase
              \/ phase = "flushing" /\ phase' = "done" /\ end = fed /\ offset' = fed
<1>1. TypeOK
  BY DEF IInv
<1> DEFINE cut == FindCut
           end == offset + cut
           overlap == OverlapSize(cut)
<1>2. /\ fed \in Nat /\ offset \in Nat /\ BufferSize \in Nat
      /\ offset + BufferSize = fed /\ Sizes.max \in Nat
  BY <1>1, SizesAndBuffer
<1>3. cut \in Nat /\ cut >= 1 /\ cut <= BufferSize /\ cut <= Sizes.max
  BY <1>1, CutInBuffer DEF Emit, None
<1>4. cut = BufferSize \/ cut >= 6
  BY <1>1, <1>3, CutInBuffer, SizesAndBuffer DEF None
<1>5. overlap \in Nat /\ 2 * overlap <= cut /\ overlap <= Sizes.overlap
  BY <1>1, <1>3, <1>4, OverlapInCut
<1>11. (cut = BufferSize /\ phase = "flushing") \/ 2 * cut >= Sizes.target - 1
  BY <1>1, <1>3, CutInBuffer, SizesAndBuffer DEF None
<1>6. /\ latest' = <<offset, end>>
      /\ previous' = latest
      /\ offset' = IF Covered(end, overlap) THEN end ELSE end - overlap
      /\ phase' = IF Covered(end, overlap) THEN "done" ELSE phase
      /\ fed' = fed /\ text' = text /\ total_size' = total_size
  BY DEF Emit
<1>7. Covered(end, overlap) <=> phase = "flushing" /\ fed - (end - overlap) <= overlap
  BY DEF Covered
<1> HIDE DEF cut, overlap
<1>8. end \in (offset + 1)..fed /\ end - offset <= Sizes.max
  BY <1>2, <1>3
<1>9. offset' \in (offset + 1)..end
  BY <1>2, <1>3, <1>5, <1>6
<1>10. \/ phase' = phase
       \/ phase = "flushing" /\ phase' = "done" /\ end = fed /\ offset' = fed
  BY <1>2, <1>3, <1>5, <1>6, <1>7, <1>8
<1>12. /\ end - offset' <= Sizes.overlap
       /\ phase = "feeding" => 2 * (end - offset) >= Sizes.target - 1
       /\ phase' # "done" => 10 * (offset' - offset) >= 3 * Sizes.target - 5
       /\ phase = "flushing" /\ end = fed => phase' = "done"
  <2>1. /\ Sizes.overlap \in Nat /\ Sizes.target \in Nat
        /\ 5 * Sizes.overlap <= Sizes.target
    BY <1>1, SizesAndBuffer
  <2>2. end - offset' <= Sizes.overlap
    BY <1>2, <1>3, <1>5, <1>6, <1>7, <2>1
  <2>3. phase = "feeding" => 2 * (end - offset) >= Sizes.target - 1
    BY <1>2, <1>3, <1>11, <2>1
  <2>4. phase = "flushing" /\ end = fed => phase' = "done"
    BY <1>2, <1>3, <1>5, <1>6, <1>7
  <2>5. ASSUME phase' # "done"
        PROVE  10 * (offset' - offset) >= 3 * Sizes.target - 5
    <3>1. ~Covered(end, overlap)
      BY <1>6, <2>5
    <3>2. offset' = end - overlap /\ 2 * cut >= Sizes.target - 1
      BY <1>2, <1>3, <1>5, <1>6, <1>7, <1>11, <3>1
    <3>3. offset' - offset = cut - overlap
      BY <1>2, <1>3, <1>5, <3>2
    <3> HIDE DEF end
    <3> QED BY <1>3, <1>5, <2>1, <3>2, <3>3
  <2> QED BY <2>2, <2>3, <2>4, <2>5
<1> HIDE DEF end
<1> QED BY <1>6, <1>8, <1>9, <1>10, <1>12

\* So a passage keeps the invariant.
LEMMA EmitKeeps == ASSUME IInv, Emit PROVE IInv'
<1>1. PICK end \in (offset + 1)..fed :
           /\ latest' = <<offset, end>>
           /\ previous' = latest
           /\ end - offset <= Sizes.max
           /\ offset' \in (offset + 1)..end
           /\ end - offset' <= Sizes.overlap
           /\ phase = "feeding" => 2 * (end - offset) >= Sizes.target - 1
           /\ phase' # "done" => 10 * (offset' - offset) >= 3 * Sizes.target - 5
           /\ phase = "flushing" /\ end = fed => phase' = "done"
           /\ fed' = fed /\ text' = text /\ total_size' = total_size
           /\ \/ phase' = phase
              \/ phase = "flushing" /\ phase' = "done" /\ end = fed /\ offset' = fed
  BY EmitPositions
<1>2. TypeOK /\ PassagesTile /\ BufferMovesOn
  BY DEF IInv
<1>3. fed \in Nat /\ offset \in Nat /\ Len(text) \in Nat /\ fed <= Len(text)
  BY <1>2, SizesAndBuffer
<1>4. latest'[1] = offset /\ latest'[2] = end
  BY <1>1
<1>5. phase \in {"feeding", "flushing"} /\ phase' \in {"feeding", "flushing", "done"}
  BY <1>1 DEF Emit
<1>6. TypeOK'
  <2>1. offset \in 0..fed /\ end \in 0..fed /\ offset' \in 0..fed
    BY <1>1, <1>3
  <2>2. chunks_total' \in Nat
    BY <1>2 DEF Emit, TypeOK
  <2> QED BY <1>1, <1>2, <1>5, <2>1, <2>2 DEF TypeOK
<1>7. PassagesTile'
  <2>1. /\ latest[1] \in Nat /\ latest[2] \in Nat
        /\ latest[1] <= offset /\ offset <= latest[2]
        /\ latest # <<0, 0>> => latest[1] < offset
    BY <1>2, <1>3 DEF TypeOK, PassagesTile, BufferMovesOn
  <2>2. offset < end /\ offset < offset' /\ offset' <= end
    BY <1>1, <1>3
  <2>3. /\ previous'[1] <= latest'[1] /\ latest'[1] <= previous'[2]
        /\ latest'[1] < latest'[2]
        /\ previous' # <<0, 0>> => previous'[1] < latest'[1]
    BY <1>1, <1>4, <2>1, <2>2
  <2>4. latest'[1] <= offset' /\ offset' <= latest'[2]
    BY <1>1, <1>3, <1>4, <2>2
  <2>5. phase' = "done" => latest'[2] = Len(text)' /\ offset' = fed'
    BY <1>1, <1>2, <1>4, <1>5 DEF BufferMovesOn
  <2> QED BY <2>3, <2>4, <2>5 DEF PassagesTile
<1>8. BufferMovesOn'
  <2>1. phase' \in {"flushing", "done"} => fed' = Len(text)'
    BY <1>1, <1>2, <1>5 DEF BufferMovesOn
  <2>2. latest'[1] < offset'
    BY <1>1, <1>3, <1>4
  <2>3. latest'[2] - offset' <= FeedSizes'.overlap
    <3>0. /\ FlushSizes.overlap <= FeedSizes.overlap
          /\ FlushSizes.overlap \in Nat /\ FeedSizes.overlap \in Nat
      BY <1>2, FlushKeepsLess, SizesInRange DEF TypeOK, InRange
    <3>1. Sizes.overlap <= FeedSizes.overlap /\ Sizes.overlap \in Nat
      BY <3>0 DEF Sizes
    <3>2. FeedSizes.overlap \in Nat /\ FeedSizes' = FeedSizes
      BY <1>1, <1>2, SizesInRange, SizesStay DEF TypeOK, InRange
    <3> QED BY <1>1, <1>3, <1>4, <3>1, <3>2
  <2> QED BY <2>1, <2>2, <2>3 DEF BufferMovesOn
<1>9. TailIsBounded'
  BY <1>5 DEF TailIsBounded
<1>10. PassagesAreBounded'
  <2>1. Sizes.max \in {FeedSizes.max, FlushSizes.max}
    BY DEF Sizes
  <2>2. /\ Sizes.max \in Nat
        /\ FeedSizes.max \in Nat /\ FlushSizes.max \in Nat
    BY <1>2, SizesInRange, SizesAndBuffer DEF TypeOK, InRange
  <2>3. FeedSizes' = FeedSizes /\ FlushSizes' = FlushSizes
    BY <1>1, SizesStay
  <2> DEFINE longest == IF FeedSizes.max < FlushSizes.max
                        THEN FlushSizes.max ELSE FeedSizes.max
  <2>4. longest' = longest
    BY <2>3
  <2>5. longest \in Nat /\ Sizes.max <= longest
    BY <2>1, <2>2
  <2>6. latest'[2] - latest'[1] = end - offset /\ end - offset <= Sizes.max
    BY <1>1, <1>4
  <2>7. end - offset \in Int
    BY <1>3
  <2> HIDE DEF longest
  <2>8. latest'[2] - latest'[1] <= longest
    BY <2>2, <2>5, <2>6, <2>7
  <2>9. latest'[2] - latest'[1] <= longest'
    BY <2>4, <2>8
  <2> QED BY <2>9 DEF PassagesAreBounded, longest
<1>11. CutsAddUp'
  <2>1. chunks_total' = chunks_total + 1 /\ phase \in {"feeding", "flushing"}
    BY DEF Emit
  <2>2. phase' \in {phase, "done"} /\ (phase' = "done" => phase = "flushing")
    BY <1>1, <2>1
  <2>3. offset' \in Nat /\ offset < offset'
    BY <1>1, <1>3
  <2> QED BY <1>1, <2>1, <2>2, <2>3, SumGrows DEF IInv
<1> QED BY <1>6, <1>7, <1>8, <1>9, <1>10, <1>11 DEF IInv

\* The loop ends a feed with a short buffer, and the flush with an empty one.
LEMMA EndDrainKeeps == ASSUME IInv, EndDrain PROVE IInv'
<1>1. TypeOK /\ PassagesTile /\ BufferMovesOn
  BY DEF IInv
<1>2. BufferSize < Sizes.max /\ (phase = "flushing" => BufferSize = 0)
  BY <1>1, CutInBuffer DEF EndDrain
<1>3. TypeOK'
  BY <1>1 DEF EndDrain, TypeOK
<1>4. phase' = "done" => latest[2] = Len(text) /\ offset = fed
  <2> SUFFICES ASSUME phase = "flushing"
               PROVE  latest[2] = Len(text) /\ offset = fed
    BY DEF EndDrain
  <2>1. offset = fed /\ fed = Len(text) /\ fed \in Nat
    BY <1>1, <1>2, SizesAndBuffer DEF BufferMovesOn
  <2>2. offset <= latest[2] /\ latest[2] \in 0..fed
    BY <1>1 DEF PassagesTile, TypeOK
  <2> QED BY <2>1, <2>2
<1>5. PassagesTile'
  BY <1>1, <1>4 DEF EndDrain, PassagesTile
<1>6. BufferMovesOn'
  BY <1>1, SizesStay DEF EndDrain, BufferMovesOn
<1>7. TailIsBounded'
  <2> SUFFICES ASSUME phase' = "waiting" PROVE BufferSize' < FeedSizes'.max
    BY DEF TailIsBounded
  <2>1. phase # "flushing" /\ BufferSize' = BufferSize
    BY DEF EndDrain, BufferSize
  <2>2. FeedSizes' = FeedSizes
    BY SizesStay DEF EndDrain
  <2> QED BY <1>2, <2>1, <2>2 DEF Sizes
<1>8. PassagesAreBounded'
  BY SizesStay DEF IInv, EndDrain, PassagesAreBounded
<1>9. CutsAddUp'
  BY SumStays DEF IInv, EndDrain
<1> QED BY <1>3, <1>5, <1>6, <1>7, <1>8, <1>9 DEF IInv

\* Only the loop of _drain emits.
LEMMA StepThatEmits ==
  ASSUME [Next]_vars, latest' # latest
  PROVE  Emit
BY DEF Next, Drain, Feed, Flush, EndDrain, vars

\* Every step keeps the invariant.
LEMMA StepKeeps == IInv /\ [Next]_vars => IInv'
<1> SUFFICES ASSUME IInv, [Next]_vars PROVE IInv'
  OBVIOUS
<1>1. CASE \E n \in ChunkSizes : Feed(n)
  BY <1>1, FeedKeeps, ChunkAssumption
<1>2. CASE Flush
  BY <1>2, FlushKeeps
<1>3. CASE Emit
  BY <1>3, EmitKeeps
<1>4. CASE EndDrain
  BY <1>4, EndDrainKeeps
<1>5. CASE UNCHANGED vars
  BY <1>5, SizesStay DEF vars, IInv, TypeOK, PassagesTile, BufferMovesOn, TailIsBounded,
              BufferSize, PassagesAreBounded, CutsAddUp
<1> QED BY <1>1, <1>2, <1>3, <1>4, <1>5 DEF Next, Drain

\* For every text, every division into chunks and all sizes: the types hold,
\* the passages tile the file, the tail and the passages are bounded, and so is
\* the number of passages.
THEOREM InvariantHolds == Spec => []IInv
<1>1. Init => IInv
  BY InitHolds
<1>2. IInv /\ [Next]_vars => IInv'
  BY StepKeeps
<1> QED BY <1>1, <1>2, PTL DEF Spec

\* Every variable of the chunker holds a value of its type.
THEOREM TypeCorrect == Spec => []TypeOK
<1>1. IInv => TypeOK
  BY DEF IInv
<1> QED BY <1>1, InvariantHolds, PTL

\* The passages of feed and flush overlap, never gap, and reach the end.
THEOREM Tiling == Spec => []PassagesTile
<1>1. IInv => PassagesTile
  BY DEF IInv
<1> QED BY <1>1, InvariantHolds, PTL

\* Less than max_bytes is ever stored as the pending tail, and no passage is
\* longer.
THEOREM Bounded == Spec => []NothingGrowsLong
<1>1. IInv => NothingGrowsLong
  BY DEF IInv, NothingGrowsLong
<1> QED BY <1>1, InvariantHolds, PTL

\* No feed emits a passage that ends where an earlier one did or before; the
\* flush does so only within the overlap kept by the last feed, and with the
\* sizes of the feed only once, when that feed ended with the file.
THEOREM RepeatsAreOfTheFlush == Spec => OnlyTheFlushRepeats
<1>1. ASSUME IInv, [Next]_vars, latest' # latest
      PROVE  /\ latest'[2] <= latest[2] =>
                  /\ phase = "flushing"
                  /\ latest'[2] - latest'[1] <= FeedSizes.overlap
                  /\ FeedSizes = FlushSizes => latest[2] = fed /\ phase' = "done"
             /\ phase = "flushing" /\ latest'[2] = fed => phase' = "done"
  <2>1. Emit
    BY <1>1, StepThatEmits
  <2>2. PICK end \in (offset + 1)..fed :
           /\ latest' = <<offset, end>>
           /\ offset' \in (offset + 1)..end
           /\ phase = "feeding" => 2 * (end - offset) >= Sizes.target - 1
           /\ phase' # "done" => 10 * (offset' - offset) >= 3 * Sizes.target - 5
           /\ phase = "flushing" /\ end = fed => phase' = "done"
           /\ phase' = phase \/ end = fed
    BY <1>1, <2>1, EmitPositions
  <2>3. /\ fed \in Nat /\ offset \in Nat /\ latest[2] \in 0..fed
        /\ latest[2] - offset <= FeedSizes.overlap
    BY <1>1, SizesAndBuffer DEF IInv, TypeOK, BufferMovesOn
  <2>4. /\ FeedSizes.overlap \in Nat /\ FeedSizes.target \in Nat
        /\ 5 * FeedSizes.overlap <= FeedSizes.target /\ FeedSizes.target >= 15
    BY <1>1, SizesInRange DEF IInv, TypeOK, InRange
  <2>5. latest'[1] = offset /\ latest'[2] = end
    BY <2>2
  <2>6. phase = "feeding" => latest[2] < end
    BY <2>2, <2>3, <2>4 DEF Sizes
  <2>7. end <= latest[2] => end - offset <= FeedSizes.overlap
    BY <2>2, <2>3, <2>4
  <2>8. ASSUME end <= latest[2], phase = "flushing", FeedSizes = FlushSizes
        PROVE  latest[2] = fed /\ phase' = "done"
    <3>1. Sizes = FeedSizes
      BY <2>8 DEF Sizes
    <3>2. phase' = "done"
      <4> SUFFICES ASSUME phase' # "done" PROVE FALSE
        OBVIOUS
      <4>1. 10 * (offset' - offset) >= 3 * FeedSizes.target - 5
        BY <2>2, <3>1
      <4> QED BY <2>2, <2>3, <2>4, <2>8, <4>1
    <3>3. end = fed
      BY <2>2, <2>8, <3>2
    <3> QED BY <2>3, <2>8, <3>2, <3>3
  <2>9. phase \in {"feeding", "flushing"}
    BY <2>1 DEF Emit
  <2>10. CASE phase = "feeding"
    BY <2>2, <2>3, <2>5, <2>6, <2>10
  <2>11. CASE phase = "flushing"
    BY <2>2, <2>5, <2>7, <2>8, <2>11
  <2> QED BY <2>9, <2>10, <2>11
<1> QED BY <1>1, InvariantHolds, PTL DEF Spec, OnlyTheFlushRepeats

\* A sum of strides that the sizes hold within the budget: the factor lost is
\* that of half the target less a fifth of it against the whole less a fifth.
LEMMA TenThirds ==
  ASSUME NEW n \in Nat, NEW size \in Nat, NEW T \in Nat, NEW O \in Nat,
         NEW D \in Nat, NEW B \in Nat,
         T >= 15, O >= 3, 5 * O <= T,
         (3 * T - 5) * n <= 10 * size,
         size * D <= (T - O + 1) * B
  PROVE  3 * n * D <= 10 * B
<1>1. PICK K \in Nat : K = 3 * T - 5 /\ K > 0
  OBVIOUS
<1>2. PICK stride \in Nat : stride = T - O + 1 /\ 3 * stride <= K
  BY <1>1
<1>3. PICK vectors \in Nat : vectors = 3 * n * D
  BY ProductIsNat
<1>4. K * vectors = 3 * (D * (K * n))
  BY <1>1, <1>3
<1>5. D * (K * n) <= D * (10 * size)
  BY <1>1, ProductIsNat, ProductKeepsOrder
<1>6. D * (10 * size) = 10 * (size * D) /\ size * D \in Nat
  BY ProductIsNat
<1>7. size * D <= stride * B
  BY <1>2
<1>8. B * (3 * stride) <= B * K
  BY <1>1, <1>2, ProductKeepsOrder
<1>9. B * (3 * stride) = 3 * (stride * B) /\ stride * B \in Nat
  BY ProductIsNat
<1>10. B * K = K * B /\ K * B \in Nat /\ K * (10 * B) = 10 * (K * B)
  BY ProductIsNat
<1>11. D * (K * n) \in Nat
  BY <1>1, ProductIsNat
<1>12. K * vectors <= K * (10 * B)
  BY <1>4, <1>5, <1>6, <1>7, <1>8, <1>9, <1>10, <1>11
<1>13. vectors <= 10 * B
  <2> SUFFICES ASSUME 10 * B + 1 <= vectors PROVE FALSE
    BY <1>3
  <2>1. K * (10 * B + 1) <= K * vectors
    BY <1>3, ProductKeepsOrder
  <2>2. K * (10 * B + 1) = K * (10 * B) + K /\ K * (10 * B) \in Nat
    BY <1>1, ProductIsNat
  <2>3. K * vectors \in Nat
    BY <1>1, <1>3, ProductIsNat
  <2> QED BY <1>1, <1>12, <2>1, <2>2, <2>3
<1> QED BY <1>3, <1>13

\* Counting the passages: of a file that has come no further than its declared
\* size they take ten thirds of the budget at most, below the ceiling.
THEOREM IndexIsBounded == Spec => []IndexIsTenThirdsAtMost
<1>1. ASSUME IInv, phase \in {"waiting", "feeding"}, fed <= total_size,
             FeedSizes.target < PASSAGE_MAX_TARGET_BYTES
      PROVE  3 * chunks_total * EMBEDDING_DIM <= 10 * INDEX_MEMORY_BUDGET_BYTES
  <2>1. /\ TypeOK /\ total_size \in Nat /\ chunks_total \in Nat
        /\ EMBEDDING_DIM \in Nat /\ INDEX_MEMORY_BUDGET_BYTES \in Nat
    BY <1>1, TotalAssumption, SizingAssumption DEF IInv, TypeOK
  <2>2. /\ FeedSizes.target \in Nat /\ FeedSizes.target >= 15
        /\ FeedSizes.overlap \in Nat /\ FeedSizes.overlap >= 3
        /\ 5 * FeedSizes.overlap <= FeedSizes.target
    BY <2>1, SizesInRange DEF TypeOK, InRange
  <2>3. offset <= total_size /\ offset \in Nat
    BY <1>1, <2>1, SizesAndBuffer
  <2>4. (3 * FeedSizes.target - 5) * chunks_total <= 10 * total_size
    <3>1. (3 * FeedSizes.target - 5) * chunks_total <= 10 * offset
      BY <1>1 DEF IInv, CutsAddUp
    <3>2. PICK sum \in Nat : sum = (3 * FeedSizes.target - 5) * chunks_total
      <4>1. 3 * FeedSizes.target - 5 \in Nat
        BY <2>2
      <4> QED BY <2>1, <4>1, ProductIsNat
    <3> QED BY <2>1, <2>3, <3>1, <3>2
  <2>5. total_size * EMBEDDING_DIM <=
          (FeedSizes.target - FeedSizes.overlap + 1) * INDEX_MEMORY_BUDGET_BYTES
    <3>1. FeedSizes.target # PASSAGE_MAX_TARGET_BYTES
      BY <1>1, <2>2, SizingAssumption
    <3> QED BY <2>1, <3>1, IndexFits DEF FitsBudget, FeedSizes
  <2> QED BY <2>1, <2>2, <2>4, <2>5, TenThirds
<1>2. IInv => IndexIsTenThirdsAtMost
  BY <1>1 DEF IInv, IndexIsTenThirdsAtMost
<1> QED BY <1>2, InvariantHolds, PTL

----------------------------------------------------------------------------
(* The refinement *)

\* A step of the loop is a cut, the end of the stream or no step of it.
LEMMA StepIsStreamStep ==
  ASSUME IInv, [Next]_vars
  PROVE  [Stream!Next]_<<fed, offset, latest, phase = "done">>
<1> USE DEF Stream!Next, Stream!Receive, Stream!Cut, Stream!Finish
<1>1. TypeOK /\ fed \in Nat /\ offset \in Nat
  BY SizesAndBuffer DEF IInv
<1>2. CASE \E n \in ChunkSizes : Feed(n)
  <2>1. PICK n \in Nat : Feed(n)
    BY <1>2, ChunkAssumption
  <2>2. fed' \in Nat /\ fed' >= fed
    BY <1>1, <2>1 DEF Feed
  <2> QED BY <2>1, <2>2 DEF Feed
<1>3. CASE Flush
  BY <1>3 DEF Flush
<1>4. CASE Emit
  <2>1. PICK end \in (offset + 1)..fed :
           /\ latest' = <<offset, end>>
           /\ previous' = latest
           /\ end - offset <= Sizes.max
           /\ offset' \in (offset + 1)..end
           /\ end - offset' <= Sizes.overlap
           /\ phase = "feeding" => 2 * (end - offset) >= Sizes.target - 1
           /\ phase' # "done" => 10 * (offset' - offset) >= 3 * Sizes.target - 5
           /\ phase = "flushing" /\ end = fed => phase' = "done"
           /\ fed' = fed /\ text' = text /\ total_size' = total_size
           /\ \/ phase' = phase
              \/ phase = "flushing" /\ phase' = "done" /\ end = fed /\ offset' = fed
    BY <1>4, EmitPositions
  <2>2. phase # "done"
    BY <1>4 DEF Emit
  <2>3. (phase' = "done") \in BOOLEAN /\ (phase' = "done" => offset' = fed)
    BY <2>1, <2>2
  <2> QED BY <2>1, <2>2, <2>3
<1>5. CASE EndDrain
  <2>1. CASE phase = "flushing"
    <3>1. BufferSize = 0
      BY <1>1, <1>5, <2>1, CutInBuffer DEF EndDrain
    <3>2. offset = fed
      BY <1>1, <3>1, SizesAndBuffer
    <3> QED BY <1>5, <2>1, <3>2 DEF EndDrain
  <2>2. CASE phase # "flushing"
    BY <1>5, <2>2 DEF EndDrain
  <2> QED BY <2>1, <2>2
<1>6. CASE UNCHANGED vars
  BY <1>6 DEF vars
<1> QED BY <1>2, <1>3, <1>4, <1>5, <1>6 DEF Next, Drain

\* The chunker implements what the upload path assumes of it.
THEOREM BufferImplementsStream == Spec => ImplementsStream
<1>1. Init => Stream!Init
  BY DEF Init, Stream!Init
<1>2. IInv /\ [Next]_vars => [Stream!Next]_<<fed, offset, latest, phase = "done">>
  BY StepIsStreamStep
<1> QED BY <1>1, <1>2, InvariantHolds, PTL DEF Spec, ImplementsStream, Stream!Spec

----------------------------------------------------------------------------
(* Characters *)

\* Where the passages of a well-formed text may begin.
WholeInv == WellFormed(text) /\ ~InsideCharacter(offset)

\* A position that may be checked is inside a character exactly when the buffer
\* has a continuation there.
LEMMA InsideTheBuffer ==
  ASSUME TypeOK, NEW i \in Nat, i > 0
  PROVE  /\ i < BufferSize => /\ offset + i < Len(text)
                              /\ text[offset + i + 1] = Byte(i)
                              /\ InsideCharacter(offset + i) <=> ~IsBoundary(i)
         /\ i >= BufferSize => IsBoundary(i)
<1>1. offset \in Nat /\ BufferSize \in Nat /\ offset + BufferSize <= Len(text)
      /\ Len(text) \in Nat
  BY SizesAndBuffer
<1> QED BY <1>1 DEF InsideCharacter, IsBoundary, Byte

\* Of four positions in a row one is not inside a character.
LEMMA OneInFourIsWhole ==
  ASSUME TypeOK, WellFormed(text), NEW x \in Nat
  PROVE  \E k \in 0..3 : ~InsideCharacter(x + k)
<1>1. Len(text) \in Nat
  BY SizesAndBuffer
<1>2. CASE x + 3 >= Len(text)
  BY <1>1, <1>2 DEF InsideCharacter
<1>3. CASE x + 3 < Len(text)
  <2>1. x + 1 \in 1..(Len(text) - 3)
    BY <1>1, <1>3
  <2>2. PICK k \in 0..3 : text[(x + 1) + k] # "continuation"
    BY <2>1 DEF WellFormed
  <2>3. (x + 1) + k = (x + k) + 1
    OBVIOUS
  <2> QED BY <2>2, <2>3 DEF InsideCharacter
<1> QED BY <1>1, <1>2, <1>3

\* A cut at a line break is right behind it.
LEMMA NewlineBeforeCut ==
  ASSUME TypeOK, AtNewline # None
  PROVE  \E i \in 0..(Window - 1) : AtNewline = i + 1 /\ Byte(i) = "newline"
<1>1. /\ Window \in Nat
      /\ Sizes.target \in Nat /\ Sizes.target >= 15
  BY SizesAndBuffer DEF Window, Smaller
<1>2. CASE AfterTarget # {}
  <2>1. AfterTarget \in SUBSET Nat
    BY <1>1 DEF AfterTarget, Newlines
  <2>2. Min(AfterTarget) \in AfterTarget
    BY <1>2, <2>1, MinIsElement
  <2>3. Min(AfterTarget) \in 0..(Window - 1) /\ Byte(Min(AfterTarget)) = "newline"
    BY <1>1, <2>2 DEF AfterTarget, Newlines
  <2>4. AtNewline = Min(AfterTarget) + 1
    BY <1>2 DEF AtNewline
  <2> QED BY <2>3, <2>4
<1>3. CASE AfterTarget = {}
  <2>1. LastNewline # {} /\ AtNewline = Max(LastNewline) + 1
    BY <1>3 DEF AtNewline
  <2>2. LastNewline \in SUBSET Nat /\ \A x \in LastNewline : x <= Window
    BY <1>1 DEF LastNewline, Newlines
  <2>3. Max(LastNewline) \in LastNewline
    BY <1>1, <2>1, <2>2, MaxIsElement
  <2>4. Max(LastNewline) \in 0..(Window - 1) /\ Byte(Max(LastNewline)) = "newline"
    BY <2>3 DEF LastNewline, Newlines
  <2> QED BY <2>1, <2>4
<1> QED BY <1>2, <1>3

\* A long line is split between characters, or at the end of the buffer.
LEMMA SplitIsWhole ==
  ASSUME TypeOK, WellFormed(text), BufferSize >= Sizes.max,
         InsideCharacter(offset + SafeSplitPoint(Sizes.max))
  PROVE  BufferSize = Sizes.max /\ SafeSplitPoint(Sizes.max) = BufferSize
<1> DEFINE top == Sizes.max
           boundaries == {i \in (top - 3)..top : IsBoundary(i)}
<1>1. /\ top \in Nat /\ top >= 15 /\ offset \in Nat /\ BufferSize \in Nat
      /\ Len(text) \in Nat
  BY SizesAndBuffer
<1>2. Smaller(Sizes.max, BufferSize) = Sizes.max
  BY SizesAndBuffer DEF Smaller
<1>3. SafeSplitPoint(Sizes.max) = IF boundaries = {} THEN top ELSE Max(boundaries)
  BY <1>2 DEF SafeSplitPoint
<1>4. boundaries # {}
  <2>1. PICK k \in 0..3 : ~InsideCharacter((offset + (top - 3)) + k)
    <3>1. offset + (top - 3) \in Nat
      BY <1>1
    <3> QED BY <3>1, OneInFourIsWhole
  <2>2. PICK i \in Nat : i = (top - 3) + k
    BY <1>1
  <2>3. (offset + (top - 3)) + k = offset + i /\ i > 0 /\ i \in (top - 3)..top
    <3> HIDE DEF top
    <3>1. k \in Nat /\ k <= 3
      OBVIOUS
    <3>2. i > 0 /\ i \in (top - 3)..top
      BY <1>1, <2>2, <3>1
    <3>3. (offset + (top - 3)) + k = offset + i
      BY <1>1, <2>2, <3>1
    <3> QED BY <3>2, <3>3
  <2>4. IsBoundary(i)
    BY <1>1, <2>1, <2>3, InsideTheBuffer
  <2> QED BY <2>3, <2>4
<1>5. PICK p : p = SafeSplitPoint(Sizes.max) /\ p \in boundaries
  <2>1. boundaries \in SUBSET Nat /\ \A x \in boundaries : x <= top
    BY <1>1
  <2>2. Max(boundaries) \in boundaries
    <3> HIDE DEF boundaries, top
    <3> QED BY <1>1, <1>4, <2>1, MaxIsElement
  <2> QED BY <1>3, <1>4, <2>2
<1>6. p \in Nat /\ p > 0 /\ p <= top /\ IsBoundary(p) /\ InsideCharacter(offset + p)
  BY <1>1, <1>5
<1>7. p >= BufferSize
  BY <1>1, <1>6, InsideTheBuffer
<1> QED BY <1>1, <1>5, <1>6, <1>7

\* A cut is inside a character only at the end of a buffer that is just full.
LEMMA CutIsWhole ==
  ASSUME IInv, WellFormed(text), phase \in {"feeding", "flushing"}, FindCut # None,
         InsideCharacter(offset + FindCut)
  PROVE  BufferSize = Sizes.max /\ offset + FindCut = fed
<1>1. TypeOK /\ (phase = "flushing" => fed = Len(text))
  BY DEF IInv, BufferMovesOn
<1>2. /\ offset \in Nat /\ BufferSize \in Nat /\ offset + BufferSize = fed
      /\ fed <= Len(text) /\ Len(text) \in Nat
      /\ Sizes.max \in Nat /\ Sizes.target \in Nat
  BY <1>1, SizesAndBuffer
<1>3. CASE BufferSize >= Sizes.target /\ AtNewline # None
  <2>1. PICK i \in 0..(Window - 1) : AtNewline = i + 1 /\ Byte(i) = "newline"
    BY <1>1, <1>3, NewlineBeforeCut
  <2>2. FindCut = i + 1 /\ i \in Nat
    BY <1>3, <2>1 DEF FindCut
  <2>3. PICK j \in Nat : j = (offset + i) + 1
    BY <1>2, <2>2
  <2>4. offset + FindCut = j /\ j < Len(text) /\ text[j + 1] = "continuation"
    BY <1>2, <2>2, <2>3 DEF InsideCharacter
  <2>5. text[j] = "newline" /\ j \in 1..(Len(text) - 1)
    BY <1>2, <2>1, <2>2, <2>3, <2>4 DEF Byte
  <2> QED BY <1>1, <2>4, <2>5 DEF WellFormed
<1>4. CASE ~(BufferSize >= Sizes.target /\ AtNewline # None) /\ BufferSize >= Sizes.max
  <2>1. FindCut = SafeSplitPoint(Sizes.max)
    BY <1>4 DEF FindCut
  <2> QED BY <1>1, <1>2, <1>4, <2>1, SplitIsWhole
<1>5. CASE ~(BufferSize >= Sizes.target /\ AtNewline # None) /\ ~(BufferSize >= Sizes.max)
  <2>1. phase = "flushing" /\ FindCut = BufferSize
    BY <1>5 DEF FindCut
  <2> QED BY <1>1, <1>2, <2>1 DEF InsideCharacter
<1> QED BY <1>3, <1>4, <1>5

\* What is kept of a passage begins with a character, unless it is nothing.
LEMMA OverlapIsWhole ==
  ASSUME TypeOK, WellFormed(text), NEW cut \in Nat, cut >= 6, cut <= BufferSize
  PROVE  ~InsideCharacter(offset + (cut - OverlapSize(cut)))
<1> DEFINE overlap == Smaller(Sizes.overlap, cut \div 2)
           first == cut - overlap
           boundaries == {i \in first..(first + 3) : IsBoundary(i)}
<1>1. /\ overlap \in Nat /\ 2 * overlap <= cut /\ overlap >= 3
      /\ offset \in Nat /\ BufferSize \in Nat /\ Len(text) \in Nat
  BY SizesAndBuffer DEF Smaller
<1>2. first \in Nat /\ first > 0 /\ first + 3 <= cut
  BY <1>1
<1>3. boundaries \in SUBSET Nat
  BY <1>2
<1>4. PICK k \in 0..3 : ~InsideCharacter((offset + first) + k)
  BY <1>1, <1>2, OneInFourIsWhole
<1>5. PICK i \in Nat : i = first + k
  BY <1>2
<1>6. (offset + first) + k = offset + i /\ i > 0 /\ i \in first..(first + 3)
  <2> HIDE DEF first
  <2> QED BY <1>1, <1>2, <1>5
<1>7. i \in boundaries
  BY <1>1, <1>4, <1>6, InsideTheBuffer
<1>8. PICK p : p = Min(boundaries) /\ p \in boundaries /\ \A x \in boundaries : p <= x
  <2> HIDE DEF boundaries
  <2> QED BY <1>3, <1>7, MinIsElement
<1>9. OverlapSize(cut) = cut - p
  <2>1. OverlapSize(cut) = IF overlap <= 0 THEN 0
        ELSE IF boundaries = {} THEN overlap ELSE cut - Min(boundaries)
    BY DEF OverlapSize
  <2> HIDE DEF boundaries
  <2> QED BY <1>1, <1>7, <1>8, <2>1
<1>10. p \in Nat /\ p > 0 /\ p <= i /\ IsBoundary(p) /\ i <= cut
  BY <1>2, <1>6, <1>7, <1>8
<1>11. cut - OverlapSize(cut) = p
  BY <1>9, <1>10
<1>12. CASE p < BufferSize
  BY <1>10, <1>11, <1>12, InsideTheBuffer
<1>13. CASE p >= BufferSize
  <2>1. p = i
    BY <1>1, <1>10, <1>13
  <2> QED BY <1>4, <1>6, <1>11, <2>1
<1> QED BY <1>1, <1>10, <1>12, <1>13

\* So the next passage begins with a character.
LEMMA StartIsWhole ==
  ASSUME IInv, WellFormed(text), Emit
  PROVE  (~InsideCharacter(offset))'
<1> DEFINE cut == FindCut
           overlap == OverlapSize(cut)
           end == offset + cut
<1>1. TypeOK /\ (phase = "flushing" => fed = Len(text))
  BY DEF IInv, BufferMovesOn
<1>2. /\ offset \in Nat /\ BufferSize \in Nat /\ offset + BufferSize = fed
      /\ Len(text) \in Nat
  BY <1>1, SizesAndBuffer
<1>3. cut \in Nat /\ cut >= 1 /\ cut <= BufferSize
  BY <1>1, CutInBuffer DEF Emit, None
<1>4. (cut = BufferSize /\ phase = "flushing") \/ cut >= 6
  BY <1>1, <1>3, CutInBuffer, SizesAndBuffer DEF None
<1>5. /\ offset' = IF Covered(end, overlap) THEN end ELSE end - overlap
      /\ text' = text
  BY DEF Emit
<1>6. Covered(end, overlap) <=> phase = "flushing" /\ fed - (end - overlap) <= overlap
  BY DEF Covered
<1>7. overlap \in Nat /\ 2 * overlap <= cut
  BY <1>1, <1>3, <1>4, OverlapInCut
<1>8. CASE Covered(end, overlap)
  <2>1. offset' = fed /\ fed = Len(text)
    <3> HIDE DEF cut, overlap
    <3> QED BY <1>1, <1>2, <1>3, <1>5, <1>6, <1>7, <1>8
  <2> QED BY <1>2, <1>5, <2>1 DEF InsideCharacter
<1>9. CASE ~Covered(end, overlap)
  <2>1. cut >= 6
    <3> HIDE DEF cut, overlap
    <3> QED BY <1>2, <1>3, <1>4, <1>6, <1>7, <1>9
  <2>2. ~InsideCharacter(offset + (cut - overlap))
    BY <1>1, <1>3, <2>1, OverlapIsWhole
  <2>3. offset' = offset + (cut - overlap)
    <3> HIDE DEF cut, overlap
    <3> QED BY <1>2, <1>3, <1>5, <1>7, <1>9
  <2> QED BY <1>5, <2>2, <2>3 DEF InsideCharacter
<1> QED BY <1>8, <1>9

\* Of files that are text, however they are cut into chunks, no passage begins
\* inside a character, and none ends inside one but where _safe_split_point does
\* not look.
THEOREM NoCharacterIsCut ==
  ASSUME \A t \in Texts : WellFormed(t)
  PROVE  Spec => CharactersStayWhole
<1>1. Init => WholeInv
  BY DEF Init, WholeInv, WellFormed, InsideCharacter
<1>2. IInv /\ WholeInv /\ [Next]_vars => WholeInv'
  <2> SUFFICES ASSUME IInv, WholeInv, [Next]_vars PROVE WholeInv'
    OBVIOUS
  <2>1. text' = text
    BY DEF Next, Feed, Flush, Drain, Emit, EndDrain, vars
  <2>2. CASE offset' = offset
    BY <2>1, <2>2 DEF WholeInv, InsideCharacter, WellFormed
  <2>3. CASE offset' # offset
    <3>1. Emit
      BY <2>3 DEF Next, Feed, Flush, Drain, EndDrain, vars
    <3> QED BY <2>1, <3>1, StartIsWhole DEF WholeInv, InsideCharacter, WellFormed
  <2> QED BY <2>2, <2>3
<1>3. ASSUME IInv, WholeInv, [Next]_vars, latest' # latest
      PROVE  /\ ~InsideCharacter(latest'[1])
             /\ InsideCharacter(latest'[2]) => BufferSize = Sizes.max /\ latest'[2] = fed
  <2>1. Emit
    BY <1>3, StepThatEmits
  <2>2. /\ phase \in {"feeding", "flushing"} /\ FindCut # None
        /\ latest' = <<offset, offset + FindCut>>
    BY <2>1 DEF Emit
  <2>3. ~InsideCharacter(latest'[1])
    BY <1>3, <2>2 DEF WholeInv
  <2>4. InsideCharacter(offset + FindCut) => BufferSize = Sizes.max /\ offset + FindCut = fed
    BY <1>3, <2>2, CutIsWhole DEF WholeInv
  <2> QED BY <2>2, <2>3, <2>4
<1>4. Spec => []WholeInv
  BY <1>1, <1>2, InvariantHolds, PTL DEF Spec
<1> QED BY <1>3, <1>4, InvariantHolds, PTL DEF Spec, CharactersStayWhole
=============================================================================
