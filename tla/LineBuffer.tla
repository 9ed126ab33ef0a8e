----------------------------- MODULE LineBuffer -----------------------------
(***************************************************************************)
(* The passage chunker, app/rag/ingestion/chunker.py: a file arrives in    *)
(* pieces and leaves as passages that end at line breaks.                  *)
(*                                                                         *)
(* The buffer holds the bytes of the file from `offset` up to the last one *)
(* received, so it is an interval.  One step is one round of the loop in   *)
(* _drain.  append_chunk builds a new LineBuffer for each piece, from the  *)
(* stored tail; that gives the same interval back, after a crash as well.  *)
(*                                                                         *)
(* Of a byte the code asks only whether it is a line break and whether it  *)
(* continues a UTF-8 character.                                            *)
(***************************************************************************)
EXTENDS PassageSizing, Sequences, FiniteSetsExt

CONSTANTS
  Texts,       \* the files that may be uploaded
  TotalSizes,  \* the sizes that may be declared for them, true or not
  ChunkSizes   \* bound: how many bytes may arrive at once

ByteClass == {"newline", "start", "continuation"}

ASSUME TextsAssumption == \A t \in Texts : t \in Seq(ByteClass)
ASSUME TotalAssumption == TotalSizes \subseteq Nat
ASSUME ChunkAssumption == ChunkSizes \subseteq Nat

VARIABLES
  text,      \* the file
  total_size, \* column of `files`: the size declared for it
  fed,       \* start_offset plus the bytes fed
  offset,    \* absolute_offset
  phase,     \* where the upload is: "waiting" for bytes, in _drain, or "done"
  latest,    \* the last passage emitted, <<start, end>>
  previous,  \* the one before
  chunks_total \* column of `files`: the passages emitted so far

vars == <<text, total_size, fed, offset, phase, latest, previous, chunks_total>>

Init ==
  /\ text \in Texts
  /\ total_size \in TotalSizes
  /\ fed = 0
  /\ offset = 0
  /\ phase = "waiting"
  /\ latest = <<0, 0>>
  /\ previous = <<0, 0>>
  /\ chunks_total = 0

----------------------------------------------------------------------------
(* Where to cut: positions are offsets into the buffer *)

None == 0

\* append_chunk gives the buffer the sizes for the declared size of the file,
\* complete_upload gives it none.
FeedSizes == PassageSizeFor(total_size)
FlushSizes == DefaultSizes
Sizes == IF phase = "flushing" THEN FlushSizes ELSE FeedSizes
BufferSize == fed - offset
Byte(i) == text[offset + i + 1]
Newlines(from, to) == {i \in from..(to - 1) : Byte(i) = "newline"}

\* A position at which no character is cut in two, or that may not be checked.
IsBoundary(i) == i <= 0 \/ i >= BufferSize \/ Byte(i) # "continuation"

\* The last of the four positions up to the limit that is a boundary.
SafeSplitPoint(limit) ==
  LET top == Smaller(limit, BufferSize)
      boundaries == {i \in (top - 3)..top : IsBoundary(i)}
  IN IF boundaries = {} THEN top ELSE Max(boundaries)

\* The first line break at or after the target, else the last one before it if
\* half the target is in front of it.
Window == Smaller(BufferSize, Sizes.max)
AfterTarget == Newlines(Sizes.target - 1, Window)
LastNewline == Newlines(0, Window)

AtNewline ==
  IF AfterTarget # {} THEN Min(AfterTarget) + 1
  ELSE IF LastNewline # {} /\ Max(LastNewline) + 1 >= Sizes.target \div 2
       THEN Max(LastNewline) + 1
       ELSE None

FindCutOnLines ==
  IF BufferSize >= Sizes.target /\ AtNewline # None THEN AtNewline
  ELSE IF phase = "flushing" THEN BufferSize ELSE None

FindCutAlways ==
  IF BufferSize >= Sizes.target /\ AtNewline # None THEN AtNewline
  ELSE IF BufferSize >= Sizes.max THEN SafeSplitPoint(Sizes.max)
  ELSE BufferSize

FindCutPastBuffer ==
  IF BufferSize >= Sizes.target
  THEN IF AtNewline # None THEN AtNewline ELSE Sizes.max
  ELSE IF phase = "flushing" THEN BufferSize ELSE None

\* _find_cut.  An empty buffer is not cut: at the flush its size is None.
FindCut ==
  IF BufferSize >= Sizes.target /\ AtNewline # None THEN AtNewline
  ELSE IF BufferSize >= Sizes.max THEN SafeSplitPoint(Sizes.max)
  ELSE IF phase = "flushing" THEN BufferSize ELSE None

OverlapUnaligned(cut) == Smaller(Sizes.overlap, cut \div 2)
OverlapWhole(cut) == cut

\* _overlap_size: at most half the passage, from the start of a character on.
OverlapSize(cut) ==
  LET overlap == Smaller(Sizes.overlap, cut \div 2)
      boundaries == {i \in (cut - overlap)..(cut - overlap + 3) : IsBoundary(i)}
  IN IF overlap <= 0 THEN 0
     ELSE IF boundaries = {} THEN overlap ELSE cut - Min(boundaries)

----------------------------------------------------------------------------
(* The upload feeds the buffer and flushes it at the end *)

Feed(n) ==
  /\ phase = "waiting"
  /\ fed + n <= Len(text)
  /\ fed' = fed + n
  /\ phase' = "feeding"
  /\ UNCHANGED <<text, total_size, offset, latest, previous, chunks_total>>

Flush ==
  /\ phase = "waiting"
  /\ fed = Len(text)
  /\ phase' = "flushing"
  /\ UNCHANGED <<text, total_size, fed, offset, latest, previous, chunks_total>>

CoveredNever(end, overlap) == FALSE

\* All that the flush has left is the overlap of the passage just emitted.
Covered(end, overlap) == phase = "flushing" /\ fed - (end - overlap) <= overlap

Emit ==
  /\ phase \in {"feeding", "flushing"}
  /\ \E cut \in {FindCut} \ {None} :
       \E overlap \in {OverlapSize(cut)} :
         LET end == offset + cut
         IN /\ latest' = <<offset, end>>
            /\ previous' = latest
            /\ chunks_total' = chunks_total + 1
            /\ offset' = IF Covered(end, overlap) THEN end ELSE end - overlap
            /\ phase' = IF Covered(end, overlap) THEN "done" ELSE phase
  /\ UNCHANGED <<text, total_size, fed>>

EndDrain ==
  /\ phase \in {"feeding", "flushing"}
  /\ FindCut = None
  /\ phase' = IF phase = "flushing" THEN "done" ELSE "waiting"
  /\ UNCHANGED <<text, total_size, fed, offset, latest, previous, chunks_total>>

Drain == Emit \/ EndDrain

Next ==
  \/ \E n \in ChunkSizes : Feed(n)
  \/ Flush
  \/ Drain

Spec == Init /\ [][Next]_vars
----------------------------------------------------------------------------
(* Properties *)

\* Every variable holds a value of its type.
TypeOK ==
  /\ text \in Seq(ByteClass)
  /\ total_size \in TotalSizes
  /\ fed \in 0..Len(text)
  /\ offset \in 0..fed
  /\ phase \in {"waiting", "feeding", "flushing", "done"}
  /\ latest \in (0..fed) \X (0..fed)
  /\ previous \in (0..fed) \X (0..fed)
  /\ chunks_total \in Nat

\* "Overlapping but never gapping" (assert_covers in tests/test_chunker.py):
\* each passage starts after the one before it and not after its end, the
\* bytes held back follow on, and the last passage ends the file.
PassagesTile ==
  /\ previous[1] <= latest[1] /\ latest[1] <= previous[2]
  /\ latest # <<0, 0>> => latest[1] < latest[2]
  /\ previous # <<0, 0>> => previous[1] < latest[1]
  /\ latest[1] <= offset /\ offset <= latest[2]
  /\ phase = "done" => latest[2] = Len(text) /\ offset = fed

\* "A single line longer than max_bytes can't be buffered forever"
\* (tests/test_chunker.py): between two chunks less than max_bytes is held
\* back, and that is what goes into the pending_tail column.
TailIsBounded == phase = "waiting" => BufferSize < FeedSizes.max

\* No passage is longer than max_bytes, whatever the lines are like.
PassagesAreBounded ==
  latest[2] - latest[1] <=
    (IF FeedSizes.max < FlushSizes.max THEN FlushSizes.max ELSE FeedSizes.max)

\* Neither what is held back nor what is emitted exceeds max_bytes, with either
\* of the two sets of sizes that the upload path uses on one file.
NothingGrowsLong == TailIsBounded /\ PassagesAreBounded

\* What a text in UTF-8 never has: a continuation that nothing precedes, one
\* after a line break, four of them in a row.
WellFormed(t) ==
  /\ Len(t) > 0 => t[1] # "continuation"
  /\ \A i \in 1..(Len(t) - 1) : t[i] = "newline" => t[i + 1] # "continuation"
  /\ \A i \in 1..(Len(t) - 3) : \E k \in 0..3 : t[i + k] # "continuation"

\* "And must not cut UTF-8 characters in half" (tests/test_chunker.py): text
\* that does not end a passage starts the next one whole, and a passage of a
\* well-formed file ends inside a character only where _safe_split_point does not
\* look, at the end of a buffer that the chunk has filled to max_bytes exactly.
InsideCharacter(i) == i < Len(text) /\ text[i + 1] = "continuation"
CharactersStayWhole ==
  [][latest' # latest =>
       /\ ~InsideCharacter(latest'[1])
       /\ InsideCharacter(latest'[2]) => BufferSize = Sizes.max /\ latest'[2] = fed]_vars

\* "Every passage must have a distinct end -- repeated tails share one."
\* (tests/test_chunker.py): each passage brings bytes that the ones before it
\* had not.  The check of _drain for a remainder that is all overlap does not see
\* to that: it looks at the round before, and the flush has none when a feed cut
\* at the last byte.
EndsAreDistinct == [][latest' # latest => latest[2] < latest'[2]]_vars

\* What holds of it.  A feed never repeats an end.  A flush repeats only what the
\* last feed kept as its overlap; with the sizes of the feed it does that when
\* the feed ended with the file, and then once.  And it stops when it has
\* reached the end of the file.
OnlyTheFlushRepeats ==
  [][latest' # latest =>
       /\ latest'[2] <= latest[2] =>
            /\ phase = "flushing"
            /\ latest'[2] - latest'[1] <= FeedSizes.overlap
            /\ FeedSizes = FlushSizes => latest[2] = fed /\ phase' = "done"
       /\ phase = "flushing" /\ latest'[2] = fed => phase' = "done"]_vars

\* A passage is cut at half the target at the earliest and leaves a fifth of it
\* behind at most, so the passages of a file are at most one to every three
\* tenths of the target.  The last one may be shorter, and a flush has the
\* default target.
CutsAddUp ==
  /\ phase \in {"waiting", "feeding"} =>
       (3 * FeedSizes.target - 5) * chunks_total <= 10 * offset
  /\ (3 * FlushSizes.target - 5) *
       (IF phase = "done" THEN chunks_total - 1 ELSE chunks_total) <= 10 * offset

\* "The target scales with the declared file size to keep each file's index
\* inside INDEX_MEMORY_BUDGET_BYTES" (passage_size_for).  A chunk that ends before
\* the target may be cut early, at every end of a chunk, so what the code keeps
\* is ten thirds of the budget: for the vectors of a file that has come no further
\* than its declared size, and of which the target is below the ceiling.
IndexIsTenThirdsAtMost ==
  /\ CutsAddUp
  /\ (/\ phase \in {"waiting", "feeding"}
      /\ fed <= total_size
      /\ FeedSizes.target < PASSAGE_MAX_TARGET_BYTES)
       => 3 * chunks_total * EMBEDDING_DIM <= 10 * INDEX_MEMORY_BUDGET_BYTES

\* What the rest of the system needs to know of the buffer.  Each cut of
\* PassageStream moves on within the bytes received, so _drain returns.
Stream == INSTANCE PassageStream WITH finished <- phase = "done"
ImplementsStream == Stream!Spec
----------------------------------------------------------------------------
(* The inductive invariant *)

\* The flush comes after the last byte, a passage moves the start of the buffer
\* on, and no more than an overlap of it is kept.
BufferMovesOn ==
  /\ phase \in {"flushing", "done"} => fed = Len(text)
  /\ latest # <<0, 0>> => latest[1] < offset
  /\ latest[2] - offset <= FeedSizes.overlap

IInv ==
  /\ TypeOK
  /\ PassagesTile
  /\ BufferMovesOn
  /\ TailIsBounded
  /\ PassagesAreBounded
  /\ CutsAddUp
=============================================================================
