----------------------------- MODULE TextCheck -----------------------------
(***************************************************************************)
(* looks_like_binary of app/services/upload/validators.py.                 *)
(*                                                                         *)
(* A byte is what UTF-8 makes of it: zero, another one-byte character, a   *)
(* continuation, the lead of a character of 2 to 4 bytes, or a byte that   *)
(* occurs in no text.  The narrower ranges that Python allows after the    *)
(* leads E0, ED, F0 and F4 are left out.                                   *)
(***************************************************************************)
EXTENDS Integers, Sequences, FiniteSets

CONSTANTS
  SAMPLE_BYTES,   \* validators.SAMPLE_BYTES
  OneIn           \* 1 / validators.MAX_INVALID_UTF8_FRACTION

ASSUME SampleAssumption == SAMPLE_BYTES \in Nat \ {0} /\ OneIn \in Nat \ {0}

ByteClass == {"nul", "ascii", "cont", "lead2", "lead3", "lead4", "bad"}

CharLength ==
  [b \in ByteClass |->
     CASE b = "lead2" -> 2 [] b = "lead3" -> 3 [] b = "lead4" -> 4 [] OTHER -> 1]

\* The bytes from i on that a decoder accepts as one character, or as the
\* beginning of one.
Accepted(s, i) ==
  LET starts == {n \in 1..CharLength[s[i]] :
                   /\ i + n - 1 <= Len(s)
                   /\ \A k \in 1..(n - 1) : s[i + k] = "cont"}
  IN CHOOSE n \in starts : \A m \in starts : m <= n

IsCharacter(s, i) ==
  /\ s[i] \notin {"cont", "bad"}
  /\ Accepted(s, i) = CharLength[s[i]]

\* exc.end - exc.start, summed up: the decoder skips what it had accepted of a
\* character before it failed, and starts again behind it.
InvalidBytes(s) ==
  LET from[i \in 1..(Len(s) + 4)] ==
        IF i > Len(s) THEN 0
        ELSE from[i + Accepted(s, i)]
               + (IF IsCharacter(s, i) THEN 0 ELSE Accepted(s, i))
  IN from[1]

Probe(sample) ==
  SubSeq(sample, 1, IF Len(sample) < SAMPLE_BYTES THEN Len(sample) ELSE SAMPLE_BYTES)

AnyInvalidByte(sample) ==
  \/ \E i \in 1..Len(Probe(sample)) : sample[i] = "nul"
  \/ InvalidBytes(Probe(sample)) > 0

ByDecodingOnly(sample) ==
  InvalidBytes(Probe(sample)) * OneIn > Len(Probe(sample))

LooksLikeBinary(sample) ==
  /\ sample # <<>>
  /\ LET probe == Probe(sample)
     IN \/ \E i \in 1..Len(probe) : probe[i] = "nul"
        \/ InvalidBytes(probe) * OneIn > Len(probe)
----------------------------------------------------------------------------
(* What it is compared with *)

\* The bytes that belong to no complete character.
Stray(s) ==
  {p \in 1..Len(s) :
     ~\E i \in 1..p : IsCharacter(s, i) /\ i + CharLength[s[i]] > p}

\* A null byte, or more than one byte in OneIn that is in no character.
IsBinary(s) ==
  \/ \E i \in 1..Len(Probe(s)) : s[i] = "nul"
  \/ Cardinality(Stray(Probe(s))) * OneIn > Len(Probe(s))

IsText(s) == Stray(s) = {} /\ \A i \in 1..Len(s) : s[i] # "nul"
=============================================================================
