---------------------------- MODULE MCLineBuffer ----------------------------
(* Small instances of LineBuffer for TLC. *)
EXTENDS LineBuffer

\* Files of 64 bytes, with line breaks before and after half the target, the
\* target and the limit, and multi-byte characters around the limits and the
\* overlaps.
TextOf(newlines, continued) ==
  [i \in 1..64 |->
     IF i \in newlines THEN "newline"
     ELSE IF i \in continued /\ i - 1 \notin newlines THEN "continuation"
     ELSE "start"]
WellFormedTexts ==
  {TextOf(newlines, continued) :
     newlines \in SUBSET {7, 15, 45, 64},
     continued \in {{13, 14, 44, 46, 61, 62}, {17, 31, 44, 45, 46, 55}}}
\* Lines that end early in each buffer when the bytes come one by one: six
\* passages of 48 bytes, where the budget has room for four vectors.
EarlyLines == TextOf({7, 16, 20, 29, 33, 42, 46, 55, 59}, {})
FileTexts == WellFormedTexts \cup {EarlyLines}
Arrivals == {1, 15, 44}

ASSUME WellFormedAssumption == \A t \in FileTexts : WellFormed(t)
=============================================================================
