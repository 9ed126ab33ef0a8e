-------------------------- MODULE MCChunkRequests --------------------------
(* Small instances of ChunkRequests for TLC. *)
EXTENDS ChunkRequests

CONSTANTS k1, k2

\* The first client's file: texts that a chunk may end inside a character of,
\* one that is too large, files that turn bad sooner or later.  The second
\* client's is one character.
Samples ==
  {<<"ascii", "lead2", "cont">>, <<"lead3", "cont", "cont">>,
   <<"ascii", "ascii", "ascii", "ascii">>,
   <<"nul", "ascii">>, <<"bad", "lead3", "cont">>}

Files == {[c \in Client |-> IF c = k1 THEN s ELSE <<"ascii">>] : s \in Samples}
=============================================================================
