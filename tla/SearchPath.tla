----------------------------- MODULE SearchPath -----------------------------
(***************************************************************************)
(* A search (app/services/search_service.py and                            *)
(* app/rag/retrieval/retriever.py) beside the uploads, workers and         *)
(* deletions of UploadPipeline: "searching is allowed while the upload is  *)
(* still in progress".                                                     *)
(*                                                                         *)
(* It reads the row, asks Qdrant twice and then reads the text of each hit *)
(* from the disk, without a lock: anything may come between two of these.  *)
(* Which points are nearest is Qdrant's choice.                            *)
(***************************************************************************)
EXTENDS UploadPipeline

CONSTANTS
  Searcher,   \* threads serving /search
  TopK        \* the values a request gives for top_k

ASSUME TopAssumption == TopK \subseteq Nat \ {0}

VARIABLE search   \* search[s]: where the search that s serves is

search_vars == <<upload_vars, search>>

NoSearch == [step |-> "idle"]

SearchInit ==
  /\ UploadInit
  /\ search = [s \in Searcher |-> NoSearch]

Turn(s, step) == search' = [search EXCEPT ![s].step = step]

\* What can be promised to a search that begins: the passages already counted
\* as indexed, but for those that were skipped.
IndexedSequences(f) ==
  {chunks[c].sequence : c \in (Rows(chunks, f) \cap WithStatus(chunks, "indexed")) \ skipped}

\* get_owned, and the answer 409 while nothing is indexed.  A file that is not
\* there is answered 404.
StartSearch(s, f, k) ==
  /\ running
  /\ search[s].step = "idle"
  /\ f \in DOMAIN files
  /\ search' = [search EXCEPT ![s] =
       [step |-> IF files[f].chunks_indexed = 0 THEN "nothing indexed" ELSE "find",
        file |-> f, top_k |-> k, again |-> FALSE, hits |-> EmptyTable, texts |-> EmptyTable,
        promised |-> IndexedSequences(f), was_final |-> f \in DOMAIN final]]

\* collection_exists; without a collection there are no hits.
FindCollection(s) ==
  /\ search[s].step = "find"
  /\ Turn(s, IF search[s].file \in DOMAIN collections THEN "query" ELSE "answered")

NearestUnlimited(points, k) == {DOMAIN points}

\* query_points: the k nearest, or all if there are fewer.
Nearest(points, k) ==
  {S \in SUBSET DOMAIN points :
     /\ Cardinality(S) <= k
     /\ Cardinality(S) = k \/ S = DOMAIN points}

Query(s) ==
  /\ search[s].step = "query"
  /\ LET f == search[s].file
     IN IF f \in DOMAIN collections
        THEN \E S \in Nearest(collections[f], search[s].top_k) :
               search' = [search EXCEPT ![s].step = "read",
                            ![s].hits = [q \in S |-> collections[f][q]]]
        ELSE Turn(s, "raised")

\* embed_query, and the two calls of Qdrant, may raise for a living file too.
CallFails(s) ==
  /\ search[s].step \in {"find", "query"}
  /\ Turn(s, "failed")

UnreadHits(s) == DOMAIN search[s].hits \ DOMAIN search[s].texts
NextHit(s) == CHOOSE q \in UnreadHits(s) : \A other \in UnreadHits(s) : q <= other

\* read_range for the next hit, as the workers do it.
ReadHit(s) ==
  /\ search[s].step = "read"
  /\ Turn(s, IF UnreadHits(s) = {} THEN "answered" ELSE "look")

GotHit(s, text) ==
  search' = [search EXCEPT ![s] =
               [@ EXCEPT !.step = "read", !.again = FALSE,
                         !.texts = Put(search[s].texts, NextHit(s), text)]]

LookForFinalText(s) ==
  /\ search[s].step = "look"
  /\ Turn(s, AfterFinalLook(search[s].file))

LookForPartialText(s) ==
  /\ search[s].step = "look_partial"
  /\ IF FindsPartial(search[s].file) THEN Turn(s, "open_partial") ELSE GotHit(s, <<>>)

RaiseAtOnce(s) == Turn(s, "raised")

\* except FileNotFoundError: once more, then raise.
AfterMissing(s) ==
  IF search[s].again THEN Turn(s, "raised")
  ELSE search' = [search EXCEPT ![s].step = "look", ![s].again = TRUE]

OpenText(s) ==
  /\ search[s].step \in {"open_final", "open_partial"}
  /\ LET f == search[s].file
         directory == Directory(search[s].step)
     IN IF f \in DOMAIN directory
        THEN GotHit(s, RangeOf(directory[f], search[s].hits[NextHit(s)].passage))
        ELSE AfterMissing(s)

\* The answer is sent, or the error.
Answer(s) ==
  /\ search[s].step \in {"answered", "nothing indexed", "raised", "failed"}
  /\ search' = [search EXCEPT ![s] = NoSearch]

Search(s) ==
  \/ \E f \in FileId, k \in TopK : StartSearch(s, f, k)
  \/ FindCollection(s) \/ Query(s) \/ CallFails(s) \/ ReadHit(s)
  \/ LookForFinalText(s) \/ LookForPartialText(s) \/ OpenText(s)
  \/ Answer(s)

\* Everything else goes on meanwhile; a search dies with the process.
Elsewhere ==
  /\ UploadNext
  /\ search' = IF running' THEN search ELSE [s \in Searcher |-> NoSearch]

SearchNext ==
  \/ Elsewhere
  \/ \E s \in Searcher : Search(s) /\ UNCHANGED upload_vars

SearchSpec == SearchInit /\ [][SearchNext]_search_vars
----------------------------------------------------------------------------
(* Properties *)

Searching(s) == search[s].step # "idle"

\* Every variable, of the queue and the pipeline as well, holds a value of its
\* type; a worker's reads are of the batch it holds, and a search is of a file
\* that is or was there.
SearchTypeOK ==
  /\ TypeOK
  /\ UploadTypeOK
  /\ DOMAIN search = Searcher
  /\ \A s \in Searcher : Searching(s) =>
       /\ search[s].file \in used_ids
       /\ DOMAIN search[s].texts \subseteq DOMAIN search[s].hits
       /\ Cardinality(DOMAIN search[s].hits) <= search[s].top_k

\* "Resolves each hit's byte range back to real text" (search_service): the text
\* a search shows is the one whose vector it found, whole, whether it came from
\* the .partial or the .dat, and whatever was written, rolled back or renamed
\* since it was embedded.
HitsShowTheirText ==
  \A s \in Searcher : Searching(s) =>
    \A q \in DOMAIN search[s].texts :
      search[s].texts[q] \in {<<>>, search[s].hits[q].text}

\* "A genuinely empty read only happens if the file's gone" (search_service):
\* a hit is left out of the answer only when the file was deleted, or renamed
\* after the search began.
HitsLeftOutAreGone ==
  \A s \in Searcher : Searching(s) =>
    \A q \in DOMAIN search[s].texts :
      search[s].texts[q] = <<>> =>
        \/ Gone(search[s].file)
        \/ ~search[s].was_final /\ search[s].file \in DOMAIN final

\* "The second call's readable_path() will find it under its new name"
\* (read_range): one retry is enough, so no search of a living file fails for
\* want of its collection or of its bytes.  A call that fails by itself
\* (CallFails) is another matter.
OneRetryIsEnough ==
  \A s \in Searcher : search[s].step = "raised" => Gone(search[s].file)

\* "Whatever has been indexed so far is queryable": a search that found fewer
\* than top_k hits has missed nothing that was indexed when it began, and is
\* answered "nothing indexed" only if that is so.
IndexedIsFound ==
  \A s \in Searcher :
    /\ search[s].step \in {"answered", "nothing indexed"}
    /\ Cardinality(DOMAIN search[s].hits) < search[s].top_k
    => Gone(search[s].file) \/ search[s].promised \subseteq DOMAIN search[s].hits
=============================================================================
