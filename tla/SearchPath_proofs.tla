-------------------------- MODULE SearchPath_proofs --------------------------
(***************************************************************************)
(* A search changes nothing of the upload path.  However uploads, renames  *)
(* and deletions fall between its looks at Qdrant and at the disk, it      *)
(* never wants for the collection or the bytes of a file that is there     *)
(* (one retry is enough), misses nothing that was indexed, shows of each   *)
(* hit the text it was found by, and leaves one out only if its file was   *)
(* deleted or renamed meanwhile.                                           *)
(***************************************************************************)
EXTENDS SearchPath, UploadPipeline_proofs

\* A step of a search is no step of the upload path.
LEMMA SearchStepRefines == [SearchNext]_search_vars => [UploadNext]_upload_vars
BY DEF SearchNext, Elsewhere, search_vars

\* The upload path with searches is the upload path.
LEMMA SearchImplementsUpload == SearchSpec => UploadSpec
<1>1. SearchInit => UploadInit
  BY DEF SearchInit
<1> QED BY <1>1, SearchStepRefines, PTL DEF SearchSpec, UploadSpec

\* So whatever is proved of the upload path holds beside searches.
THEOREM SearchLosesNothing == SearchSpec => []NothingIsLost
BY SearchImplementsUpload, PipelineLosesNothing, PTL

----------------------------------------------------------------------------
(* What stays on the disk and in Qdrant *)

\* As long as a file is not deleted, its .dat stays, one of its two names is
\* there, and its collection stays.
LEMMA LivingFilesStay ==
  ASSUME IInv, OffsetsAndRequests, FilesInv, [UploadNext]_upload_vars,
         NEW f \in used_ids, ~Gone(f)'
  PROVE  /\ f \in DOMAIN final => f \in DOMAIN final'
         /\ f \in DOMAIN partial \cup DOMAIN final =>
              f \in DOMAIN partial' \cup DOMAIN final'
         /\ f \in DOMAIN collections => f \in DOMAIN collections'
<1>1. ~Gone(f)
  BY StepRefines, FilesAfterAStep
<1>2. ASSUME /\ DOMAIN partial \subseteq DOMAIN partial'
             /\ DOMAIN final \subseteq DOMAIN final'
             /\ DOMAIN collections \subseteq DOMAIN collections'
      PROVE  /\ f \in DOMAIN final => f \in DOMAIN final'
             /\ f \in DOMAIN partial \cup DOMAIN final =>
                  f \in DOMAIN partial' \cup DOMAIN final'
             /\ f \in DOMAIN collections => f \in DOMAIN collections'
  BY <1>2
<1>3. ASSUME NEW table, NEW k, NEW v
      PROVE  DOMAIN table \subseteq DOMAIN Put(table, k, v)
  BY DEF Put
<1>4. CASE \/ UNCHANGED upload_vars
           \/ \E g \in FileId : PostFile(g)
           \/ \E g \in FileId, n \in 0..MAX_CHUNK_BYTES :
                PutChunk(g, n) \/ PutChunkFails(g, n)
           \/ Die
           \/ Restart
  <2>1. UNCHANGED <<final, collections>>
    BY <1>4 DEF upload_vars, PostFile, PutChunk, PutChunkFails, Die, Restart, disk
  <2>2. UNCHANGED partial \/ \E g, v : partial' = Put(partial, g, v)
    BY <1>4 DEF upload_vars, PostFile, PutChunk, PutChunkFails, Die, Restart, disk
  <2> QED BY <1>2, <1>3, <2>1, <2>2
<1>5. ASSUME NEW w \in Worker, Index(w)
      PROVE  /\ UNCHANGED disk
             /\ UNCHANGED collections \/ \E g, v : collections' = Put(collections, g, v)
  BY <1>5 DEF Index, Claim, StartRead, LookAtFinal, LookAtPartial, Open, SettleEmpty,
       EnsureCollection, CreateCollection, Upsert, Complete, Fail, Abandon
<1>6. ASSUME NEW r \in Request,
             \/ \E g \in FileId : PostComplete(r, g) \/ Delete(r, g)
             \/ LookForFinal(r) \/ MarkComplete(r)
      PROVE  UNCHANGED <<disk, collections>>
  BY <1>6 DEF PostComplete, Delete, LookForFinal, MarkComplete
<1>7. ASSUME NEW r \in Request, Rename(r)
      PROVE  /\ f \in DOMAIN final => f \in DOMAIN final'
             /\ f \in DOMAIN partial \cup DOMAIN final =>
                  f \in DOMAIN partial' \cup DOMAIN final'
             /\ f \in DOMAIN collections => f \in DOMAIN collections'
  BY <1>7 DEF Rename, Put, Without, disk
<1>8. ASSUME NEW r \in Request, Unlink(r) \/ Drop(r)
      PROVE  /\ f \in DOMAIN final => f \in DOMAIN final'
             /\ f \in DOMAIN partial \cup DOMAIN final =>
                  f \in DOMAIN partial' \cup DOMAIN final'
             /\ f \in DOMAIN collections => f \in DOMAIN collections'
  <2>1. f # request[r].file
    BY <1>1, <1>8 DEF Unlink, Drop, FilesInv, RequestInv
  <2> QED BY <1>8, <2>1 DEF Unlink, Drop, Without, disk
<1>9. CASE UNCHANGED <<disk, collections>>
  BY <1>9 DEF disk
<1>10. ASSUME UNCHANGED disk, NEW g, NEW v, collections' = Put(collections, g, v)
       PROVE  /\ f \in DOMAIN final => f \in DOMAIN final'
              /\ f \in DOMAIN partial \cup DOMAIN final =>
                   f \in DOMAIN partial' \cup DOMAIN final'
              /\ f \in DOMAIN collections => f \in DOMAIN collections'
  BY <1>2, <1>3, <1>10 DEF disk
<1> QED BY <1>4, <1>5, <1>6, <1>7, <1>8, <1>9, <1>10 DEF UploadNext, Serve

----------------------------------------------------------------------------
(* What a search knows *)

\* What a search knows of its file at each step, unless the file is deleted.
\* Having failed to open it once, it knows that there is a .dat.
Knows(step, f, again) ==
  /\ step = "open_final" \/ again => f \in DOMAIN final
  /\ step = "open_partial" => f \in DOMAIN partial \cup DOMAIN final
  /\ step \in {"look_partial", "open_partial"} => ~again
  /\ step = "query" => f \in DOMAIN collections
  /\ step # "raised"

\* It is a record of these fields.
IsSearch(r) ==
  r = [step |-> r.step, file |-> r.file, top_k |-> r.top_k, again |-> r.again,
       hits |-> r.hits, texts |-> r.texts, promised |-> r.promised,
       was_final |-> r.was_final]

\* The state of a search that is under way.
GoodSearch(r) ==
  /\ IsSearch(r)
  /\ r.file \in used_ids
  /\ r.again \in BOOLEAN
  /\ Gone(r.file) \/ Knows(r.step, r.file, r.again)

\* Every thread is idle or serves such a search.
SearchInv ==
  /\ search = [s \in Searcher |-> search[s]]
  /\ \A s \in Searcher : search[s] = NoSearch \/ GoodSearch(search[s])

----------------------------------------------------------------------------
(* The steps of a search *)

\* t is the search r at another step.
Takes(t, r, step, again, hits, texts) ==
  /\ IsSearch(t)
  /\ t.step = step /\ t.again = again /\ t.hits = hits /\ t.texts = texts
  /\ t.file = r.file /\ t.top_k = r.top_k
  /\ t.promised = r.promised /\ t.was_final = r.was_final

\* ... with nothing else changed.
TakesStep(t, r, step) == Takes(t, r, step, r.again, r.hits, r.texts)

\* UnreadHits and NextHit of a record.
UnreadOf(r) == DOMAIN r.hits \ DOMAIN r.texts
NextOf(r) == CHOOSE q \in UnreadOf(r) : \A other \in UnreadOf(r) : q <= other

\* t is the search r with the text of its next hit.
TakesText(t, r, text) ==
  Takes(t, r, "read", FALSE, r.hits, Put(r.texts, NextOf(r), text))

\* t is the record of a search that begins.
Begins(t, f, k) ==
  /\ IsSearch(t)
  /\ t.step \in {"nothing indexed", "find"}
  /\ t.step = "nothing indexed" => files[f].chunks_indexed = 0
  /\ t.file = f /\ t.top_k = k /\ t.again = FALSE
  /\ t.hits = EmptyTable /\ t.texts = EmptyTable
  /\ t.promised = IndexedSequences(f)
  /\ t.was_final = (f \in DOMAIN final)

\* What a step makes of the record r of a search, step by step of the code.
Moves(r, t) ==
  \/ t = NoSearch
  \/ \E f \in DOMAIN files, k \in TopK : Begins(t, f, k)
  \/ r.step \in {"find", "query"} /\ TakesStep(t, r, "failed")
  \/ /\ r.step = "find"
     /\ \/ TakesStep(t, r, "query") /\ r.file \in DOMAIN collections
        \/ TakesStep(t, r, "answered") /\ r.file \notin DOMAIN collections
  \/ /\ r.step = "query"
     /\ \/ TakesStep(t, r, "raised") /\ r.file \notin DOMAIN collections
        \/ /\ r.file \in DOMAIN collections
           /\ \E S \in Nearest(collections[r.file], r.top_k) :
                Takes(t, r, "read", r.again, [q \in S |-> collections[r.file][q]], r.texts)
  \/ /\ r.step = "read"
     /\ \/ TakesStep(t, r, "answered") /\ UnreadOf(r) = {}
        \/ TakesStep(t, r, "look") /\ UnreadOf(r) # {}
  \/ /\ r.step = "look"
     /\ \/ TakesStep(t, r, "open_final") /\ r.file \in DOMAIN final
        \/ TakesStep(t, r, "look_partial") /\ r.file \notin DOMAIN final
  \/ /\ r.step = "look_partial"
     /\ \/ TakesStep(t, r, "open_partial") /\ r.file \in DOMAIN partial
        \/ TakesText(t, r, <<>>) /\ r.file \notin DOMAIN partial
  \/ /\ r.step \in {"open_final", "open_partial"}
     /\ \/ /\ r.file \in DOMAIN Directory(r.step)
           /\ TakesText(t, r, RangeOf(Directory(r.step)[r.file], r.hits[NextOf(r)].passage))
        \/ /\ r.file \notin DOMAIN Directory(r.step)
           /\ \/ TakesStep(t, r, "raised") /\ r.again
              \/ Takes(t, r, "look", TRUE, r.hits, r.texts) /\ ~r.again

\* Changing some fields of a record leaves the others.
LEMMA FieldsOf ==
  ASSUME NEW r, IsSearch(r), NEW step, NEW again, NEW hits, NEW texts, NEW t
  PROVE  /\ t = [r EXCEPT !.step = step] => TakesStep(t, r, step)
         /\ t = [r EXCEPT !.step = step, !.hits = hits] =>
              Takes(t, r, step, r.again, hits, r.texts)
         /\ t = [r EXCEPT !.step = step, !.again = again] =>
              Takes(t, r, step, again, r.hits, r.texts)
         /\ t = [r EXCEPT !.step = step, !.again = again, !.texts = texts] =>
              Takes(t, r, step, again, r.hits, texts)
<1> DEFINE whole == [step |-> r.step, file |-> r.file, top_k |-> r.top_k,
                     again |-> r.again, hits |-> r.hits, texts |-> r.texts,
                     promised |-> r.promised, was_final |-> r.was_final]
<1>1. r = whole
  BY DEF IsSearch
<1>2. ASSUME t = [whole EXCEPT !.step = step] PROVE TakesStep(t, r, step)
  BY <1>2 DEF TakesStep, Takes, IsSearch
<1>3. ASSUME t = [whole EXCEPT !.step = step, !.hits = hits]
      PROVE  Takes(t, r, step, r.again, hits, r.texts)
  BY <1>3 DEF Takes, IsSearch
<1>4. ASSUME t = [whole EXCEPT !.step = step, !.again = again]
      PROVE  Takes(t, r, step, again, r.hits, r.texts)
  BY <1>4 DEF Takes, IsSearch
<1>5. ASSUME t = [whole EXCEPT !.step = step, !.again = again, !.texts = texts]
      PROVE  Takes(t, r, step, again, r.hits, texts)
  BY <1>5 DEF Takes, IsSearch
<1> HIDE DEF whole
<1> QED BY <1>1, <1>2, <1>3, <1>4, <1>5

\* So does a step of a search.
LEMMA Turned ==
  ASSUME NEW s \in Searcher, IsSearch(search[s]), NEW step, Turn(s, step)
  PROVE  \E t : search' = [search EXCEPT ![s] = t] /\ TakesStep(t, search[s], step)
<1>1. PICK r : r = search[s]
  OBVIOUS
<1>2. PICK t : t = [r EXCEPT !.step = step]
  OBVIOUS
<1>3. search' = [search EXCEPT ![s] = t]
  BY <1>1, <1>2 DEF Turn
<1>4. TakesStep(t, r, step)
  BY <1>1, <1>2, FieldsOf
<1> QED BY <1>1, <1>3, <1>4

\* So does Qdrant's answer ...
LEMMA Answered ==
  ASSUME NEW s \in Searcher, IsSearch(search[s]), NEW step, NEW hits,
         search' = [search EXCEPT ![s].step = step, ![s].hits = hits]
  PROVE  \E t : /\ search' = [search EXCEPT ![s] = t]
                /\ Takes(t, search[s], step, search[s].again, hits, search[s].texts)
<1>1. PICK r : r = search[s]
  OBVIOUS
<1>2. PICK t : t = [r EXCEPT !.step = step, !.hits = hits]
  OBVIOUS
<1>3. search' = [search EXCEPT ![s] = t]
  BY <1>1, <1>2
<1>4. Takes(t, r, step, r.again, hits, r.texts)
  BY <1>1, <1>2, FieldsOf
<1> QED BY <1>1, <1>3, <1>4

\* ... a second look at a file that was not there ...
LEMMA LooksAgain ==
  ASSUME NEW s \in Searcher, IsSearch(search[s]), NEW step, NEW again,
         search' = [search EXCEPT ![s].step = step, ![s].again = again]
  PROVE  \E t : /\ search' = [search EXCEPT ![s] = t]
                /\ Takes(t, search[s], step, again, search[s].hits, search[s].texts)
<1>1. PICK r : r = search[s]
  OBVIOUS
<1>2. PICK t : t = [r EXCEPT !.step = step, !.again = again]
  OBVIOUS
<1>3. search' = [search EXCEPT ![s] = t]
  BY <1>1, <1>2
<1>4. Takes(t, r, step, again, r.hits, r.texts)
  BY <1>1, <1>2, FieldsOf
<1> QED BY <1>1, <1>3, <1>4

\* ... and a text that was read.
LEMMA TextTaken ==
  ASSUME NEW s \in Searcher, IsSearch(search[s]), NEW text, GotHit(s, text)
  PROVE  \E t : search' = [search EXCEPT ![s] = t] /\ TakesText(t, search[s], text)
<1>1. PICK r, texts : r = search[s] /\ texts = Put(r.texts, NextOf(r), text)
  OBVIOUS
<1>2. PICK t : t = [r EXCEPT !.step = "read", !.again = FALSE, !.texts = texts]
  OBVIOUS
<1>3. NextHit(s) = NextOf(r)
  BY <1>1 DEF NextHit, NextOf, UnreadHits, UnreadOf
<1>4. search' = [search EXCEPT ![s] =
                   [search[s] EXCEPT !.step = "read", !.again = FALSE,
                      !.texts = Put(search[s].texts, NextHit(s), text)]]
  BY Zenon DEF GotHit
<1>5. search' = [search EXCEPT ![s] = t]
  BY <1>1, <1>2, <1>3, <1>4
<1>6. TakesText(t, r, text)
  <2>1. Takes(t, r, "read", FALSE, r.hits, texts)
    BY <1>1, <1>2, FieldsOf
  <2> QED BY <1>1, <2>1 DEF TakesText
<1> QED BY <1>1, <1>5, <1>6

\* Each step of a search is one of these moves.
LEMMA SearchMoves ==
  ASSUME IInv, SearchInv, NEW s \in Searcher, Search(s)
  PROVE  \E t : search' = [search EXCEPT ![s] = t] /\ Moves(search[s], t)
<1> DEFINE r == search[s]
           f == r.file
<1>0. r.step # "idle" => IsSearch(r)
  BY DEF SearchInv, GoodSearch, NoSearch
<1>1. ASSUME NEW g \in FileId, NEW k \in TopK, StartSearch(s, g, k)
      PROVE  \E t : search' = [search EXCEPT ![s] = t] /\ Begins(t, g, k) /\ g \in DOMAIN files
  <2>1. PICK step, promised, was_final :
          /\ step = IF files[g].chunks_indexed = 0 THEN "nothing indexed" ELSE "find"
          /\ promised = IndexedSequences(g)
          /\ was_final = (g \in DOMAIN final)
    OBVIOUS
  <2>2. PICK t : t = [step |-> step, file |-> g, top_k |-> k, again |-> FALSE,
                      hits |-> EmptyTable, texts |-> EmptyTable,
                      promised |-> promised, was_final |-> was_final]
    OBVIOUS
  <2>3. search' = [search EXCEPT ![s] = t]
    BY <1>1, <2>1, <2>2 DEF StartSearch
  <2>4. /\ IsSearch(t) /\ t.step = step /\ t.file = g /\ t.top_k = k /\ t.again = FALSE
        /\ t.hits = EmptyTable /\ t.texts = EmptyTable
        /\ t.promised = promised /\ t.was_final = was_final
    BY <2>2 DEF IsSearch
  <2>5. Begins(t, g, k)
    BY <2>1, <2>4 DEF Begins
  <2> QED BY <1>1, <2>3, <2>5 DEF StartSearch
<1>2. CASE FindCollection(s)
  <2>1. IsSearch(r) /\ r.step = "find"
    BY <1>0, <1>2 DEF FindCollection
  <2>2. \/ Turn(s, "query") /\ f \in DOMAIN collections
        \/ Turn(s, "answered") /\ f \notin DOMAIN collections
    BY <1>2 DEF FindCollection
  <2>3. \E t : /\ search' = [search EXCEPT ![s] = t]
               /\ \/ TakesStep(t, r, "query") /\ f \in DOMAIN collections
                  \/ TakesStep(t, r, "answered") /\ f \notin DOMAIN collections
    BY <2>1, <2>2, Turned
  <2> QED BY <2>1, <2>3 DEF Moves
<1>3. CASE Query(s)
  <2>1. IsSearch(r) /\ r.step = "query"
    BY <1>0, <1>3 DEF Query
  <2>2. CASE f \in DOMAIN collections
    <3>1. PICK S, hits :
            /\ S \in Nearest(collections[f], r.top_k)
            /\ hits = [q \in S |-> collections[f][q]]
            /\ search' = [search EXCEPT ![s].step = "read", ![s].hits = hits]
      BY <1>3, <2>2 DEF Query
    <3>2. PICK t : /\ search' = [search EXCEPT ![s] = t]
                   /\ Takes(t, r, "read", r.again, hits, r.texts)
      BY <2>1, <3>1, Answered
    <3> QED BY <2>1, <2>2, <3>1, <3>2 DEF Moves
  <2>3. CASE f \notin DOMAIN collections
    <3>1. Turn(s, "raised")
      BY <1>3, <2>3 DEF Query
    <3>2. PICK t : search' = [search EXCEPT ![s] = t] /\ TakesStep(t, r, "raised")
      BY <2>1, <3>1, Turned
    <3> QED BY <2>1, <2>3, <3>2 DEF Moves
  <2> QED BY <2>2, <2>3
<1>4. CASE ReadHit(s)
  <2>1. IsSearch(r) /\ r.step = "read"
    BY <1>0, <1>4 DEF ReadHit
  <2>2. \/ Turn(s, "answered") /\ UnreadOf(r) = {}
        \/ Turn(s, "look") /\ UnreadOf(r) # {}
    BY <1>4 DEF ReadHit, UnreadHits, UnreadOf
  <2>3. \E t : /\ search' = [search EXCEPT ![s] = t]
               /\ \/ TakesStep(t, r, "answered") /\ UnreadOf(r) = {}
                  \/ TakesStep(t, r, "look") /\ UnreadOf(r) # {}
    BY <2>1, <2>2, Turned
  <2> QED BY <2>1, <2>3 DEF Moves
<1>5. CASE LookForFinalText(s)
  <2>1. IsSearch(r) /\ r.step = "look"
    BY <1>0, <1>5 DEF LookForFinalText
  <2>2. \/ Turn(s, "open_final") /\ f \in DOMAIN final
        \/ Turn(s, "look_partial") /\ f \notin DOMAIN final
    BY <1>5 DEF LookForFinalText, AfterFinalLook
  <2>3. \E t : /\ search' = [search EXCEPT ![s] = t]
               /\ \/ TakesStep(t, r, "open_final") /\ f \in DOMAIN final
                  \/ TakesStep(t, r, "look_partial") /\ f \notin DOMAIN final
    BY <2>1, <2>2, Turned
  <2> QED BY <2>1, <2>3 DEF Moves
<1>6. CASE LookForPartialText(s)
  <2>1. IsSearch(r) /\ r.step = "look_partial"
    BY <1>0, <1>6 DEF LookForPartialText
  <2>2. \/ Turn(s, "open_partial") /\ f \in DOMAIN partial
        \/ GotHit(s, <<>>) /\ f \notin DOMAIN partial
    BY <1>6 DEF LookForPartialText, FindsPartial
  <2>3. \E t : /\ search' = [search EXCEPT ![s] = t]
               /\ \/ TakesStep(t, r, "open_partial") /\ f \in DOMAIN partial
                  \/ TakesText(t, r, <<>>) /\ f \notin DOMAIN partial
    BY <2>1, <2>2, Turned, TextTaken
  <2> QED BY <2>1, <2>3 DEF Moves
<1>7. CASE OpenText(s)
  <2>1. IsSearch(r) /\ r.step \in {"open_final", "open_partial"}
    BY <1>0, <1>7 DEF OpenText
  <2>2. NextHit(s) = NextOf(r)
    BY DEF NextHit, NextOf, UnreadHits, UnreadOf
  <2>3. CASE f \in DOMAIN Directory(r.step)
    <3>1. PICK text : text = RangeOf(Directory(r.step)[f], r.hits[NextOf(r)].passage)
      OBVIOUS
    <3>2. GotHit(s, text)
      BY <1>7, <2>2, <2>3, <3>1 DEF OpenText
    <3>3. PICK t : search' = [search EXCEPT ![s] = t] /\ TakesText(t, r, text)
      BY <2>1, <3>2, TextTaken
    <3> QED BY <2>1, <2>3, <3>1, <3>3 DEF Moves
  <2>4. CASE f \notin DOMAIN Directory(r.step)
    <3>1. AfterMissing(s)
      BY <1>7, <2>4 DEF OpenText
    <3>2. CASE r.again
      <4>1. PICK t : search' = [search EXCEPT ![s] = t] /\ TakesStep(t, r, "raised")
        BY <2>1, <3>1, <3>2, Turned DEF AfterMissing
      <4> QED BY <2>1, <2>4, <3>2, <4>1 DEF Moves
    <3>3. CASE ~r.again
      <4>1. search' = [search EXCEPT ![s].step = "look", ![s].again = TRUE]
        BY <3>1, <3>3 DEF AfterMissing
      <4>2. PICK t : search' = [search EXCEPT ![s] = t]
                     /\ Takes(t, r, "look", TRUE, r.hits, r.texts)
        BY <2>1, <4>1, LooksAgain
      <4> QED BY <2>1, <2>4, <3>3, <4>2 DEF Moves
    <3> QED BY <3>2, <3>3
  <2> QED BY <2>3, <2>4
<1>8. CASE Answer(s)
  BY <1>8 DEF Answer, Moves
<1>9. CASE CallFails(s)
  <2>1. IsSearch(r) /\ r.step \in {"find", "query"}
    BY <1>0, <1>9 DEF CallFails
  <2>2. \E t : search' = [search EXCEPT ![s] = t] /\ TakesStep(t, r, "failed")
    BY <1>9, <2>1, Turned DEF CallFails
  <2> QED BY <2>1, <2>2 DEF Moves
<1> QED BY <1>1, <1>2, <1>3, <1>4, <1>5, <1>6, <1>7, <1>8, <1>9 DEF Search, Moves

----------------------------------------------------------------------------
(* One retry is enough *)

\* The searches of the other threads do not move.
LEMMA OneSearchMoves ==
  ASSUME SearchInv, UNCHANGED upload_vars, NEW s \in Searcher, NEW r,
         search' = [search EXCEPT ![s] = r],
         r = NoSearch \/ GoodSearch(r)
  PROVE  SearchInv'
<1>1. UNCHANGED <<used_ids, files, partial, final, collections>>
  BY DEF upload_vars, vars
<1>2. ASSUME NEW q \in Searcher PROVE search'[q] = NoSearch \/ GoodSearch(search'[q])
  BY DEF SearchInv
<1>3. \A q : GoodSearch(q) => GoodSearch(q)'
  BY <1>1 DEF GoodSearch, Gone, Knows, IsSearch
<1> QED BY <1>1, <1>2
     DEF SearchInv, GoodSearch, Gone, Knows, IsSearch, NoSearch

\* What a search knows carries it to its next step.
LEMMA KnowsMore ==
  ASSUME IInv, NEW r, r = NoSearch \/ GoodSearch(r), NEW t, Moves(r, t)
  PROVE  t = NoSearch \/ GoodSearch(t)
<1> DEFINE f == r.file
<1>1. r.step # "idle" => GoodSearch(r)
  BY DEF NoSearch
<1>2. ASSUME GoodSearch(r), NEW step, NEW again \in BOOLEAN, NEW hits, NEW texts,
             Takes(t, r, step, again, hits, texts), Gone(f) \/ Knows(step, f, again)
      PROVE  GoodSearch(t)
  BY <1>2 DEF GoodSearch, Takes
<1>3. ASSUME NEW g \in DOMAIN files, NEW k \in TopK, Begins(t, g, k) PROVE GoodSearch(t)
  <2>1. g \in used_ids
    BY DEF IInv, TypeOK
  <2>2. Knows(t.step, g, FALSE)
    BY <1>3 DEF Begins, Knows
  <2> QED BY <1>3, <2>1, <2>2 DEF Begins, GoodSearch
<1>4. ASSUME GoodSearch(r), NEW step, TakesStep(t, r, step), Gone(f) \/ Knows(step, f, r.again)
      PROVE  GoodSearch(t)
  BY <1>2, <1>4 DEF TakesStep, GoodSearch
<1>5. ASSUME GoodSearch(r), NEW text, TakesText(t, r, text) PROVE GoodSearch(t)
  BY <1>2, <1>5 DEF TakesText, Knows
<1>6. ASSUME GoodSearch(r) PROVE Gone(f) \/ Knows(r.step, f, r.again)
  BY <1>6 DEF GoodSearch
<1>7. CASE r.step = "find"
  BY <1>1, <1>3, <1>4, <1>6, <1>7 DEF Moves, Knows
<1>8. CASE r.step = "query"
  <2>0. CASE TakesStep(t, r, "failed")
    BY <1>1, <1>4, <1>6, <1>8, <2>0 DEF Knows
  <2>1. CASE TakesStep(t, r, "raised") /\ f \notin DOMAIN collections
    BY <1>1, <1>4, <1>6, <1>8, <2>1 DEF Knows
  <2>2. ASSUME NEW hits, Takes(t, r, "read", r.again, hits, r.texts) PROVE GoodSearch(t)
    BY <1>1, <1>2, <1>6, <1>8, <2>2 DEF Knows, GoodSearch
  <2> QED BY <1>3, <1>8, <2>0, <2>1, <2>2 DEF Moves
<1>9. CASE r.step \in {"read", "look"}
  BY <1>1, <1>3, <1>4, <1>6, <1>9 DEF Moves, Knows
<1>10. CASE r.step = "look_partial"
  BY <1>1, <1>3, <1>4, <1>5, <1>6, <1>10 DEF Moves, Knows
<1>11. CASE r.step \in {"open_final", "open_partial"}
  <2>1. CASE f \notin DOMAIN Directory(r.step)
    <3>1. Gone(f) \/ (~r.again /\ f \in DOMAIN final)
      BY <1>1, <1>6, <1>11, <2>1 DEF Knows, Directory
    <3>2. ASSUME Takes(t, r, "look", TRUE, r.hits, r.texts) PROVE GoodSearch(t)
      BY <1>1, <1>2, <1>11, <3>1, <3>2 DEF Knows
    <3> QED BY <1>1, <1>3, <1>4, <1>11, <2>1, <3>1, <3>2 DEF Moves
  <2> QED BY <1>1, <1>3, <1>5, <1>11, <2>1 DEF Moves
<1>12. CASE r.step \notin {"find", "query", "read", "look", "look_partial", "open_final",
                           "open_partial"}
  BY <1>3, <1>12 DEF Moves
<1> QED BY <1>7, <1>8, <1>9, <1>10, <1>11, <1>12

\* Each step of a search knows what the next relies on.
LEMMA SearchStep ==
  ASSUME IInv, SearchInv, NEW s \in Searcher, Search(s), UNCHANGED upload_vars
  PROVE  SearchInv'
<1>1. PICK t : search' = [search EXCEPT ![s] = t] /\ Moves(search[s], t)
  BY SearchMoves
<1>2. PICK r : r = search[s]
  OBVIOUS
<1>3. t = NoSearch \/ GoodSearch(t)
  BY <1>1, <1>2, KnowsMore DEF SearchInv
<1> QED BY <1>1, <1>3, OneSearchMoves

\* And what it knows stays true meanwhile, or the file is deleted.
LEMMA ElsewhereStep ==
  ASSUME IInv, OffsetsAndRequests, FilesInv, SearchInv,
         [UploadNext]_upload_vars,
         search' \in {search, [s \in Searcher |-> NoSearch]}
  PROVE  SearchInv'
<1>1. CASE search' = [s \in Searcher |-> NoSearch]
  BY <1>1 DEF SearchInv
<1>2. CASE search' = search
  <2>1. ASSUME NEW r, GoodSearch(r) PROVE GoodSearch(r)'
    <3>1. r.file \in used_ids /\ r.file \in used_ids'
      BY <2>1, StepRefines, FilesAfterAStep DEF GoodSearch
    <3>2. CASE Gone(r.file)'
      BY <2>1, <3>1, <3>2 DEF GoodSearch, IsSearch
    <3>3. CASE ~Gone(r.file)'
      <4>1. ~Gone(r.file)
        BY <3>1, <3>3, StepRefines, FilesAfterAStep
      <4>2. Knows(r.step, r.file, r.again)'
        BY <2>1, <3>1, <3>3, <4>1, LivingFilesStay DEF GoodSearch, Knows
      <4> QED BY <2>1, <3>1, <4>2 DEF GoodSearch, IsSearch
    <3> QED BY <3>2, <3>3
  <2>2. ASSUME NEW s \in Searcher PROVE (search[s] = NoSearch \/ GoodSearch(search[s]))'
    <3>1. PICK r : r = search[s]
      OBVIOUS
    <3>2. r = NoSearch \/ GoodSearch(r)'
      BY <2>1, <3>1 DEF SearchInv
    <3> QED BY <1>2, <3>1, <3>2 DEF GoodSearch, IsSearch, Gone, Knows, NoSearch
  <2> QED BY <1>2, <2>2 DEF SearchInv
<1> QED BY <1>1, <1>2

\* The invariant of searches holds of the system.
THEOREM SearchesKnow == SearchSpec => []SearchInv
<1>1. SearchInit => SearchInv
  BY DEF SearchInit, SearchInv
<1>2. SearchSpec => [](IInv /\ FilesInv)
  BY SearchImplementsUpload, PipelineImplementsQueue, InvariantHolds,
     FilesInvariant, PTL
<1>3. SearchSpec => []OffsetsAndRequests
  <2>1. OffsetsAndRequests /\ [UploadNext]_upload_vars => OffsetsAndRequests'
    <3>1. OffsetsAndRequests /\ UNCHANGED upload_vars => OffsetsAndRequests'
      BY DEF OffsetsAndRequests, RequestsNameFiles, upload_vars
    <3> QED BY <3>1, OffsetsStep
  <2> QED BY <2>1, SearchImplementsUpload, OffsetsInitially, PTL DEF UploadSpec
<1>4. IInv /\ OffsetsAndRequests /\ FilesInv /\ SearchInv /\ [SearchNext]_search_vars
        => SearchInv'
  <2> SUFFICES ASSUME IInv, OffsetsAndRequests, FilesInv, SearchInv,
                      [SearchNext]_search_vars
               PROVE  SearchInv'
    OBVIOUS
  <2>1. CASE Elsewhere \/ UNCHANGED search_vars
    BY <2>1, ElsewhereStep DEF Elsewhere, search_vars
  <2>2. ASSUME NEW s \in Searcher, Search(s), UNCHANGED upload_vars PROVE SearchInv'
    BY <2>2, SearchStep
  <2> QED BY <2>1, <2>2 DEF SearchNext
<1> QED BY <1>1, <1>2, <1>3, <1>4, PTL DEF SearchSpec

\* A search of a file that is not deleted never fails for want of its collection
\* or of its bytes: what is missing at the first look is there at the second.
THEOREM OneRetrySuffices == SearchSpec => []OneRetryIsEnough
<1>1. SearchInv => OneRetryIsEnough
  BY DEF SearchInv, GoodSearch, Knows, NoSearch, OneRetryIsEnough
<1> QED BY <1>1, SearchesKnow, PTL

----------------------------------------------------------------------------
(* What a search holds *)

\* The steps at which there is a hit whose text is still to be read.
Looking == {"look", "look_partial", "open_final", "open_partial"}

\* The steps of a search that has no answer of Qdrant yet, or never will.
Begun == {"find", "query", "failed"}

\* The texts read are of hits, and the hits are no more than were asked for.
Bounded(r) ==
  /\ r.top_k \in TopK
  /\ Cardinality(DOMAIN r.hits) <= r.top_k
  /\ DOMAIN r.hits \subseteq Nat
  /\ DOMAIN r.texts \subseteq DOMAIN r.hits
  /\ r.step \in Begun => DOMAIN r.hits = {}
  /\ r.step \in Looking => UnreadOf(r) # {}

\* What was indexed when the search began is in the collection, and among the
\* hits once Qdrant was asked, if there was room.
Promised(r) ==
  /\ r.promised # {} =>
       r.file \in DOMAIN collections /\ r.promised \subseteq DOMAIN collections[r.file]
  /\ r.step \notin Begun /\ Cardinality(DOMAIN r.hits) < r.top_k =>
       r.promised \subseteq DOMAIN r.hits

\* A search is bounded, and its promise is kept unless the file is deleted.
FoundInv ==
  \A s \in Searcher :
    search[s] # NoSearch =>
      /\ Bounded(search[s])
      /\ Gone(search[s].file) \/ Promised(search[s])

\* Each hit is of acknowledged bytes, and a text is that of its hit, or empty.
Shown(r) ==
  /\ \A q \in DOMAIN r.hits :
       Committed(r.file, r.hits[q].passage) /\ r.hits[q].text = Text(r.hits[q].passage)
  /\ \A q \in DOMAIN r.texts : r.texts[q] \in {<<>>, r.hits[q].text}

\* It is empty only if the file was renamed between the two looks.
LeftOut(r) ==
  /\ r.was_final => r.file \in DOMAIN final
  /\ r.step = "look_partial" => ~r.was_final
  /\ \A q \in DOMAIN r.texts :
       r.texts[q] = <<>> => ~r.was_final /\ r.file \in DOMAIN final

\* What is shown is right, and nothing is left out unless the file is deleted.
ShownInv ==
  \A s \in Searcher :
    search[s] # NoSearch =>
      /\ Shown(search[s])
      /\ Gone(search[s].file) \/ LeftOut(search[s])

----------------------------------------------------------------------------
(* What is indexed is found *)

\* Points are numbered.
Numbered == \A f \in DOMAIN collections : DOMAIN collections[f] \subseteq Nat

\* They stay so.
LEMMA NumberedStep ==
  ASSUME IInv, HandsInv, Numbered, [UploadNext]_upload_vars
  PROVE  Numbered'
<1> SUFFICES ASSUME NEW f \in DOMAIN collections', NEW s \in DOMAIN collections'[f]
             PROVE  s \in Nat
  BY DEF Numbered
<1>1. CASE f \in DOMAIN collections /\ s \in DOMAIN collections[f]
  BY <1>1 DEF Numbered
<1>2. ASSUME NEW w \in Worker, s \in KeptSequences(w) PROVE s \in Nat
  BY <1>2 DEF KeptSequences, IInv, TypeOK, Job
<1> QED BY <1>1, <1>2, PointsAfterAStep

\* What a search that begins is promised is in the collection, and nothing is
\* promised when the counter of the file is zero.
LEMMA PromiseIsKept ==
  ASSUME IInv, CountersAgree, IndexedIsSearchable, NEW f \in DOMAIN files
  PROVE  /\ IndexedSequences(f) # {} =>
              /\ f \in DOMAIN collections
              /\ IndexedSequences(f) \subseteq DOMAIN collections[f]
         /\ files[f].chunks_indexed = 0 => IndexedSequences(f) = {}
<1> DEFINE indexed == Rows(chunks, f) \cap WithStatus(chunks, "indexed")
<1>1. ASSUME NEW c \in indexed \ skipped
      PROVE  f \in DOMAIN collections /\ chunks[c].sequence \in DOMAIN collections[f]
  BY <1>1 DEF IndexedIsSearchable, Rows
<1>2. ASSUME files[f].chunks_indexed = 0 PROVE indexed = {}
  <2>1. IsFiniteSet(indexed)
    <3>1. last_chunk_id \in Nat /\ indexed \in SUBSET (1..last_chunk_id)
      BY DEF Rows, IInv, TypeOK
    <3>2. IsFiniteSet(1..last_chunk_id)
      BY <3>1, FS_Interval
    <3> QED BY <3>1, <3>2, FS_Subset
  <2>2. Cardinality(indexed) \in Nat
    BY <2>1, FS_CardinalityType
  <2>3. Cardinality(indexed) <= 0
    BY <1>2, <2>2 DEF CountersAgree, NumberOf
  <2>4. Cardinality(indexed) = 0
    BY <2>2, <2>3
  <2> QED BY <2>1, <2>4, FS_EmptySet
<1> QED BY <1>1, <1>2 DEF IndexedSequences

\* The next hit is one whose text was not read yet.
LEMMA NextIsUnread ==
  ASSUME NEW r, DOMAIN r.hits \subseteq Nat, UnreadOf(r) # {}
  PROVE  NextOf(r) \in UnreadOf(r)
<1>1. UnreadOf(r) \in SUBSET Nat
  BY DEF UnreadOf
<1>2. \E q \in UnreadOf(r) : \A other \in UnreadOf(r) : q <= other
  BY <1>1, SmallestKey
<1> QED BY <1>2 DEF NextOf

\* Each step of a search keeps its bounds, and the promise it was given.
LEMMA FindsMore ==
  ASSUME IInv, CountersAgree, IndexedIsSearchable, Numbered,
         NEW r, r # NoSearch => Bounded(r) /\ (Gone(r.file) \/ Promised(r)),
         NEW t, Moves(r, t), t # NoSearch
  PROVE  Bounded(t) /\ (Gone(t.file) \/ Promised(t))
<1> DEFINE f == r.file
<1>1. r.step # "idle" => Bounded(r) /\ (Gone(f) \/ Promised(r))
  BY DEF NoSearch
<1>2. ASSUME NEW g \in DOMAIN files, NEW k \in TopK, Begins(t, g, k)
      PROVE  Bounded(t) /\ Promised(t)
  <2>1. DOMAIN t.hits = {} /\ DOMAIN t.texts = {}
    BY <1>2 DEF Begins, EmptyTable
  <2>2. Cardinality(DOMAIN t.hits) <= k
    <3>1. Cardinality(DOMAIN t.hits) = 0
      BY <2>1, FS_EmptySet
    <3>2. k \in Nat
      BY TopAssumption
    <3> QED BY <3>1, <3>2
  <2>3. Bounded(t)
    BY <1>2, <2>1, <2>2 DEF Begins, Bounded, Begun, Looking
  <2>4. Promised(t)
    BY <1>2, PromiseIsKept DEF Begins, Promised, Begun
  <2> QED BY <2>3, <2>4
<1>3. ASSUME Bounded(r), Gone(f) \/ Promised(r), NEW step, NEW again,
             Takes(t, r, step, again, r.hits, r.texts), r.step \notin Begun, step \notin Begun,
             step \in Looking => UnreadOf(r) # {}
      PROVE  Bounded(t) /\ (Gone(t.file) \/ Promised(t))
  BY <1>3 DEF Takes, Bounded, Promised, UnreadOf
<1>4. ASSUME NEW text, r.step \in Looking, TakesText(t, r, text)
      PROVE  Bounded(t) /\ (Gone(t.file) \/ Promised(t))
  <2>1. Bounded(r) /\ UnreadOf(r) # {} /\ r.step \notin Begun
    BY <1>1, <1>4 DEF Bounded, Looking, Begun
  <2>2. NextOf(r) \in DOMAIN r.hits
    BY <2>1, NextIsUnread DEF Bounded, UnreadOf
  <2>3. DOMAIN t.texts \subseteq DOMAIN t.hits
    BY <1>4, <2>1, <2>2 DEF TakesText, Takes, Put, Bounded
  <2>4. Bounded(t)
    BY <1>4, <2>1, <2>3 DEF TakesText, Takes, Bounded, Begun, Looking
  <2> QED BY <1>1, <1>4, <2>1, <2>4 DEF TakesText, Takes, Promised, Looking
<1>5. CASE r.step = "find"
  <2>1. ASSUME TakesStep(t, r, "query") PROVE Bounded(t) /\ (Gone(t.file) \/ Promised(t))
    BY <1>1, <1>5, <2>1 DEF TakesStep, Takes, Bounded, Promised, Begun, Looking
  <2>2. ASSUME TakesStep(t, r, "answered"), f \notin DOMAIN collections
        PROVE  Bounded(t) /\ (Gone(t.file) \/ Promised(t))
    BY <1>1, <1>5, <2>2 DEF TakesStep, Takes, Bounded, Promised, Begun, Looking
  <2>3. ASSUME TakesStep(t, r, "failed") PROVE Bounded(t) /\ (Gone(t.file) \/ Promised(t))
    BY <1>1, <1>5, <2>3 DEF TakesStep, Takes, Bounded, Promised, Begun, Looking
  <2> QED BY <1>2, <1>5, <2>1, <2>2, <2>3 DEF Moves
<1>6. CASE r.step = "query"
  <2>1. ASSUME TakesStep(t, r, "raised"), f \notin DOMAIN collections
        PROVE  Bounded(t) /\ (Gone(t.file) \/ Promised(t))
    BY <1>1, <1>6, <2>1 DEF TakesStep, Takes, Bounded, Promised, Begun, Looking
  <2>2. ASSUME f \in DOMAIN collections, NEW S \in Nearest(collections[f], r.top_k), NEW hits,
               hits = [q \in S |-> collections[f][q]],
               Takes(t, r, "read", r.again, hits, r.texts)
        PROVE  Bounded(t) /\ (Gone(t.file) \/ Promised(t))
    <3>1. Bounded(r) /\ DOMAIN r.texts = {} /\ r.top_k \in Nat
      BY <1>1, <1>6, TopAssumption DEF Bounded, Begun
    <3>2. S \subseteq DOMAIN collections[f] /\ Cardinality(S) <= r.top_k
      BY <2>2 DEF Nearest
    <3>3. DOMAIN t.hits = S /\ DOMAIN t.texts = {} /\ t.step = "read"
      BY <2>2, <3>1 DEF Takes
    <3>4. Bounded(t)
      BY <2>2, <3>1, <3>2, <3>3 DEF Takes, Bounded, Numbered, Begun, Looking
    <3>5. Cardinality(S) < r.top_k => S = DOMAIN collections[f]
      BY <2>2, <3>1 DEF Nearest
    <3>6. Gone(t.file) \/ Promised(t)
      BY <1>1, <1>6, <2>2, <3>3, <3>5 DEF Takes, Promised
    <3> QED BY <3>4, <3>6
  <2>3. ASSUME TakesStep(t, r, "failed") PROVE Bounded(t) /\ (Gone(t.file) \/ Promised(t))
    BY <1>1, <1>6, <2>3 DEF TakesStep, Takes, Bounded, Promised, Begun, Looking
  <2> QED BY <1>2, <1>6, <2>1, <2>2, <2>3 DEF Moves
<1>7. CASE r.step = "read"
  <2>1. r.step \notin Begun
    BY <1>7 DEF Begun
  <2>2. \A step \in {"answered", "look"} : step \notin Begun
    BY DEF Begun
  <2>3. ASSUME NEW step \in {"answered", "look"}, TakesStep(t, r, step),
               step = "look" => UnreadOf(r) # {}
        PROVE  Bounded(t) /\ (Gone(t.file) \/ Promised(t))
    <3>1. step \in Looking => UnreadOf(r) # {}
      BY <2>3 DEF Looking
    <3> QED BY <1>1, <1>3, <1>7, <2>1, <2>2, <2>3, <3>1 DEF TakesStep
  <2>4. \/ \E g \in DOMAIN files, k \in TopK : Begins(t, g, k)
        \/ TakesStep(t, r, "answered")
        \/ TakesStep(t, r, "look") /\ UnreadOf(r) # {}
    BY <1>7 DEF Moves
  <2> QED BY <1>2, <2>3, <2>4
<1>8. CASE r.step \in Looking
  <2>1. Bounded(r) /\ (Gone(f) \/ Promised(r)) /\ UnreadOf(r) # {} /\ r.step \notin Begun
    BY <1>1, <1>8 DEF Bounded, Looking, Begun
  <2>2. \A step \in Looking \cup {"raised"} : step \notin Begun
    BY DEF Begun, Looking
  <2>3. ASSUME NEW step \in Looking \cup {"raised"}, TakesStep(t, r, step)
        PROVE  Bounded(t) /\ (Gone(t.file) \/ Promised(t))
    BY <1>3, <2>1, <2>2, <2>3 DEF TakesStep
  <2>4. ASSUME Takes(t, r, "look", TRUE, r.hits, r.texts)
        PROVE  Bounded(t) /\ (Gone(t.file) \/ Promised(t))
    BY <1>3, <2>1, <2>2, <2>4 DEF Looking
  <2>5. \/ \E g \in DOMAIN files, k \in TopK : Begins(t, g, k)
        \/ \E step \in Looking \cup {"raised"} : TakesStep(t, r, step)
        \/ \E text : TakesText(t, r, text)
        \/ Takes(t, r, "look", TRUE, r.hits, r.texts)
    BY <1>8 DEF Moves, Looking
  <2> QED BY <1>2, <1>4, <1>8, <2>3, <2>4, <2>5
<1>9. CASE r.step \notin Looking \cup {"find", "query", "read"}
  BY <1>2, <1>9 DEF Moves, Looking
<1> QED BY <1>5, <1>6, <1>7, <1>8, <1>9

\* The other searches keep what they found.
LEMMA FoundStep ==
  ASSUME IInv, CountersAgree, IndexedIsSearchable, Numbered, SearchInv, FoundInv,
         NEW s \in Searcher, Search(s), UNCHANGED upload_vars
  PROVE  FoundInv'
<1>1. PICK t : search' = [search EXCEPT ![s] = t] /\ Moves(search[s], t)
  BY SearchMoves
<1>2. \A r : (Gone(r.file)' <=> Gone(r.file)) /\ (Promised(r)' <=> Promised(r))
  BY DEF upload_vars, vars, Gone, Promised
<1>3. t # NoSearch => Bounded(t) /\ (Gone(t.file) \/ Promised(t))
  <2>1. PICK r : r = search[s]
    OBVIOUS
  <2>2. r # NoSearch => Bounded(r) /\ (Gone(r.file) \/ Promised(r))
    BY <2>1 DEF FoundInv
  <2> QED BY <1>1, <2>1, <2>2, FindsMore
<1>4. ASSUME NEW q \in Searcher, NEW r, r = search'[q], r # NoSearch
      PROVE  Bounded(r) /\ (Gone(r.file)' \/ Promised(r)')
  <2>1. CASE q = s
    BY <1>1, <1>2, <1>3, <1>4, <2>1 DEF SearchInv
  <2>2. CASE q # s
    BY <1>1, <1>2, <1>4, <2>2 DEF SearchInv, FoundInv
  <2> QED BY <2>1, <2>2
<1> QED BY <1>4 DEF FoundInv, Bounded, Promised, Gone

\* Collections only grow while their file is there.
LEMMA FoundElsewhere ==
  ASSUME IInv, OffsetsAndRequests, FilesInv, HandsInv, SearchInv, FoundInv,
         [UploadNext]_upload_vars,
         search' \in {search, [s \in Searcher |-> NoSearch]}
  PROVE  FoundInv'
<1>1. ASSUME NEW q \in Searcher, NEW r, r = search'[q], r # NoSearch
      PROVE  Bounded(r) /\ (Gone(r.file)' \/ Promised(r)')
  <2>1. r = search[q]
    BY <1>1
  <2>2. Bounded(r) /\ (Gone(r.file) \/ Promised(r)) /\ r.file \in used_ids
    BY <1>1, <2>1 DEF FoundInv, SearchInv, GoodSearch
  <2>3. r.file \in used_ids' /\ (Gone(r.file) => Gone(r.file)')
    BY <2>2, StepRefines, FilesAfterAStep
  <2>4. CASE ~Gone(r.file)'
    <3>1. Promised(r) /\ r.file \in DOMAIN files'
      BY <2>2, <2>3, <2>4 DEF Gone
    <3>2. r.file \in DOMAIN collections =>
            /\ r.file \in DOMAIN collections'
            /\ DOMAIN collections[r.file] \subseteq DOMAIN collections'[r.file]
      BY <3>1, CollectionsStay
    <3>3. Promised(r)'
      BY <3>1, <3>2 DEF Promised
    <3> QED BY <2>2, <3>3
  <2> QED BY <2>2, <2>4
<1> QED BY <1>1 DEF FoundInv, Bounded, Promised, Gone

\* What searches found is right throughout.
LEMMA FoundInvariant == SearchSpec => [](Numbered /\ FoundInv)
<1>1. SearchInit => Numbered /\ FoundInv
  BY DEF SearchInit, UploadInit, EmptyTable, Numbered, FoundInv
<1>2. SearchSpec => [](IInv /\ CountersAgree)
  BY SearchImplementsUpload, PipelineImplementsQueue, InvariantHolds, CountersAreRight, PTL
<1>3. SearchSpec => [](OffsetsAndRequests /\ FilesInv /\ HandsInv /\ IndexedIsSearchable)
  BY SearchImplementsUpload, OffsetsInvariant, FilesInvariant, HandsInvariant, IndexIsComplete, PTL
<1>4. IInv /\ CountersAgree /\ OffsetsAndRequests /\ FilesInv /\ HandsInv
        /\ IndexedIsSearchable /\ SearchInv /\ Numbered /\ FoundInv
        /\ [SearchNext]_search_vars => Numbered' /\ FoundInv'
  <2> SUFFICES ASSUME IInv, CountersAgree, OffsetsAndRequests, FilesInv, HandsInv,
                      IndexedIsSearchable, SearchInv, Numbered, FoundInv, [SearchNext]_search_vars
               PROVE  Numbered' /\ FoundInv'
    OBVIOUS
  <2>1. Numbered'
    BY SearchStepRefines, NumberedStep
  <2>2. CASE Elsewhere \/ UNCHANGED search_vars
    BY <2>1, <2>2, FoundElsewhere DEF Elsewhere, search_vars
  <2>3. ASSUME NEW s \in Searcher, Search(s), UNCHANGED upload_vars PROVE FoundInv'
    BY <2>3, FoundStep
  <2> QED BY <2>1, <2>2, <2>3 DEF SearchNext
<1> QED BY <1>1, <1>2, <1>3, <1>4, SearchesKnow, PTL DEF SearchSpec

\* Types hold of searches and of all beneath them.
THEOREM SearchTypes == SearchSpec => []SearchTypeOK
<1>1. TypeOK /\ UploadTypeOK /\ SearchInv /\ FoundInv => SearchTypeOK
  <2> SUFFICES ASSUME SearchInv, FoundInv, NEW s \in Searcher, Searching(s)
               PROVE  /\ search[s].file \in used_ids
                      /\ DOMAIN search[s].texts \subseteq DOMAIN search[s].hits
                      /\ Cardinality(DOMAIN search[s].hits) <= search[s].top_k
    BY DEF SearchTypeOK, SearchInv
  <2>1. search[s] # NoSearch
    BY DEF Searching, NoSearch
  <2> QED BY <2>1 DEF SearchInv, GoodSearch, FoundInv, Bounded
<1>2. IInv => TypeOK
  BY DEF IInv
<1>3. SearchSpec => []IInv
  BY SearchImplementsUpload, PipelineImplementsQueue, InvariantHolds, PTL
<1> QED BY <1>1, <1>2, <1>3, SearchImplementsUpload, UploadTypes, SearchesKnow,
        FoundInvariant, PTL

\* A search with room left in its answer has missed nothing that was indexed
\* when it began, whatever the workers, uploads and deletes did since, unless
\* the file is deleted.
THEOREM SearchMissesNothing == SearchSpec => []IndexedIsFound
<1>1. FoundInv => IndexedIsFound
  <2> SUFFICES ASSUME FoundInv, NEW s \in Searcher,
                      search[s].step \in {"answered", "nothing indexed"},
                      Cardinality(DOMAIN search[s].hits) < search[s].top_k
               PROVE  Gone(search[s].file) \/ search[s].promised \subseteq DOMAIN search[s].hits
    BY DEF IndexedIsFound
  <2>1. NoSearch.step = "idle"
    BY DEF NoSearch
  <2>2. search[s] # NoSearch /\ search[s].step \notin Begun
    BY <2>1 DEF Begun
  <2> QED BY <2>2 DEF FoundInv, Promised
<1> QED BY <1>1, FoundInvariant, PTL

----------------------------------------------------------------------------
(* What is shown is the text *)

\* A file with acknowledged bytes is on disk for as long as it lives.
LEMMA CommittedIsThere ==
  ASSUME IInv, OffsetsAndRequests, DiskInv, NEW f \in used_ids, ~Gone(f),
         NEW p, Committed(f, p)
  PROVE  f \in DOMAIN partial \cup DOMAIN final
<1>1. f \in FileId /\ f \in DOMAIN files
  BY DEF IInv, TypeOK, Gone
<1>2. p[1] \in Nat /\ p[2] \in Nat /\ p[1] < p[2] /\ p[2] <= bytes_received[f]
  BY SizeAssumption DEF Committed, ByteRanges
<1>3. bytes_received[f] \in Nat
  BY <1>1, SizeAssumption DEF OffsetsAndRequests
<1>4. bytes_received[f] > 0
  BY <1>2, <1>3
<1> QED BY <1>1, <1>4 DEF DiskInv, FileOnDisk, CopiesOf

\* A text is added to those that were read.
LEMMA ShowsText ==
  ASSUME NEW r, Bounded(r), Shown(r), r.step \in Looking,
         NEW text, NEW t, TakesText(t, r, text),
         text \in {<<>>, r.hits[NextOf(r)].text}
  PROVE  /\ Shown(t)
         /\ \A q \in DOMAIN t.texts :
              t.texts[q] = <<>> /\ text # <<>> => q \in DOMAIN r.texts /\ r.texts[q] = <<>>
<1>1. PICK next : next = NextOf(r)
  OBVIOUS
<1>2. /\ t.hits = r.hits /\ t.file = r.file
      /\ t.texts = Put(r.texts, next, text)
  BY <1>1 DEF TakesText, Takes
<1>3. ASSUME NEW q \in DOMAIN t.texts
      PROVE  \/ t.texts[q] = text /\ q = next
             \/ q \in DOMAIN r.texts /\ t.texts[q] = r.texts[q]
  BY <1>2, <1>3 DEF Put
<1> QED BY <1>1, <1>2, <1>3 DEF Shown

\* Each step of a search shows the text of its hits, and leaves one out only
\* for a reason.
LEMMA ShowsMore ==
  ASSUME IInv, OffsetsAndRequests, DiskInv, VectorsInv,
         NEW r, r # NoSearch =>
           /\ GoodSearch(r) /\ Bounded(r)
           /\ Shown(r) /\ (Gone(r.file) \/ LeftOut(r)),
         NEW t, Moves(r, t), t # NoSearch
  PROVE  Shown(t) /\ (Gone(t.file) \/ LeftOut(t))
<1> DEFINE f == r.file
<1>1. r.step # "idle" =>
        GoodSearch(r) /\ Bounded(r) /\ Shown(r) /\ (Gone(f) \/ LeftOut(r))
  BY DEF NoSearch
<1>2. ASSUME NEW g \in DOMAIN files, NEW k \in TopK, Begins(t, g, k)
      PROVE  Shown(t) /\ LeftOut(t)
  <2>1. DOMAIN t.hits = {} /\ DOMAIN t.texts = {}
    BY <1>2 DEF Begins, EmptyTable
  <2> QED BY <1>2, <2>1 DEF Begins, Shown, LeftOut
<1>3. ASSUME Shown(r), Gone(f) \/ LeftOut(r), NEW step, NEW again,
             Takes(t, r, step, again, r.hits, r.texts),
             step = "look_partial" => Gone(f) \/ ~r.was_final
      PROVE  Shown(t) /\ (Gone(t.file) \/ LeftOut(t))
  <2>1. Shown(t)
    BY <1>3 DEF Takes, Shown
  <2>2. LeftOut(r) /\ ~Gone(f) => LeftOut(t)
    BY <1>3 DEF Takes, LeftOut
  <2>3. t.file = f
    BY <1>3 DEF Takes
  <2> QED BY <1>3, <2>1, <2>2, <2>3
<1>4. CASE r.step \in {"find", "read"}
  <2>1. \/ \E g \in DOMAIN files, k \in TopK : Begins(t, g, k)
        \/ \E step \in {"query", "answered", "look", "failed"} : TakesStep(t, r, step)
    BY <1>4 DEF Moves
  <2>2. ASSUME NEW step \in {"query", "answered", "look", "failed"}, TakesStep(t, r, step)
        PROVE  Shown(t) /\ (Gone(t.file) \/ LeftOut(t))
    BY <1>1, <1>3, <1>4, <2>2 DEF TakesStep
  <2> QED BY <1>2, <2>1, <2>2
<1>5. CASE r.step = "query"
  <2>1. \/ \E g \in DOMAIN files, k \in TopK : Begins(t, g, k)
        \/ \E step \in {"raised", "failed"} : TakesStep(t, r, step)
        \/ /\ f \in DOMAIN collections
           /\ \E S \in SUBSET DOMAIN collections[f] :
                Takes(t, r, "read", r.again, [q \in S |-> collections[f][q]], r.texts)
    BY <1>5 DEF Moves, Nearest
  <2>2. ASSUME NEW step \in {"raised", "failed"}, TakesStep(t, r, step)
        PROVE  Shown(t) /\ (Gone(t.file) \/ LeftOut(t))
    BY <1>1, <1>3, <1>5, <2>2 DEF TakesStep
  <2>3. ASSUME f \in DOMAIN collections, NEW S \in SUBSET DOMAIN collections[f], NEW hits,
               hits = [q \in S |-> collections[f][q]],
               Takes(t, r, "read", r.again, hits, r.texts)
        PROVE  Shown(t) /\ (Gone(t.file) \/ LeftOut(t))
    <3>1. DOMAIN r.texts = {}
      BY <1>1, <1>5 DEF Bounded, Begun
    <3>2. \A q \in S : PointIsRight(f, q, hits[q])
      BY <2>3 DEF VectorsInv
    <3>3. DOMAIN t.hits = S /\ t.hits = hits /\ t.texts = r.texts /\ t.file = f
          /\ t.step = "read" /\ t.was_final = r.was_final
      BY <2>3 DEF Takes
    <3>4. Shown(t)
      BY <3>1, <3>2, <3>3 DEF Shown, PointIsRight
    <3>5. LeftOut(r) => LeftOut(t)
      BY <3>1, <3>3 DEF LeftOut
    <3> QED BY <1>1, <1>5, <3>3, <3>4, <3>5
  <2> QED BY <1>2, <2>1, <2>2, <2>3
<1>6. CASE r.step = "look"
  <2>1. \/ \E g \in DOMAIN files, k \in TopK : Begins(t, g, k)
        \/ TakesStep(t, r, "open_final")
        \/ TakesStep(t, r, "look_partial") /\ f \notin DOMAIN final
    BY <1>6 DEF Moves
  <2>2. ASSUME NEW step \in {"open_final", "look_partial"}, TakesStep(t, r, step),
               step = "look_partial" => f \notin DOMAIN final
        PROVE  Shown(t) /\ (Gone(t.file) \/ LeftOut(t))
    <3>1. step = "look_partial" => Gone(f) \/ ~r.was_final
      BY <1>1, <1>6, <2>2 DEF LeftOut
    <3> QED BY <1>1, <1>3, <1>6, <2>2, <3>1 DEF TakesStep
  <2> QED BY <1>2, <2>1, <2>2
<1>7. CASE r.step \in {"look_partial", "open_final", "open_partial"}
  <2>0. r.step \in Looking
    BY <1>7 DEF Looking
  <2>1. /\ GoodSearch(r) /\ Bounded(r) /\ Shown(r) /\ (Gone(f) \/ LeftOut(r))
        /\ f \in used_ids /\ f \in FileId /\ NextOf(r) \in DOMAIN r.hits
    <3>1. GoodSearch(r) /\ Bounded(r) /\ Shown(r) /\ (Gone(f) \/ LeftOut(r))
      BY <1>1, <1>7
    <3>2. UnreadOf(r) # {} /\ DOMAIN r.hits \subseteq Nat
      BY <2>0, <3>1 DEF Bounded
    <3>3. NextOf(r) \in DOMAIN r.hits
      BY <3>2, NextIsUnread DEF UnreadOf
    <3> QED BY <3>1, <3>3 DEF GoodSearch, IInv, TypeOK
  <2>2. PICK p, shown : p = r.hits[NextOf(r)].passage /\ shown = r.hits[NextOf(r)].text
    OBVIOUS
  <2>3. Committed(f, p) /\ shown = Text(p)
    BY <2>1, <2>2 DEF Shown
  <2>4. \/ \E g \in DOMAIN files, k \in TopK : Begins(t, g, k)
        \/ \E step \in {"open_partial", "raised"} : TakesStep(t, r, step)
        \/ Takes(t, r, "look", TRUE, r.hits, r.texts)
        \/ r.step = "look_partial" /\ TakesText(t, r, <<>>) /\ f \notin DOMAIN partial
        \/ /\ r.step # "look_partial" /\ f \in DOMAIN Directory(r.step)
           /\ TakesText(t, r, RangeOf(Directory(r.step)[f], p))
    BY <1>7, <2>2 DEF Moves
  <2>5. ASSUME NEW step \in {"open_partial", "raised", "look"}, NEW again,
               Takes(t, r, step, again, r.hits, r.texts)
        PROVE  Shown(t) /\ (Gone(t.file) \/ LeftOut(t))
    BY <1>3, <2>1, <2>5
  <2>6. ASSUME r.step = "look_partial", TakesText(t, r, <<>>), f \notin DOMAIN partial
        PROVE  Shown(t) /\ (Gone(t.file) \/ LeftOut(t))
    <3>1. Shown(t)
      BY <2>0, <2>1, <2>6, ShowsText
    <3>2. t.file = f /\ t.step = "read" /\ t.was_final = r.was_final
      BY <2>6 DEF TakesText, Takes
    <3>3. CASE ~Gone(f)
      <4>1. f \in DOMAIN final
        BY <2>1, <2>3, <2>6, <3>3, CommittedIsThere
      <4>2. ~r.was_final
        BY <2>1, <2>6, <3>3 DEF LeftOut
      <4> QED BY <3>1, <3>2, <4>1, <4>2 DEF LeftOut
    <3> QED BY <3>1, <3>2, <3>3
  <2>7. ASSUME f \in DOMAIN Directory(r.step), NEW text,
               text = RangeOf(Directory(r.step)[f], p), TakesText(t, r, text)
        PROVE  Shown(t) /\ (Gone(t.file) \/ LeftOut(t))
    <3>1. PICK content : content = Directory(r.step)[f]
      OBVIOUS
    <3>2. \/ f \in DOMAIN final /\ content = final[f]
          \/ f \in DOMAIN partial /\ content = partial[f]
      BY <2>7, <3>1 DEF Directory
    <3>3. text = shown /\ text # <<>>
      BY <2>1, <2>3, <2>7, <3>1, <3>2, CommittedText
    <3>4. /\ Shown(t)
          /\ \A q \in DOMAIN t.texts :
               t.texts[q] = <<>> => q \in DOMAIN r.texts /\ r.texts[q] = <<>>
      BY <2>0, <2>1, <2>2, <2>7, <3>3, ShowsText
    <3>5. t.file = f /\ t.step = "read" /\ t.was_final = r.was_final
      BY <2>7 DEF TakesText, Takes
    <3>6. LeftOut(r) => LeftOut(t)
      BY <3>4, <3>5 DEF LeftOut
    <3> QED BY <2>1, <3>4, <3>5, <3>6
  <2> QED BY <1>2, <2>4, <2>5, <2>6, <2>7 DEF TakesStep
<1>8. CASE r.step \notin {"find", "query", "read", "look", "look_partial", "open_final",
                          "open_partial"}
  BY <1>2, <1>8 DEF Moves
<1> QED BY <1>4, <1>5, <1>6, <1>7, <1>8

\* The texts of the other searches stay.
LEMMA ShownStep ==
  ASSUME IInv, OffsetsAndRequests, DiskInv, VectorsInv, SearchInv, FoundInv, ShownInv,
         NEW s \in Searcher, Search(s), UNCHANGED upload_vars
  PROVE  ShownInv'
<1>1. PICK t : search' = [search EXCEPT ![s] = t] /\ Moves(search[s], t)
  BY SearchMoves
<1>2. \A r : /\ Gone(r.file)' <=> Gone(r.file)
             /\ LeftOut(r)' <=> LeftOut(r)
             /\ Shown(r)' <=> Shown(r)
  BY DEF upload_vars, vars, Gone, LeftOut, Shown, Committed
<1>3. t # NoSearch => Shown(t) /\ (Gone(t.file) \/ LeftOut(t))
  <2>1. PICK r : r = search[s]
    OBVIOUS
  <2>2. r # NoSearch => /\ GoodSearch(r) /\ Bounded(r)
                        /\ Shown(r) /\ (Gone(r.file) \/ LeftOut(r))
    BY <2>1 DEF SearchInv, FoundInv, ShownInv
  <2> QED BY <1>1, <2>1, <2>2, ShowsMore
<1>4. ASSUME NEW q \in Searcher, NEW r, r = search'[q], r # NoSearch
      PROVE  Shown(r)' /\ (Gone(r.file)' \/ LeftOut(r)')
  <2>1. CASE q = s
    BY <1>1, <1>2, <1>3, <1>4, <2>1 DEF SearchInv
  <2>2. CASE q # s
    BY <1>1, <1>2, <1>4, <2>2 DEF SearchInv, ShownInv
  <2> QED BY <2>1, <2>2
<1> QED BY <1>4 DEF ShownInv, Shown, Committed, LeftOut, Gone

\* What was acknowledged stays so, and a .dat stays while its file is there.
LEMMA ShownElsewhere ==
  ASSUME IInv, OffsetsAndRequests, FilesInv, SearchInv, ShownInv, [UploadNext]_upload_vars,
         search' \in {search, [s \in Searcher |-> NoSearch]}
  PROVE  ShownInv'
<1>1. ASSUME NEW q \in Searcher, NEW r, r = search'[q], r # NoSearch
      PROVE  Shown(r)' /\ (Gone(r.file)' \/ LeftOut(r)')
  <2>1. r = search[q]
    BY <1>1
  <2>2. Shown(r) /\ (Gone(r.file) \/ LeftOut(r)) /\ r.file \in used_ids
    BY <1>1, <2>1 DEF ShownInv, SearchInv, GoodSearch
  <2>3. Gone(r.file) => Gone(r.file)'
    BY <2>2, StepRefines, FilesAfterAStep
  <2>4. r.file \in FileId
    BY <2>2 DEF IInv, TypeOK
  <2>5. \A p : Committed(r.file, p) => Committed(r.file, p)'
    BY <2>4, CommittedStays
  <2>6. Shown(r)'
    BY <2>2, <2>5 DEF Shown
  <2>7. CASE ~Gone(r.file)'
    <3>1. LeftOut(r)
      BY <2>2, <2>3, <2>7
    <3>2. r.file \in DOMAIN final => r.file \in DOMAIN final'
      BY <2>2, <2>7, LivingFilesStay
    <3>3. LeftOut(r)'
      BY <3>1, <3>2 DEF LeftOut
    <3> QED BY <2>6, <3>3
  <2> QED BY <2>6, <2>7
<1> QED BY <1>1 DEF ShownInv, Shown, Committed, LeftOut, Gone

\* What searches show is right throughout.
LEMMA ShownInvariant ==
  ASSUME Whole PROVE SearchSpec => []ShownInv
<1>1. SearchInit => ShownInv
  BY DEF SearchInit, ShownInv
<1>2. SearchSpec => [](IInv /\ OffsetsAndRequests /\ FilesInv)
  BY SearchImplementsUpload, PipelineImplementsQueue, InvariantHolds, OffsetsInvariant,
     FilesInvariant, PTL
<1>3. UploadSpec => [](DiskInv /\ VectorsInv)
  <2>1. UploadSpec => []DiskInv
    BY DiskInvariant
  <2>2. UploadSpec => []VectorsInv
    BY VectorsInvariant
  <2> QED BY <2>1, <2>2, PTL
<1>4. IInv /\ OffsetsAndRequests /\ FilesInv /\ DiskInv /\ VectorsInv /\ SearchInv
        /\ FoundInv /\ ShownInv /\ [SearchNext]_search_vars => ShownInv'
  <2> SUFFICES ASSUME IInv, OffsetsAndRequests, FilesInv, DiskInv, VectorsInv, SearchInv,
                      FoundInv, ShownInv, [SearchNext]_search_vars
               PROVE  ShownInv'
    OBVIOUS
  <2>1. CASE Elsewhere \/ UNCHANGED search_vars
    BY <2>1, ShownElsewhere DEF Elsewhere, search_vars
  <2>2. ASSUME NEW s \in Searcher, Search(s), UNCHANGED upload_vars PROVE ShownInv'
    BY <2>2, ShownStep
  <2> QED BY <2>1, <2>2 DEF SearchNext
<1> QED BY <1>1, <1>2, <1>3, <1>4, SearchImplementsUpload, SearchesKnow, FoundInvariant, PTL
        DEF SearchSpec

\* A search shows of each hit the very text whose vector it found, wherever the
\* file was moved or whatever was appended to it since.
THEOREM HitsAreTheirText ==
  ASSUME Whole PROVE SearchSpec => []HitsShowTheirText
<1>1. ShownInv => HitsShowTheirText
  BY DEF ShownInv, Shown, HitsShowTheirText, Searching, NoSearch
<1>2. SearchSpec => []ShownInv
  BY ShownInvariant
<1> QED BY <1>1, <1>2, PTL

\* It leaves a hit out only if the file was deleted, or renamed since the
\* search began.
THEOREM LeftOutHitsAreGone ==
  ASSUME Whole PROVE SearchSpec => []HitsLeftOutAreGone
<1>1. ShownInv => HitsLeftOutAreGone
  BY DEF ShownInv, LeftOut, HitsLeftOutAreGone, Searching, NoSearch
<1>2. SearchSpec => []ShownInv
  BY ShownInvariant
<1> QED BY <1>1, <1>2, PTL
=============================================================================
