--------------------------- MODULE UploadPipeline ---------------------------
(***************************************************************************)
(* The whole path of a file: the requests of                               *)
(* app/services/upload_service.py, the bytes they keep on disk             *)
(* (file_storage_repository.py), the workers that read them back           *)
(* (app/tasks/worker.py) and the vectors they store in Qdrant              *)
(* (vector_repository.py), over the queue of module JobQueue.              *)
(*                                                                         *)
(* A step is one database transaction, one call on the file system or one  *)
(* call on Qdrant: that is where another thread can come between.  Every   *)
(* step that touches the tables is a step of JobQueue.                     *)
(*                                                                         *)
(* A byte is named by its offset in the client's file, so what a file or a *)
(* vector holds is a sequence of offsets.                                  *)
(***************************************************************************)
EXTENDS JobQueue

CONSTANTS
  Request,           \* threads serving /complete and DELETE
  MAX_FILE_BYTES,    \* config.MAX_FILE_BYTES
  MAX_CHUNK_BYTES,   \* config.MAX_CHUNK_BYTES
  Orderly            \* do clients repeat what was not acknowledged, and stop
                     \* sending once they have called /complete?

ASSUME SizeAssumption == MAX_FILE_BYTES \in Nat /\ MAX_CHUNK_BYTES \in Nat
ASSUME OrderlyAssumption == Orderly \in BOOLEAN

\* chunks.start_byte, chunks.end_byte
ByteRanges ==
  {r \in (0..MAX_FILE_BYTES) \X (0..MAX_FILE_BYTES) : r[1] < r[2]}
ASSUME PassageAssumption == Passage = ByteRanges

VARIABLES
  bytes_received,  \* column of `files`: bytes committed
  tail_start,      \* where its pending_tail begins
  partial,         \* the .partial files: file_id -> content
  final,           \* the .dat files
  collections,     \* Qdrant: file_id -> (sequence -> point), and a point is
                   \* the byte range of its payload and the text embedded
  request,         \* request[r]: the next step of the request r serves
  ingest,          \* ingest[w]: where worker w is in its batch
  client,          \* what the client of f has sent, and whether it called /complete
  skipped,         \* history: rows of living files last completed as empty reads
  deleted          \* history: files whose DELETE returned 204

queue == vars
disk == <<partial, final>>
columns == <<bytes_received, tail_start>>
history == <<client, skipped, deleted>>
upload_vars == <<vars, bytes_received, tail_start, partial, final, collections,
                 request, ingest, client, skipped, deleted>>

Bytes(s, e) == [i \in 1..(e - s) |-> s + i - 1]
Put(table, k, v) == [g \in DOMAIN table \cup {k} |-> IF g = k THEN v ELSE table[g]]
Without(table, k) == [g \in DOMAIN table \ {k} |-> table[g]]

NoRequest == [step |-> "idle"]
NoBatch == [step |-> "idle"]

UploadInit ==
  /\ Init
  /\ bytes_received = [f \in FileId |-> 0]
  /\ tail_start = [f \in FileId |-> 0]
  /\ partial = EmptyTable
  /\ final = EmptyTable
  /\ collections = EmptyTable
  /\ request = [r \in Request |-> NoRequest]
  /\ ingest = [w \in Worker |-> NoBatch]
  /\ client = [f \in FileId |-> [sent |-> 0, closed |-> FALSE]]
  /\ skipped = {}
  /\ deleted = {}

----------------------------------------------------------------------------
(* PUT /chunk *)

PostFile(f) ==
  /\ CreateUpload(f)
  /\ UNCHANGED <<columns, disk, collections, request, ingest, history>>

TruncateOneTooMany(f) ==
  IF f \notin DOMAIN partial THEN <<>>
  ELSE IF Len(partial[f]) > bytes_received[f]
       THEN SubSeq(partial[f], 1, bytes_received[f] - 1)
       ELSE partial[f]
TruncateNothing(f) == IF f \in DOMAIN partial THEN partial[f] ELSE <<>>

\* What truncate_to leaves of the partial file: bytes ahead of the database
\* are trimmed, a file that is not there or is shorter is left alone.
Truncated(f) ==
  IF f \notin DOMAIN partial THEN <<>>
  ELSE IF Len(partial[f]) > bytes_received[f]
       THEN SubSeq(partial[f], 1, bytes_received[f])
       ELSE partial[f]

AfterWrite(f, n) == Truncated(f) \o Bytes(bytes_received[f], bytes_received[f] + n)


\* The checks of append_chunk.  The offset given is the one expected: with any
\* other the call is refused and changes nothing.
MaySend(f, n) ==
  /\ bytes_received[f] + n <= MAX_FILE_BYTES
  /\ Orderly => ~client[f].closed

Sent(f, n) ==
  client' = [client EXCEPT ![f].sent =
               IF @ < bytes_received[f] + n THEN bytes_received[f] + n ELSE @]

\* What LineBuffer may cut, by PassageStream: the first passage begins with the
\* bytes held back, and each one later than the one before it and not after its
\* end.
CutsOf(f, received, passages) ==
  /\ passages # <<>> => passages[1][1] = tail_start[f]
  /\ \A i \in DOMAIN passages :
       /\ passages[i][2] <= received
       /\ i > 1 => passages[i][1] \in (passages[i - 1][1] + 1)..passages[i - 1][2]

\* LineBuffer.feed keeps the bytes from `keep` on: the rest of the buffer and an
\* overlap of the last passage.
Fed(f, n, passages, keep) ==
  /\ CutsOf(f, bytes_received[f] + n, passages)
  /\ IF passages = <<>> THEN keep = tail_start[f]
     ELSE LET last == passages[Len(passages)] IN keep \in (last[1] + 1)..last[2]

\* append_chunk is one step: it holds the write lock from its first read to
\* its commit, and while it does nobody else renames or removes this file.
PutChunk(f, n) ==
  /\ MaySend(f, n)
  /\ \E keep \in 0..MAX_FILE_BYTES, passages \in Passages :
       /\ Fed(f, n, passages, keep)
       /\ AppendChunk(f, passages)
       /\ tail_start' = [tail_start EXCEPT ![f] = keep]
  /\ partial' = Put(partial, f, AfterWrite(f, n))
  /\ bytes_received' = [bytes_received EXCEPT ![f] = @ + n]
  /\ Sent(f, n)
  /\ UNCHANGED <<final, collections, request, ingest, skipped, deleted>>

\* The bytes are written and the transaction does not commit.
PutChunkFails(f, n) ==
  /\ running
  /\ f \in DOMAIN files
  /\ files[f].upload_status \notin {"completed", "finalizing"}
  /\ MaySend(f, n)
  /\ partial' = Put(partial, f, AfterWrite(f, n))
  /\ Sent(f, n)
  /\ UNCHANGED <<queue, columns, final, collections, request, ingest, skipped, deleted>>

----------------------------------------------------------------------------
(* POST /complete *)

GoTo(r, s, f) == request' = [request EXCEPT ![r] = [step |-> s, file |-> f]]
Return(r) == request' = [request EXCEPT ![r] = NoRequest]

\* LineBuffer.flush cuts all that is held back, and only its last passage ends
\* the file.
Flushed(f, passages) ==
  /\ CutsOf(f, bytes_received[f], passages)
  /\ passages = <<>> <=> tail_start[f] = bytes_received[f]
  /\ \A i \in DOMAIN passages :
       passages[i][2] = bytes_received[f] <=> i = Len(passages)

PostComplete(r, f) ==
  /\ request[r].step = "idle"
  /\ bytes_received[f] > 0
  /\ Orderly => client[f].sent = bytes_received[f]
  /\ \E passages \in Passages : Flushed(f, passages) /\ BeginComplete(f, passages)
  /\ tail_start' = [tail_start EXCEPT ![f] = bytes_received[f]]
  /\ client' = [client EXCEPT ![f].closed = TRUE]
  /\ GoTo(r, "look", f)
  /\ UNCHANGED <<bytes_received, disk, collections, ingest, skipped, deleted>>

\* storage.finalize: is there a .dat already?
LookForFinal(r) ==
  /\ request[r].step = "look"
  /\ GoTo(r, IF request[r].file \in DOMAIN final THEN "finish" ELSE "rename",
          request[r].file)
  /\ UNCHANGED <<queue, columns, disk, collections, ingest, history>>

\* partial.rename(final), which raises when the partial file is gone.
Rename(r) ==
  /\ request[r].step = "rename"
  /\ LET f == request[r].file
     IN IF f \in DOMAIN partial
        THEN /\ final' = Put(final, f, partial[f])
             /\ partial' = Without(partial, f)
             /\ GoTo(r, "finish", f)
        ELSE /\ Return(r)
             /\ UNCHANGED disk
  /\ UNCHANGED <<queue, columns, collections, ingest, history>>

\* mark_completed, after which the row is read back: none, when the file was
\* deleted meanwhile.
MarkComplete(r) ==
  /\ request[r].step = "finish"
  /\ LET f == request[r].file
     IN IF f \in DOMAIN files /\ files[f].upload_status = "finalizing"
        THEN FinishComplete(f)
        ELSE UNCHANGED queue
  /\ Return(r)
  /\ UNCHANGED <<columns, disk, collections, ingest, history>>

----------------------------------------------------------------------------
(* DELETE *)

DeleteOrderReversed == <<"final", "partial">>

\* The order in which delete_all removes the two files.
DeleteOrder == <<"partial", "final">>

Delete(r, f) ==
  /\ request[r].step = "idle"
  /\ DeleteUpload(f)
  /\ GoTo(r, "unlink_first", f)
  /\ UNCHANGED <<columns, disk, collections, ingest, history>>

Unlink(r) ==
  /\ request[r].step \in {"unlink_first", "unlink_second"}
  /\ LET f == request[r].file
         first == request[r].step = "unlink_first"
         name == DeleteOrder[IF first THEN 1 ELSE 2]
     IN /\ partial' = IF name = "partial" THEN Without(partial, f) ELSE partial
        /\ final' = IF name = "final" THEN Without(final, f) ELSE final
        /\ GoTo(r, IF first THEN "unlink_second" ELSE "drop", f)
  /\ UNCHANGED <<queue, columns, collections, ingest, history>>

\* vector_repository.drop; without Qdrant it raises, and the rows are gone.
Drop(r) ==
  /\ request[r].step = "drop"
  /\ \/ /\ collections' = Without(collections, request[r].file)
        /\ deleted' = deleted \cup {request[r].file}
     \/ UNCHANGED <<collections, deleted>>
  /\ Return(r)
  /\ UNCHANGED <<queue, columns, disk, ingest, client, skipped>>

----------------------------------------------------------------------------
(* The workers *)

Move(w, s) == ingest' = [ingest EXCEPT ![w].step = s]
EndBatch(w) == ingest' = [ingest EXCEPT ![w] = NoBatch]

Claim(w) ==
  /\ ClaimBatch(w)
  /\ ingest' = [ingest EXCEPT ![w] =
                  [step |-> "read", again |-> FALSE, texts |-> EmptyTable]]
  /\ skipped' = skipped \ Ids(jobs'[w])
  /\ UNCHANGED <<columns, disk, collections, request, client, deleted>>

Unread(w) == jobs[w] \ DOMAIN ingest[w].texts
NextToRead(w) == CHOOSE j \in Unread(w) : \A k \in Unread(w) : j.sequence <= k.sequence

\* read_range, step by step: readable_path looks for the .dat, then for the
\* .partial, and what it found is opened.  The next job of the batch:
StartRead(w) ==
  /\ ingest[w].step = "read"
  /\ Unread(w) # {}
  /\ Move(w, "look")
  /\ UNCHANGED <<queue, columns, disk, collections, request, history>>

GotText(w, text) ==
  ingest' = [ingest EXCEPT ![w] =
               [@ EXCEPT !.step = "read", !.again = FALSE,
                         !.texts = Put(ingest[w].texts, NextToRead(w), text)]]

LooksForNoFinal(f) == "look_partial"
AfterFinalLook(f) == IF f \in DOMAIN final THEN "open_final" ELSE "look_partial"

LookAtFinal(w) ==
  /\ ingest[w].step = "look"
  /\ Move(w, AfterFinalLook(NextToRead(w).file_id))
  /\ UNCHANGED <<queue, columns, disk, collections, request, history>>

FindsPartial(f) == f \in DOMAIN partial

LookAtPartial(w) ==
  /\ ingest[w].step = "look_partial"
  /\ IF FindsPartial(NextToRead(w).file_id)
     THEN Move(w, "open_partial")
     ELSE GotText(w, <<>>)
  /\ UNCHANGED <<queue, columns, disk, collections, request, history>>

Directory(step) == IF step = "open_final" THEN final ELSE partial
RangeOf(content, p) ==
  SubSeq(content, p[1] + 1, IF p[2] < Len(content) THEN p[2] ELSE Len(content))

\* A file that is not there any more is looked for once again.
Open(w) ==
  /\ ingest[w].step \in {"open_final", "open_partial"}
  /\ LET j == NextToRead(w)
         directory == Directory(ingest[w].step)
     IN \/ /\ j.file_id \in DOMAIN directory
           /\ GotText(w, RangeOf(directory[j.file_id], j.passage))
        \/ /\ j.file_id \notin DOMAIN directory
           /\ ~ingest[w].again
           /\ ingest' = [ingest EXCEPT ![w] = [@ EXCEPT !.step = "look", !.again = TRUE]]
        \/ /\ j.file_id \notin DOMAIN directory
           /\ ingest[w].again
           /\ Move(w, "raised")
  /\ UNCHANGED <<queue, columns, disk, collections, request, history>>

EmptyReads(w) ==
  {j \in jobs[w] \cap DOMAIN ingest[w].texts : ingest[w].texts[j] = <<>>}

SettleEmpty(w) ==
  /\ ingest[w].step = "read"
  /\ Unread(w) = {}
  /\ CompleteEmpty(w, EmptyReads(w))
  /\ skipped' = IF FileOf(jobs[w]) \in DOMAIN files
                THEN skipped \cup Ids(EmptyReads(w)) ELSE skipped
  /\ IF EmptyReads(w) = jobs[w] THEN EndBatch(w) ELSE Move(w, "ensure")
  /\ UNCHANGED <<columns, disk, collections, request, client, deleted>>

\* _ensure_collection: is there a collection ...
EnsureCollection(w) ==
  /\ \/ ingest[w].step = "ensure"
     \/ ingest[w].step = "read" /\ Unread(w) = {} /\ EmptyReads(w) = {}
  /\ Move(w, IF FileOf(jobs[w]) \in DOMAIN collections THEN "upsert" ELSE "create")
  /\ UNCHANGED <<queue, columns, disk, collections, request, history>>

\* ... and if not, create it; Qdrant refuses a second one of the same name.
CreateCollection(w) ==
  /\ ingest[w].step = "create"
  /\ LET f == FileOf(jobs[w])
     IN IF f \in DOMAIN collections
        THEN Move(w, "raised") /\ UNCHANGED collections
        ELSE Move(w, "upsert") /\ collections' = Put(collections, f, EmptyTable)
  /\ UNCHANGED <<queue, columns, disk, request, history>>

KeptSequences(w) == {j.sequence : j \in jobs[w] \ emptied[w]}
KeptJob(w, s) == CHOOSE j \in jobs[w] \ emptied[w] : j.sequence = s
FirstJob(w) == CHOOSE j \in jobs[w] : \A k \in jobs[w] : j.sequence <= k.sequence

\* The text that is embedded and the range that is stored beside it.
PointMisaligned(w, s) ==
  [passage |-> KeptJob(w, s).passage, text |-> ingest[w].texts[FirstJob(w)]]
Point(w, s) ==
  [passage |-> KeptJob(w, s).passage, text |-> ingest[w].texts[KeptJob(w, s)]]

UpsertReplaces(w, points) == [s \in KeptSequences(w) |-> Point(w, s)]

\* Points are keyed by (file_id, sequence): an upsert overwrites.
Upserted(w, points) ==
  [s \in DOMAIN points \cup KeptSequences(w) |->
     IF s \in KeptSequences(w) THEN Point(w, s) ELSE points[s]]

Upsert(w) ==
  /\ ingest[w].step = "upsert"
  /\ LET f == FileOf(jobs[w])
     IN IF f \in DOMAIN collections
        THEN /\ collections' = Put(collections, f, Upserted(w, collections[f]))
             /\ Move(w, "complete")
        ELSE Move(w, "raised") /\ UNCHANGED collections
  /\ UNCHANGED <<queue, columns, disk, request, history>>

Complete(w) ==
  /\ ingest[w].step = "complete"
  /\ CompleteKept(w)
  /\ EndBatch(w)
  /\ UNCHANGED <<columns, disk, collections, request, history>>

\* Any step of a batch may raise: disk, model, Qdrant (also after it stored
\* the points) or database.
Fail(w) ==
  /\ FailBatch(w)
  /\ EndBatch(w)
  /\ UNCHANGED <<columns, disk, collections, request, history>>

Abandon(w) ==
  /\ AbandonBatch(w)
  /\ EndBatch(w)
  /\ UNCHANGED <<columns, disk, collections, request, history>>

----------------------------------------------------------------------------
(* The process *)

Die ==
  /\ Crash
  /\ request' = [r \in Request |-> NoRequest]
  /\ ingest' = [w \in Worker |-> NoBatch]
  /\ UNCHANGED <<columns, disk, collections, history>>

Restart ==
  /\ RecoverStuckJobs
  /\ UNCHANGED <<columns, disk, collections, request, ingest, history>>

Serve(r) ==
  \/ \E f \in FileId : PostComplete(r, f) \/ Delete(r, f)
  \/ LookForFinal(r) \/ Rename(r) \/ MarkComplete(r)
  \/ Unlink(r) \/ Drop(r)

Index(w) ==
  \/ Claim(w) \/ StartRead(w) \/ LookAtFinal(w) \/ LookAtPartial(w) \/ Open(w)
  \/ SettleEmpty(w) \/ EnsureCollection(w) \/ CreateCollection(w) \/ Upsert(w)
  \/ Complete(w) \/ Fail(w) \/ Abandon(w)

UploadNext ==
  \/ \E f \in FileId : PostFile(f)
  \/ \E f \in FileId, n \in 0..MAX_CHUNK_BYTES : PutChunk(f, n) \/ PutChunkFails(f, n)
  \/ \E r \in Request : Serve(r)
  \/ \E w \in Worker : Index(w)
  \/ Die
  \/ Restart

UploadSpec == UploadInit /\ [][UploadNext]_upload_vars
----------------------------------------------------------------------------
(* Properties *)

\* Every variable holds a value of its type.
UploadTypeOK ==
  /\ bytes_received \in [FileId -> 0..MAX_FILE_BYTES]
  /\ tail_start \in [FileId -> 0..MAX_FILE_BYTES]
  /\ DOMAIN partial \cup DOMAIN final \cup DOMAIN collections \subseteq used_ids
  /\ \A r \in Request : request[r] = NoRequest \/ request[r].file \in used_ids
  /\ \A w \in Worker : ingest[w] = NoBatch <=> jobs[w] = {}
  /\ \A f \in FileId : tail_start[f] <= bytes_received[f]

\* "The file on disk is the source of truth" (append_chunk): what search and
\* the workers would read of a living file begins with every byte that was
\* acknowledged, in order, whatever write was rolled back or interrupted.
Readable(f) ==
  IF f \in DOMAIN final THEN final[f]
  ELSE IF f \in DOMAIN partial THEN partial[f] ELSE <<>>

CommittedBytesAreOnDisk ==
  \A f \in DOMAIN files :
    /\ Len(Readable(f)) >= bytes_received[f]
    /\ SubSeq(Readable(f), 1, bytes_received[f]) = Bytes(0, bytes_received[f])

\* "The bytes on disk must end up identical to what the client sent"
\* (tests/test_upload.py): a completed file is exactly the acknowledged bytes.
CompletedFileIsWhole ==
  \A f \in DOMAIN files :
    files[f].upload_status = "completed" =>
      f \in DOMAIN final /\ final[f] = Bytes(0, bytes_received[f])

\* The file was deleted: its file_id will not be drawn again.
Gone(f) == f \in used_ids \ DOMAIN files

\* The `finalizing` status that complete_upload sets before the rename is
\* there until it marks the file completed: no chunk slips in between, and a
\* second /complete does not undo the first.
FinalizingHolds ==
  \A r \in Request :
    request[r].step \in {"look", "rename", "finish"} =>
      \/ request[r].file \notin DOMAIN files
      \/ files[request[r].file].upload_status \in {"finalizing", "completed"}

Text(p) == Bytes(p[1], p[2])

\* What the index holds of a living file: each point is a passage of it, and
\* its vector is of the whole text of that passage.
VectorsMatchPassages ==
  \A f \in DOMAIN files \cap DOMAIN collections : \A s \in DOMAIN collections[f] :
    \E c \in Rows(chunks, f) :
      /\ chunks[c].sequence = s
      /\ collections[f][s].passage = chunks[c].passage
      /\ collections[f][s].text = Text(chunks[c].passage)

\* A passage counted as indexed has its vector in Qdrant, unless it was
\* skipped as an empty read.
IndexedIsSearchable ==
  \A c \in WithStatus(chunks, "indexed") \ skipped :
    LET f == chunks[c].file_id
    IN f \in DOMAIN collections /\ chunks[c].sequence \in DOMAIN collections[f]

\* After DELETE returned, no request that was under way leaves or brings back
\* bytes of the file.
DeletedBytesAreGone == deleted \cap (DOMAIN partial \cup DOMAIN final) = {}

\* "Delete a file and its index" (app/api/v1/upload.py:184): after DELETE
\* returned there is no collection of the file.
NoOrphanVectors == deleted \cap DOMAIN collections = {}

\* "A truly empty read means the file was deleted mid-flight or the range is
\* bogus" (app/tasks/worker.py:71-73): no passage of a living file is skipped.
EmptyReadMeansDeleted == skipped \cap DOMAIN chunks = {}
=============================================================================
