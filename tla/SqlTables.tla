----------------------------- MODULE SqlTables -----------------------------
(***************************************************************************)
(* The `files` and `chunks` tables of app/db/db.py and the statements that *)
(* app/repositories/sql runs on them, as operators from table to table.    *)
(*                                                                         *)
(* A table is a function from primary key to row; its domain is the set of *)
(* keys present, so a DELETE shrinks the domain and an UPDATE of a missing *)
(* key changes nothing.  Of `files` only the columns that the job queue    *)
(* reads or writes are here; the byte counts of an upload belong to the    *)
(* module that models the upload path.  Timestamps and error texts are     *)
(* left out: no statement's effect depends on them.                        *)
(***************************************************************************)
EXTENDS Integers, Sequences, FiniteSets

CONSTANTS
  FileId,    \* the uuid4 identifiers create_upload may draw
  Passage    \* what a chunk row says of its text: its byte range

UploadStatus == {"pending", "uploading", "finalizing", "interrupted", "completed"}
ProcessingStatus == {"pending", "processing", "completed", "failed"}
ChunkStatus == {"pending", "processing", "indexed", "failed"}

FileRow ==
  [upload_status : UploadStatus, processing_status : ProcessingStatus,
   chunks_total : Nat, chunks_indexed : Nat, chunks_failed : Nat,
   next_sequence : Nat]

ChunkRow ==
  [file_id : FileId, sequence : Nat, passage : Passage,
   status : ChunkStatus, retry_count : Nat]

EmptyTable == [k \in {} |-> 0]
Rows(chunks, f) == {c \in DOMAIN chunks : chunks[c].file_id = f}
WithStatus(chunks, s) == {c \in DOMAIN chunks : chunks[c].status = s}

----------------------------------------------------------------------------
(* chunk_repository.py *)

PendingRow(f, seq, p) ==
  [file_id |-> f, sequence |-> seq, passage |-> p,
   status |-> "pending", retry_count |-> 0]

\* Plain INTEGER PRIMARY KEY: the largest key present, plus one.
InsertWithoutAutoincrement(chunks, last, f, passages, start) ==
  LET top == CHOOSE k \in DOMAIN chunks \cup {0} : \A c \in DOMAIN chunks : c <= k
      new == {top + i : i \in 1..Len(passages)}
  IN [c \in DOMAIN chunks \cup new |->
        IF c \in DOMAIN chunks THEN chunks[c]
        ELSE PendingRow(f, start + (c - top) - 1, passages[c - top])]

\* Keys are AUTOINCREMENT: they continue from the largest ever given, `last`.
\* A row whose (file_id, sequence) is already there is skipped (ON CONFLICT).
InsertPending(chunks, last, f, passages, start) ==
  LET taken == {chunks[c].sequence : c \in Rows(chunks, f)}
      new == {last + i : i \in {k \in 1..Len(passages) : start + k - 1 \notin taken}}
  IN [c \in DOMAIN chunks \cup new |->
        IF c \in DOMAIN chunks THEN chunks[c]
        ELSE PendingRow(f, start + (c - last) - 1, passages[c - last])]

\* The file of the pending row with the smallest key.
OldestPendingFile(chunks) ==
  LET pending == WithStatus(chunks, "pending")
      oldest == CHOOSE c \in pending : \A d \in pending : c <= d
  IN chunks[oldest].file_id

\* The first `limit` pending rows of f in sequence order.
SelectPendingForFile(chunks, f, limit) ==
  LET pending == Rows(chunks, f) \cap WithStatus(chunks, "pending")
      before(c) == {d \in pending : chunks[d].sequence < chunks[c].sequence}
  IN {c \in pending : Cardinality(before(c)) < limit}

SetStatus(chunks, ids, s) ==
  [c \in DOMAIN chunks |->
     IF c \in ids THEN [chunks[c] EXCEPT !.status = s] ELSE chunks[c]]

SetStatusAfterAttempt(chunks, ids, s) ==
  [c \in DOMAIN chunks |->
     IF c \in ids
     THEN [chunks[c] EXCEPT !.status = s, !.retry_count = @ + 1]
     ELSE chunks[c]]

ClaimWithoutUpdate(chunks, ids) == chunks
ResetNothing(chunks) == chunks
ResetEverything(chunks) == SetStatus(chunks, DOMAIN chunks, "pending")

MarkProcessing(chunks, ids) == SetStatus(chunks, ids, "processing")
MarkIndexed(chunks, ids) == SetStatus(chunks, ids, "indexed")
MarkPendingRetry(chunks, ids) == SetStatusAfterAttempt(chunks, ids, "pending")
MarkFailed(chunks, ids) == SetStatusAfterAttempt(chunks, ids, "failed")
ResetStuckProcessing(chunks) ==
  SetStatus(chunks, WithStatus(chunks, "processing"), "pending")

----------------------------------------------------------------------------
(* file_repository.py *)

NewFile ==
  [upload_status |-> "pending", processing_status |-> "pending",
   chunks_total |-> 0, chunks_indexed |-> 0, chunks_failed |-> 0,
   next_sequence |-> 0]

CreateFile(files, f) ==
  [g \in DOMAIN files \cup {f} |-> IF g = f THEN NewFile ELSE files[g]]

\* Each statement updates the row of f if there is one.
UpdateAfterChunk(files, f, added, next) ==
  [g \in DOMAIN files |->
     IF g = f
     THEN [files[g] EXCEPT !.upload_status = "uploading",
                           !.chunks_total = @ + added,
                           !.next_sequence = next]
     ELSE files[g]]

MarkFinalizing(files, f, added, next) ==
  [g \in DOMAIN files |->
     IF g = f
     THEN [files[g] EXCEPT !.upload_status = "finalizing",
                           !.chunks_total = @ + added,
                           !.next_sequence = next]
     ELSE files[g]]

MarkCompleted(files, f) ==
  [g \in DOMAIN files |->
     IF g = f THEN [files[g] EXCEPT !.upload_status = "completed"] ELSE files[g]]

MarkProcessingStarted(files, f) ==
  [g \in DOMAIN files |->
     IF g = f /\ files[g].processing_status = "pending"
     THEN [files[g] EXCEPT !.processing_status = "processing"]
     ELSE files[g]]

RecordOneIndexed(files, f, count) ==
  [g \in DOMAIN files |->
     IF g = f THEN [files[g] EXCEPT !.chunks_indexed = @ + 1] ELSE files[g]]

RecordIndexed(files, f, count) ==
  [g \in DOMAIN files |->
     IF g = f THEN [files[g] EXCEPT !.chunks_indexed = @ + count] ELSE files[g]]

RecordFailed(files, f, count) ==
  [g \in DOMAIN files |->
     IF g = f THEN [files[g] EXCEPT !.chunks_failed = @ + count] ELSE files[g]]

SetProcessingStatus(files, f, s) ==
  [g \in DOMAIN files |->
     IF g = f THEN [files[g] EXCEPT !.processing_status = s] ELSE files[g]]

MoveUploads(files, from, to) ==
  [g \in DOMAIN files |->
     IF files[g].upload_status = from
     THEN [files[g] EXCEPT !.upload_status = to]
     ELSE files[g]]

MarkInterruptedUploads(files) == MoveUploads(files, "uploading", "interrupted")
RevertStuckFinalizing(files) == MoveUploads(files, "finalizing", "uploading")

\* DELETE of a file and, by the explicit statement and ON DELETE CASCADE, of
\* its chunk rows.
DeleteFile(files, f) == [g \in DOMAIN files \ {f} |-> files[g]]
DeleteChunks(chunks, f) ==
  [c \in DOMAIN chunks \ Rows(chunks, f) |-> chunks[c]]
=============================================================================
