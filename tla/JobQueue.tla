------------------------------ MODULE JobQueue ------------------------------
(***************************************************************************)
(* The durable job queue of app/tasks/job_queue.py, the indexing workers   *)
(* that drain it (app/tasks/worker.py) and the restarts of the process     *)
(* that hosts both.                                                        *)
(*                                                                         *)
(* Each database transaction is one step: db.transaction() is BEGIN        *)
(* IMMEDIATE, so two of them never interleave.  Between its transactions a *)
(* worker holds the batch it claimed in memory, and everything else in the *)
(* system may move; a crash loses the batch and keeps the tables.          *)
(*                                                                         *)
(* The upload path appears by what it does to the two tables: it appends   *)
(* passages, marks a file finalizing and then completed, and deletes it.   *)
(***************************************************************************)
EXTENDS SqlTables

CONSTANTS
  Worker,             \* the threads of the WorkerPool
  CLAIM_BATCH_SIZE,   \* config.CLAIM_BATCH_SIZE
  MAX_RETRIES,        \* config.MAX_RETRIES
  CanReadEmpty,       \* files of which a read may come back empty while they exist
  MaxPassages,        \* bound: passages cut by one call of the upload path
  MaxChunkId,         \* bound: chunk rows ever inserted
  MaxCrashes,         \* bound: times the process dies
  MaxDbFaults         \* bound: times fail_batch itself raises

ASSUME ClaimAssumption == CLAIM_BATCH_SIZE \in Nat \ {0}
ASSUME RetryAssumption == MAX_RETRIES \in Nat \ {0}
ASSUME ReadAssumption == CanReadEmpty \subseteq FileId
ASSUME BoundAssumption ==
  /\ MaxPassages \in Nat
  /\ MaxChunkId \in Nat
  /\ MaxCrashes \in Nat
  /\ MaxDbFaults \in Nat

VARIABLES
  files,          \* table `files`
  chunks,         \* table `chunks`
  last_chunk_id,  \* sqlite_sequence: the largest chunk_id ever given
  used_ids,       \* file_ids ever drawn: a uuid4 is not drawn twice
  jobs,           \* jobs[w]: the batch worker w has in memory
  emptied,        \* emptied[w]: its jobs already completed as empty reads
  running,        \* is the process up, past its startup recovery?
  stranded,       \* history: rows whose worker gave them up without an update
  crashes,        \* times the process has died
  db_faults       \* times fail_batch has raised

tables == <<files, chunks, last_chunk_id>>
memory == <<jobs, emptied>>
faults == <<stranded, crashes, db_faults>>
vars == <<files, chunks, last_chunk_id, used_ids, jobs, emptied, running,
          stranded, crashes, db_faults>>

\* job_queue.ChunkJob: a copy of the row, taken when it was claimed.
Job ==
  [chunk_id : Nat, file_id : FileId, sequence : Nat, passage : Passage,
   retry_count : Nat]

ChunkJob(c) ==
  [chunk_id |-> c, file_id |-> chunks[c].file_id,
   sequence |-> chunks[c].sequence, passage |-> chunks[c].passage,
   retry_count |-> chunks[c].retry_count]

Ids(batch) == {j.chunk_id : j \in batch}
FileOf(batch) == (CHOOSE j \in batch : TRUE).file_id    \* jobs[0].file_id

Passages == UNION {[1..n -> Passage] : n \in 0..MaxPassages}

Init ==
  /\ files = EmptyTable
  /\ chunks = EmptyTable
  /\ last_chunk_id = 0
  /\ used_ids = {}
  /\ jobs = [w \in Worker |-> {}]
  /\ emptied = [w \in Worker |-> {}]
  /\ running = TRUE
  /\ stranded = {}
  /\ crashes = 0
  /\ db_faults = 0

----------------------------------------------------------------------------
(* The upload path *)

CreateUpload(f) ==
  /\ running
  /\ f \notin used_ids
  /\ used_ids' = used_ids \cup {f}
  /\ files' = CreateFile(files, f)
  /\ UNCHANGED <<chunks, last_chunk_id, memory, running, faults>>

\* job_queue.enqueue, in the caller's transaction.
Enqueue(f, passages) ==
  /\ last_chunk_id + Len(passages) <= MaxChunkId
  /\ chunks' = InsertPending(chunks, last_chunk_id, f, passages, files[f].next_sequence)
  /\ last_chunk_id' = last_chunk_id + Len(passages)

NextSequenceStale(f, passages) == files[f].next_sequence
NextSequence(f, passages) == files[f].next_sequence + Len(passages)

AppendWhileFinalizing(f, passages) ==
  /\ running
  /\ f \in DOMAIN files
  /\ files[f].upload_status # "completed"
  /\ Enqueue(f, passages)
  /\ files' = UpdateAfterChunk(files, f, Len(passages), NextSequence(f, passages))
  /\ UNCHANGED <<used_ids, memory, running, faults>>

AppendChunk(f, passages) ==
  /\ running
  /\ f \in DOMAIN files
  /\ files[f].upload_status \notin {"completed", "finalizing"}
  /\ Enqueue(f, passages)
  /\ files' = UpdateAfterChunk(files, f, Len(passages), NextSequence(f, passages))
  /\ UNCHANGED <<used_ids, memory, running, faults>>

\* The first transaction of complete_upload.  A file that is still "pending"
\* has received no bytes and is refused; a client that only sent empty bodies
\* is refused too, which is not told apart here.
BeginComplete(f, passages) ==
  /\ running
  /\ f \in DOMAIN files
  /\ files[f].upload_status \notin {"pending", "completed"}
  /\ Enqueue(f, passages)
  /\ files' = MarkFinalizing(files, f, Len(passages), NextSequence(f, passages))
  /\ UNCHANGED <<used_ids, memory, running, faults>>

\* Its second transaction, after the rename.
FinishComplete(f) ==
  /\ running
  /\ f \in DOMAIN files
  /\ files[f].upload_status = "finalizing"
  /\ files' = MarkCompleted(files, f)
  /\ UNCHANGED <<chunks, last_chunk_id, used_ids, memory, running, faults>>

DeleteUpload(f) ==
  /\ running
  /\ f \in DOMAIN files
  /\ files' = DeleteFile(files, f)
  /\ chunks' = DeleteChunks(chunks, f)
  /\ UNCHANGED <<last_chunk_id, used_ids, memory, running, faults>>

----------------------------------------------------------------------------
(* The workers *)

ClaimBatch(w) ==
  /\ running
  /\ jobs[w] = {}
  /\ WithStatus(chunks, "pending") # {}
  /\ LET f == OldestPendingFile(chunks)
         ids == SelectPendingForFile(chunks, f, CLAIM_BATCH_SIZE)
     IN /\ chunks' = MarkProcessing(chunks, ids)
        /\ files' = MarkProcessingStarted(files, f)
        /\ jobs' = [jobs EXCEPT ![w] = {ChunkJob(c) : c \in ids}]
  /\ UNCHANGED <<last_chunk_id, used_ids, emptied, running, faults>>

RefreshDuringUpload(table, f) ==
  IF f \notin DOMAIN table THEN table
  ELSE LET row == table[f]
       IN IF row.chunks_indexed + row.chunks_failed < row.chunks_total
          THEN table
          ELSE SetProcessingStatus(table, f,
                 IF row.chunks_failed = 0 THEN "completed" ELSE "failed")

RefreshOneLate(table, f) ==
  IF f \notin DOMAIN table THEN table
  ELSE LET row == table[f]
       IN IF \/ row.upload_status # "completed"
             \/ row.chunks_indexed + row.chunks_failed <= row.chunks_total
          THEN table
          ELSE SetProcessingStatus(table, f,
                 IF row.chunks_failed = 0 THEN "completed" ELSE "failed")

\* _refresh_processing_status
Refresh(table, f) ==
  IF f \notin DOMAIN table THEN table
  ELSE LET row == table[f]
       IN IF \/ row.upload_status # "completed"
             \/ row.chunks_indexed + row.chunks_failed < row.chunks_total
          THEN table
          ELSE SetProcessingStatus(table, f,
                 IF row.chunks_failed = 0 THEN "completed" ELSE "failed")

CompleteBatch(batch) ==
  /\ chunks' = MarkIndexed(chunks, Ids(batch))
  /\ LET f == FileOf(batch)
     IN files' = Refresh(RecordIndexed(files, f, Cardinality(batch)), f)

\* The texts of the jobs in `empty` were read as "": they are completed first.
\* When nothing else is in the batch the worker is done with it.
CompleteEmpty(w, empty) ==
  /\ running
  /\ emptied[w] = {}
  /\ empty # {}
  /\ FileOf(jobs[w]) \notin DOMAIN files \ CanReadEmpty
  /\ CompleteBatch(empty)
  /\ jobs' = [jobs EXCEPT ![w] = IF empty = @ THEN {} ELSE @]
  /\ emptied' = [emptied EXCEPT ![w] = IF empty = jobs[w] THEN {} ELSE empty]
  /\ UNCHANGED <<last_chunk_id, used_ids, running, faults>>

\* After ingest_batch returned.
CompleteKept(w) ==
  /\ running
  /\ jobs[w] # {}
  /\ CompleteBatch(jobs[w] \ emptied[w])
  /\ jobs' = [jobs EXCEPT ![w] = {}]
  /\ emptied' = [emptied EXCEPT ![w] = {}]
  /\ UNCHANGED <<last_chunk_id, used_ids, running, faults>>

RetryableOffByOne(batch) == {j \in batch : j.retry_count + 1 <= MAX_RETRIES}
Retryable(batch) == {j \in batch : j.retry_count + 1 < MAX_RETRIES}

\* An exception anywhere after the claim: every job of the batch goes back or
\* fails, the ones already completed as empty included.
FailBatch(w) ==
  /\ running
  /\ jobs[w] # {}
  /\ LET retryable == Retryable(jobs[w])
         exhausted == jobs[w] \ retryable
         f == FileOf(jobs[w])
     IN /\ chunks' = MarkFailed(MarkPendingRetry(chunks, Ids(retryable)), Ids(exhausted))
        /\ files' = Refresh(RecordFailed(files, f, Cardinality(exhausted)), f)
  /\ jobs' = [jobs EXCEPT ![w] = {}]
  /\ emptied' = [emptied EXCEPT ![w] = {}]
  /\ UNCHANGED <<last_chunk_id, used_ids, running, faults>>

\* fail_batch raises as well (disk full, lock timeout): it is rolled back, run()
\* logs the exception and turns to the next batch.
AbandonBatch(w) ==
  /\ running
  /\ jobs[w] # {}
  /\ db_faults < MaxDbFaults
  /\ db_faults' = db_faults + 1
  /\ stranded' = stranded \cup Ids(jobs[w] \ emptied[w])
  /\ jobs' = [jobs EXCEPT ![w] = {}]
  /\ emptied' = [emptied EXCEPT ![w] = {}]
  /\ UNCHANGED <<tables, used_ids, running, crashes>>

----------------------------------------------------------------------------
(* The process *)

\* A kill, or a shutdown that does not wait: the batches in memory are gone.
Crash ==
  /\ running
  /\ crashes < MaxCrashes
  /\ crashes' = crashes + 1
  /\ running' = FALSE
  /\ jobs' = [w \in Worker |-> {}]
  /\ emptied' = [w \in Worker |-> {}]
  /\ UNCHANGED <<tables, used_ids, stranded, db_faults>>

\* recover_stuck_jobs, run by the lifespan before it starts the workers.
RecoverStuckJobs ==
  /\ ~running
  /\ running' = TRUE
  /\ chunks' = ResetStuckProcessing(chunks)
  /\ files' = RevertStuckFinalizing(MarkInterruptedUploads(files))
  /\ stranded' = {}
  /\ UNCHANGED <<last_chunk_id, used_ids, memory, crashes, db_faults>>

Work(w) ==
  \/ ClaimBatch(w)
  \/ \E empty \in SUBSET jobs[w] : CompleteEmpty(w, empty)
  \/ CompleteKept(w)
  \/ FailBatch(w)
  \/ AbandonBatch(w)

Next ==
  \/ \E f \in FileId :
       \/ CreateUpload(f)
       \/ \E passages \in Passages : AppendChunk(f, passages)
       \/ \E passages \in Passages : BeginComplete(f, passages)
       \/ FinishComplete(f)
       \/ DeleteUpload(f)
  \/ \E w \in Worker : Work(w)
  \/ Crash
  \/ RecoverStuckJobs

Spec == Init /\ [][Next]_vars

\* A worker loops for as long as the process is up, and the container is
\* restarted when it dies (restart: unless-stopped).  Clients owe nothing.
FairSpec ==
  /\ Spec
  /\ \A w \in Worker : WF_vars(Work(w))
  /\ WF_vars(RecoverStuckJobs)
----------------------------------------------------------------------------
(* Properties *)

\* Every variable holds a value of its type: rows have the columns of the
\* schema, a key in `files` was drawn, a key in `chunks` was given out.
TypeOK ==
  /\ used_ids \in SUBSET FileId
  /\ DOMAIN files \subseteq used_ids
  /\ files \in [DOMAIN files -> FileRow]
  /\ last_chunk_id \in Nat
  /\ DOMAIN chunks \subseteq 1..last_chunk_id
  /\ chunks \in [DOMAIN chunks -> ChunkRow]
  /\ jobs \in [Worker -> SUBSET Job]
  /\ emptied \in [Worker -> SUBSET Job]
  /\ running \in BOOLEAN
  /\ stranded \in SUBSET Nat
  /\ crashes \in Nat
  /\ db_faults \in Nat

\* "Two claims must never return the same row -- double embedding"
\* (tests/test_job_queue.py): no passage is in the hands of two workers, at any
\* distance between the two claims and whatever fails in between.
ClaimsAreExclusive ==
  \A v, w \in Worker : v # w => Ids(jobs[v]) \cap Ids(jobs[w]) = {}

\* A batch in memory never goes stale: as long as the row of a job exists, it
\* has the file, range and retry count that were copied at the claim, and the
\* status this worker gave it.  complete_batch and fail_batch update by
\* chunk_id and reuse the copied retry_count without reading the row again;
\* this is what makes that right, also after the file is deleted and new rows
\* are inserted.
JobsMirrorRows ==
  \A w \in Worker : \A j \in jobs[w] :
    j.chunk_id \in DOMAIN chunks =>
      /\ j = ChunkJob(j.chunk_id)
      /\ chunks[j.chunk_id].status =
           IF j \in emptied[w] THEN "indexed" ELSE "processing"

\* "A crash mid-batch loses nothing" (tests/test_job_queue.py): once the
\* process is up, a row in 'processing' is in the hands of a worker that will
\* settle it, unless that worker's own fail_batch raised.
NothingIsLost ==
  running =>
    WithStatus(chunks, "processing")
      \subseteq stranded \cup UNION {Ids(jobs[w]) : w \in Worker}

\* A passage is given up after MAX_RETRIES failed attempts, not sooner and not
\* later, although crashes and recoveries put it back on the queue in between.
RetryBudget ==
  \A c \in DOMAIN chunks :
    /\ chunks[c].retry_count <= MAX_RETRIES
    /\ chunks[c].status = "failed" <=> chunks[c].retry_count = MAX_RETRIES

\* The sequences of a file's rows are 0, 1, ..., next_sequence - 1, one row
\* each, and chunks_total counts them: enqueue never meets the conflict that
\* would drop a passage silently while the counter still grows.
SequencesAreDense ==
  \A f \in DOMAIN files :
    /\ {chunks[c].sequence : c \in Rows(chunks, f)} = 0..(files[f].next_sequence - 1)
    /\ \A c, d \in Rows(chunks, f) : chunks[c].sequence = chunks[d].sequence => c = d
    /\ files[f].chunks_total = files[f].next_sequence

\* The counters of a file, which are kept by increments in transactions far
\* apart, are the numbers of its rows in each settled state.  Only the indexed
\* counter of a file whose reads may be empty can be more than that; it decides
\* `searchable`, and is never less.
NumberOf(f, status) == Cardinality(Rows(chunks, f) \cap WithStatus(chunks, status))
CountersAgree ==
  \A f \in DOMAIN files :
    /\ files[f].chunks_failed = NumberOf(f, "failed")
    /\ files[f].chunks_indexed >= NumberOf(f, "indexed")
    /\ f \notin CanReadEmpty => files[f].chunks_indexed = NumberOf(f, "indexed")

\* _refresh_processing_status: a file is reported completed or failed only when
\* its upload is completed and no passage of it is outstanding, and it is
\* reported completed only when none of them failed.  This is said of files
\* whose reads are never empty: their counters are exact.
Terminal(f) == files[f].processing_status \in {"completed", "failed"}
Outstanding(f) ==
  {c \in Rows(chunks, f) : chunks[c].status \in {"pending", "processing"}}

TerminalMeansSettled ==
  \A f \in DOMAIN files \ CanReadEmpty :
    Terminal(f) =>
      /\ files[f].upload_status = "completed"
      /\ Outstanding(f) = {}
      /\ files[f].processing_status = "completed" <=>
           Rows(chunks, f) \cap WithStatus(chunks, "failed") = {}

\* schemas/upload.py declares processing_progress = (indexed + failed) / total
\* with le=1.0; a larger value makes GET /status fail.
ProgressIsAFraction ==
  \A f \in DOMAIN files :
    files[f].chunks_indexed + files[f].chunks_failed <= files[f].chunks_total

\* What the queue promises (module LeaseQueue): a passage is added once, and is
\* then in one place at a time -- queued, in the hands of one worker, stuck
\* until the next start, or settled -- until its file is deleted.  A row stays in
\* its worker's hands until the whole batch is decided, also when it was
\* completed as an empty read before.
Held(w) == Ids(jobs[w]) \cap DOMAIN chunks
HeldRows == UNION {Held(w) : w \in Worker}

Lease == INSTANCE LeaseQueue WITH
  Item <- 1..MaxChunkId,
  given <- 1..last_chunk_id,
  queued <- WithStatus(chunks, "pending"),
  held <- [w \in Worker |-> Held(w)],
  stuck <- WithStatus(chunks, "processing") \ HeldRows,
  settled <- (WithStatus(chunks, "indexed") \cup WithStatus(chunks, "failed"))
               \ HeldRows

ImplementsLease == Lease!Spec

\* A queued passage is eventually indexed, given up, or deleted with its file:
\* neither a failing older file nor a crash starves it.  Only a fail_batch that
\* raises leaves it behind; the next start puts it back on the queue, and then
\* the same holds of it again.
IsPending(c) == c \in WithStatus(chunks, "pending")
IsSettled(c) ==
  c \notin WithStatus(chunks, "pending") \cup WithStatus(chunks, "processing")
QueueDrains ==
  \A c \in 1..MaxChunkId : IsPending(c) ~> (IsSettled(c) \/ c \in stranded)

\* An upload that is completed while passages of it are outstanding is
\* eventually reported completed or failed (or is deleted), unless one of them
\* is left behind by a fail_batch that raised.
CompletedWithWork(f) ==
  f \in DOMAIN files /\ files[f].upload_status = "completed" /\ Outstanding(f) # {}
Reported(f) == f \notin DOMAIN files \/ Terminal(f)
LateWorkIsReported ==
  \A f \in FileId :
    CompletedWithWork(f) ~> (Reported(f) \/ Outstanding(f) \cap stranded # {})

\* "Move a file to a terminal processing state once nothing is outstanding"
\* (app/tasks/job_queue.py:151): every completed upload is eventually reported.
UploadCompleted(f) ==
  f \in DOMAIN files /\ files[f].upload_status = "completed"
EveryUploadIsReported == \A f \in FileId : UploadCompleted(f) ~> Reported(f)
----------------------------------------------------------------------------
(* The inductive invariant *)

\* What the safety theorems rest on (module JobQueue_proofs).  A batch is
\* finite, its empty reads are part of it, its keys were given out, and it
\* does not outlive the process.
BatchesAreWhole ==
  \A w \in Worker :
    /\ IsFiniteSet(jobs[w])
    /\ emptied[w] \subseteq jobs[w]
    /\ \A j \in jobs[w] : j.chunk_id <= last_chunk_id
    /\ running \/ jobs[w] = {}

\* FOREIGN KEY (file_id) of the schema: no row outlives its file.
RowsHaveFiles == \A c \in DOMAIN chunks : chunks[c].file_id \in DOMAIN files

\* The inductive invariant: each part relies on the others from one
\* transaction of a worker to its next.
IInv ==
  /\ TypeOK
  /\ BatchesAreWhole
  /\ RowsHaveFiles
  /\ ClaimsAreExclusive
  /\ JobsMirrorRows
  /\ NothingIsLost
  /\ RetryBudget
  /\ SequencesAreDense
=============================================================================
