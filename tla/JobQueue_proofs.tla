--------------------------- MODULE JobQueue_proofs ---------------------------
(***************************************************************************)
(* Safety of the job queue for every number of files, passages, workers,   *)
(* retries, crashes and faults.                                            *)
(***************************************************************************)
EXTENDS JobQueue, FunctionTheorems, FiniteSetTheorems,
        SequenceTheorems, TLAPS

----------------------------------------------------------------------------
(* What the statements do to a table *)

\* A table of chunk rows whose rows keep their key, file, sequence and passage.
SameRows(t, u) ==
  /\ DOMAIN u = DOMAIN t
  /\ u \in [DOMAIN t -> ChunkRow]
  /\ \A c \in DOMAIN t :
       /\ u[c].file_id = t[c].file_id
       /\ u[c].sequence = t[c].sequence
       /\ u[c].passage = t[c].passage

\* A status update keeps the keys and every other column.
LEMMA SetStatusColumns ==
  ASSUME NEW t, t \in [DOMAIN t -> ChunkRow], NEW ids, NEW s \in ChunkStatus
  PROVE  /\ SameRows(t, SetStatus(t, ids, s))
         /\ \A c \in DOMAIN t :
              /\ SetStatus(t, ids, s)[c].retry_count = t[c].retry_count
              /\ SetStatus(t, ids, s)[c].status =
                   IF c \in ids THEN s ELSE t[c].status
<1>1. \A c \in DOMAIN t : t[c] \in ChunkRow
  OBVIOUS
<1>2. DOMAIN SetStatus(t, ids, s) = DOMAIN t
  BY DEF SetStatus
<1>3. ASSUME NEW c \in DOMAIN t
      PROVE  /\ SetStatus(t, ids, s)[c] \in ChunkRow
             /\ SetStatus(t, ids, s)[c].file_id = t[c].file_id
             /\ SetStatus(t, ids, s)[c].sequence = t[c].sequence
             /\ SetStatus(t, ids, s)[c].passage = t[c].passage
             /\ SetStatus(t, ids, s)[c].retry_count = t[c].retry_count
             /\ SetStatus(t, ids, s)[c].status = IF c \in ids THEN s ELSE t[c].status
  BY <1>1 DEF ChunkRow, SetStatus
<1>4. SetStatus(t, ids, s) \in [DOMAIN t -> ChunkRow]
  BY <1>3 DEF SetStatus
<1>5. QED
  BY <1>2, <1>3, <1>4 DEF SameRows

\* An update that counts an attempt keeps the keys and the columns it does not
\* name.
LEMMA SetStatusAfterAttemptColumns ==
  ASSUME NEW t, t \in [DOMAIN t -> ChunkRow], NEW ids, NEW s \in ChunkStatus
  PROVE  /\ SameRows(t, SetStatusAfterAttempt(t, ids, s))
         /\ \A c \in DOMAIN t :
              /\ SetStatusAfterAttempt(t, ids, s)[c].retry_count =
                   IF c \in ids THEN t[c].retry_count + 1 ELSE t[c].retry_count
              /\ SetStatusAfterAttempt(t, ids, s)[c].status =
                   IF c \in ids THEN s ELSE t[c].status
<1>1. \A c \in DOMAIN t : t[c] \in ChunkRow
  OBVIOUS
<1>2. DOMAIN SetStatusAfterAttempt(t, ids, s) = DOMAIN t
  BY DEF SetStatusAfterAttempt
<1>3. ASSUME NEW c \in DOMAIN t
      PROVE  /\ SetStatusAfterAttempt(t, ids, s)[c] \in ChunkRow
             /\ SetStatusAfterAttempt(t, ids, s)[c].file_id = t[c].file_id
             /\ SetStatusAfterAttempt(t, ids, s)[c].sequence = t[c].sequence
             /\ SetStatusAfterAttempt(t, ids, s)[c].passage = t[c].passage
             /\ SetStatusAfterAttempt(t, ids, s)[c].retry_count =
                  IF c \in ids THEN t[c].retry_count + 1 ELSE t[c].retry_count
             /\ SetStatusAfterAttempt(t, ids, s)[c].status =
                  IF c \in ids THEN s ELSE t[c].status
  <2>1. t[c] \in ChunkRow /\ t[c].retry_count + 1 \in Nat
    BY <1>1 DEF ChunkRow
  <2>2. SetStatusAfterAttempt(t, ids, s)[c] =
          IF c \in ids
          THEN [t[c] EXCEPT !.status = s, !.retry_count = t[c].retry_count + 1]
          ELSE t[c]
    BY DEF SetStatusAfterAttempt
  <2>3. CASE c \in ids
    BY <2>1, <2>2, <2>3 DEF ChunkRow
  <2>4. CASE c \notin ids
    BY <2>1, <2>2, <2>4 DEF ChunkRow
  <2>5. QED
    BY <2>3, <2>4
<1>4. SetStatusAfterAttempt(t, ids, s) \in [DOMAIN t -> ChunkRow]
  BY <1>3 DEF SetStatusAfterAttempt
<1>5. QED
  BY <1>2, <1>3, <1>4 DEF SameRows

\* A table of file rows with the same files and the same sequence counters.
SameUploads(t, u) ==
  /\ DOMAIN u = DOMAIN t
  /\ u \in [DOMAIN t -> FileRow]
  /\ \A g \in DOMAIN t :
       /\ u[g].next_sequence = t[g].next_sequence
       /\ u[g].chunks_total = t[g].chunks_total

\* A statement on `files` that is not a create, an append or a delete keeps the
\* keys and the sequence counters.
LEMMA StatusStatementsKeepUploads ==
  ASSUME NEW t, t \in [DOMAIN t -> FileRow], NEW f, NEW n \in Nat,
         NEW from, NEW to \in UploadStatus, NEW verdict \in ProcessingStatus
  PROVE  /\ SameUploads(t, MarkCompleted(t, f))
         /\ SameUploads(t, MarkProcessingStarted(t, f))
         /\ SameUploads(t, RecordIndexed(t, f, n))
         /\ SameUploads(t, RecordFailed(t, f, n))
         /\ SameUploads(t, SetProcessingStatus(t, f, verdict))
         /\ SameUploads(t, MoveUploads(t, from, to))
<1>1. \A g \in DOMAIN t : t[g] \in FileRow
  OBVIOUS
<1>2. SameUploads(t, MarkCompleted(t, f))
  BY <1>1 DEF SameUploads, MarkCompleted, FileRow, UploadStatus
<1>3. SameUploads(t, MarkProcessingStarted(t, f))
  BY <1>1 DEF SameUploads, MarkProcessingStarted, FileRow, ProcessingStatus
<1>4. SameUploads(t, RecordIndexed(t, f, n))
  BY <1>1 DEF SameUploads, RecordIndexed, FileRow
<1>5. SameUploads(t, RecordFailed(t, f, n))
  BY <1>1 DEF SameUploads, RecordFailed, FileRow
<1>6. SameUploads(t, SetProcessingStatus(t, f, verdict))
  BY <1>1 DEF SameUploads, SetProcessingStatus, FileRow
<1>7. SameUploads(t, MoveUploads(t, from, to))
  BY <1>1 DEF SameUploads, MoveUploads, FileRow
<1>8. QED
  BY <1>2, <1>3, <1>4, <1>5, <1>6, <1>7

\* Two such statements in a row do, too.
LEMMA SameUploadsTransitive ==
  ASSUME NEW t, NEW u, NEW v, SameUploads(t, u), SameUploads(u, v)
  PROVE  SameUploads(t, v)
BY DEF SameUploads

\* _refresh_processing_status is such a statement.
LEMMA RefreshKeepsUploads ==
  ASSUME NEW t, t \in [DOMAIN t -> FileRow], NEW f
  PROVE  SameUploads(t, Refresh(t, f))
<1>1. SameUploads(t, t)
  BY DEF SameUploads
<1>2. /\ SameUploads(t, SetProcessingStatus(t, f, "completed"))
      /\ SameUploads(t, SetProcessingStatus(t, f, "failed"))
  BY StatusStatementsKeepUploads DEF UploadStatus, ProcessingStatus
<1>3. \/ Refresh(t, f) = t
      \/ Refresh(t, f) = SetProcessingStatus(t, f, "completed")
      \/ Refresh(t, f) = SetProcessingStatus(t, f, "failed")
  BY DEF Refresh
<1>4. QED
  BY <1>1, <1>2, <1>3

\* Two updates that keep the immutable columns of `chunks`, in a row, do.
LEMMA SameRowsTransitive ==
  ASSUME NEW t, NEW u, NEW v, SameRows(t, u), SameRows(u, v)
  PROVE  SameRows(t, v)
BY DEF SameRows

\* What a call of the upload path cuts is a finite sequence of passages.
LEMMA PassagesAreSequences ==
  ASSUME NEW ps \in Passages
  PROVE  ps \in Seq(Passage) /\ Len(ps) \in Nat
<1>1. PICK n \in 0..MaxPassages : ps \in [1..n -> Passage]
  BY DEF Passages
<1>2. n \in Nat
  BY BoundAssumption
<1>3. ps \in Seq(Passage)
  BY <1>1, <1>2, SeqDef
<1>4. QED
  BY <1>3

\* u is t with a pending row of f for each of n passages, in order under the
\* keys that follow `last`.
AddsPending(t, u, last, f, n, start) ==
  /\ DOMAIN u = DOMAIN t \cup (last + 1)..(last + n)
  /\ u \in [DOMAIN u -> ChunkRow]
  /\ \A c \in DOMAIN t : u[c] = t[c]
  /\ \A c \in (last + 1)..(last + n) :
       /\ u[c].file_id = f
       /\ u[c].sequence = start + (c - last) - 1
       /\ u[c].status = "pending"
       /\ u[c].retry_count = 0

\* An insert whose sequences are new skips none of its passages.
LEMMA InsertedRows ==
  ASSUME NEW t, t \in [DOMAIN t -> ChunkRow],
         NEW last \in Nat, DOMAIN t \subseteq 1..last,
         NEW f \in FileId, NEW ps \in Seq(Passage), NEW start \in Nat,
         \A c \in Rows(t, f) : t[c].sequence < start
  PROVE  AddsPending(t, InsertPending(t, last, f, ps, start), last, f, Len(ps), start)
<1> DEFINE u == InsertPending(t, last, f, ps, start)
           taken == {t[c].sequence : c \in Rows(t, f)}
           slots == {k \in 1..Len(ps) : start + k - 1 \notin taken}
           new == {last + i : i \in slots}
<1>1. \A q \in taken : q < start
  OBVIOUS
<1>2. slots = 1..Len(ps)
  BY <1>1
<1>3. new = (last + 1)..(last + Len(ps))
  <2>1. \A x \in (last + 1)..(last + Len(ps)) : x - last \in 1..Len(ps) /\ x = last + (x - last)
    OBVIOUS
  <2>2. \A i \in 1..Len(ps) : last + i \in (last + 1)..(last + Len(ps))
    OBVIOUS
  <2>3. new = {last + i : i \in 1..Len(ps)}
    BY <1>2
  <2> HIDE DEF new
  <2>4. QED
    BY <2>1, <2>2, <2>3
<1>4. u = [c \in DOMAIN t \cup new |->
             IF c \in DOMAIN t THEN t[c]
             ELSE PendingRow(f, start + (c - last) - 1, ps[c - last])]
  BY DEF InsertPending
<1> HIDE DEF new, u
<1>5. /\ DOMAIN u = DOMAIN t \cup (last + 1)..(last + Len(ps))
      /\ \A c \in DOMAIN t : u[c] = t[c]
      /\ \A c \in (last + 1)..(last + Len(ps)) :
           u[c] = PendingRow(f, start + (c - last) - 1, ps[c - last])
  <2>1. \A c \in (last + 1)..(last + Len(ps)) : c \notin DOMAIN t
    OBVIOUS
  <2>2. QED
    BY <1>3, <1>4, <2>1
<1>6. ASSUME NEW c \in DOMAIN u
      PROVE  u[c] \in ChunkRow
  <2>1. CASE c \in DOMAIN t
    BY <1>5, <2>1
  <2>2. CASE c \in (last + 1)..(last + Len(ps))
    <3>1. /\ c - last \in 1..Len(ps)
          /\ start + (c - last) - 1 \in Nat
      BY <2>2
    <3>2. ps[c - last] \in Passage
      BY <3>1
    <3>3. u[c] = PendingRow(f, start + (c - last) - 1, ps[c - last])
      BY <1>5, <2>2
    <3>4. QED
      BY <3>1, <3>2, <3>3 DEF PendingRow, ChunkRow, ChunkStatus
  <2>3. QED
    BY <1>5, <2>1, <2>2
<1>7. u \in [DOMAIN u -> ChunkRow]
  <2>1. u = [c \in DOMAIN u |-> u[c]]
    BY <1>4
  <2>2. QED
    BY <1>6, <2>1
<1>8. ASSUME NEW c \in (last + 1)..(last + Len(ps))
      PROVE  /\ u[c].file_id = f
             /\ u[c].sequence = start + (c - last) - 1
             /\ u[c].status = "pending"
             /\ u[c].retry_count = 0
  <2>1. u[c] = PendingRow(f, start + (c - last) - 1, ps[c - last])
    BY <1>5
  <2>2. QED
    BY <2>1 DEF PendingRow
<1>9. AddsPending(t, u, last, f, Len(ps), start)
  BY <1>5, <1>7, <1>8 DEF AddsPending
<1>10. QED
  BY <1>9 DEF u

----------------------------------------------------------------------------
(* The invariant: steps that only update rows *)

TablesTyped ==
  /\ used_ids \in SUBSET FileId
  /\ DOMAIN files \subseteq used_ids
  /\ files \in [DOMAIN files -> FileRow]
  /\ last_chunk_id \in Nat
  /\ DOMAIN chunks \subseteq 1..last_chunk_id
  /\ chunks \in [DOMAIN chunks -> ChunkRow]

\* After updates in place the facts about keys, sequences and files still hold.
LEMMA UpdatesKeepTables ==
  ASSUME TablesTyped, RowsHaveFiles, SequencesAreDense,
         SameRows(chunks, chunks'), SameUploads(files, files'),
         UNCHANGED <<last_chunk_id, used_ids>>
  PROVE  TablesTyped' /\ RowsHaveFiles' /\ SequencesAreDense'
<1>1. TablesTyped'
  BY DEF TablesTyped, SameRows, SameUploads
<1>2. RowsHaveFiles'
  BY DEF RowsHaveFiles, SameRows, SameUploads
<1>3. ASSUME NEW f \in DOMAIN files'
      PROVE  /\ {chunks'[c].sequence : c \in Rows(chunks', f)}
                  = 0..(files'[f].next_sequence - 1)
             /\ \A c, d \in Rows(chunks', f) :
                  chunks'[c].sequence = chunks'[d].sequence => c = d
             /\ files'[f].chunks_total = files'[f].next_sequence
  <2>1. f \in DOMAIN files /\ files'[f].next_sequence = files[f].next_sequence
                           /\ files'[f].chunks_total = files[f].chunks_total
    BY <1>3 DEF SameUploads
  <2>2. Rows(chunks', f) = Rows(chunks, f)
    BY DEF Rows, SameRows
  <2>3. \A c \in Rows(chunks, f) : chunks'[c].sequence = chunks[c].sequence
    BY DEF Rows, SameRows
  <2>4. {chunks'[c].sequence : c \in Rows(chunks', f)}
          = {chunks[c].sequence : c \in Rows(chunks, f)}
    BY <2>2, <2>3
  <2>5. QED
    BY <2>1, <2>2, <2>3, <2>4 DEF SequencesAreDense
<1>4. SequencesAreDense'
  BY <1>3 DEF SequencesAreDense
<1>5. QED
  BY <1>1, <1>2, <1>4

\* The type invariant, one variable at a time.
LEMMA TypeOKParts ==
  /\ TypeOK <=>
       /\ TablesTyped
       /\ jobs \in [Worker -> SUBSET Job]
       /\ emptied \in [Worker -> SUBSET Job]
       /\ running \in BOOLEAN
       /\ stranded \in SUBSET Nat
       /\ crashes \in Nat
       /\ db_faults \in Nat
BY DEF TypeOK, TablesTyped

\* The second transaction of /complete touches one column of `files`.
LEMMA FinishCompleteStep ==
  ASSUME IInv, NEW f \in FileId, FinishComplete(f)
  PROVE  IInv'
<1>1. SameUploads(files, files')
  <2>1. files \in [DOMAIN files -> FileRow]
    BY DEF IInv, TypeOK
  <2>2. 0 \in Nat /\ "completed" \in UploadStatus /\ "completed" \in ProcessingStatus
    BY DEF UploadStatus, ProcessingStatus
  <2>3. SameUploads(files, MarkCompleted(files, f))
    BY <2>1, <2>2, StatusStatementsKeepUploads
  <2>4. QED
    BY <2>3 DEF FinishComplete
<1>2. UNCHANGED <<chunks, last_chunk_id, used_ids, jobs, emptied, running, stranded,
                  crashes, db_faults>>
  BY DEF FinishComplete, memory, faults
<1>3. SameRows(chunks, chunks')
  BY <1>2 DEF SameRows, IInv, TypeOK
<1>4. TablesTyped' /\ RowsHaveFiles' /\ SequencesAreDense'
  BY <1>1, <1>2, <1>3, TypeOKParts, UpdatesKeepTables DEF IInv
<1>5. TypeOK'
  BY <1>2, <1>4, TypeOKParts DEF IInv, TypeOK, TablesTyped
<1>6. BatchesAreWhole' /\ ClaimsAreExclusive' /\ JobsMirrorRows' /\ NothingIsLost' /\ RetryBudget'
  BY <1>2 DEF IInv, BatchesAreWhole, ClaimsAreExclusive, JobsMirrorRows, ChunkJob,
              NothingIsLost, RetryBudget
<1>7. QED
  BY <1>4, <1>5, <1>6 DEF IInv

----------------------------------------------------------------------------
(* The invariant: the steps of a worker *)

\* JobsMirrorRows for one worker.
Mirrors(w) ==
  \A j \in jobs[w] :
    j.chunk_id \in DOMAIN chunks =>
      /\ j = ChunkJob(j.chunk_id)
      /\ chunks[j.chunk_id].status =
           IF j \in emptied[w] THEN "indexed" ELSE "processing"

\* What a worker does to the rows of its own batch is invisible to the others.
LEMMA OtherBatchesMirrorRows ==
  ASSUME IInv, NEW w \in Worker, NEW v \in Worker, v # w,
         SameRows(chunks, chunks'),
         \A c \in DOMAIN chunks \ Ids(jobs[w]) : chunks'[c] = chunks[c],
         jobs'[v] = jobs[v], emptied'[v] = emptied[v]
  PROVE  Mirrors(v)'
<1> SUFFICES ASSUME NEW j \in jobs[v], j.chunk_id \in DOMAIN chunks
             PROVE  /\ j = ChunkJob(j.chunk_id)'
                    /\ chunks'[j.chunk_id].status =
                         IF j \in emptied[v] THEN "indexed" ELSE "processing"
  BY DEF Mirrors, SameRows
<1>1. j.chunk_id \notin Ids(jobs[w])
  BY DEF IInv, ClaimsAreExclusive, Ids
<1>2. chunks'[j.chunk_id] = chunks[j.chunk_id]
  BY <1>1
<1>3. j = ChunkJob(j.chunk_id) /\ chunks[j.chunk_id].status =
                         IF j \in emptied[v] THEN "indexed" ELSE "processing"
  BY DEF IInv, JobsMirrorRows
<1>4. QED
  BY <1>2, <1>3 DEF ChunkJob

\* A worker that lets its batch go keeps the batches of the others right.
LEMMA ReleaseKeepsBatches ==
  ASSUME IInv, NEW w \in Worker,
         jobs' = [jobs EXCEPT ![w] = {}],
         emptied' = [emptied EXCEPT ![w] = {}],
         UNCHANGED <<last_chunk_id, running>>,
         SameRows(chunks, chunks'),
         \A c \in DOMAIN chunks \ Ids(jobs[w]) : chunks'[c] = chunks[c]
  PROVE  /\ jobs' \in [Worker -> SUBSET Job]
         /\ emptied' \in [Worker -> SUBSET Job]
         /\ BatchesAreWhole' /\ ClaimsAreExclusive' /\ JobsMirrorRows'
<1>1. /\ jobs \in [Worker -> SUBSET Job]
      /\ emptied \in [Worker -> SUBSET Job]
  BY DEF IInv, TypeOK
<1>2. /\ jobs' \in [Worker -> SUBSET Job]
      /\ emptied' \in [Worker -> SUBSET Job]
  BY <1>1
<1>3. BatchesAreWhole'
  BY <1>1, FS_EmptySet DEF IInv, BatchesAreWhole
<1>4. ClaimsAreExclusive'
  BY <1>1 DEF IInv, ClaimsAreExclusive, Ids
<1>5. ASSUME NEW v \in Worker PROVE Mirrors(v)'
  <2>1. CASE v = w
    BY <1>1, <2>1 DEF Mirrors
  <2>2. CASE v # w
    BY <1>1, <2>2, OtherBatchesMirrorRows
  <2>3. QED
    BY <2>1, <2>2
<1>6. JobsMirrorRows'
  BY <1>5 DEF Mirrors, JobsMirrorRows
<1>7. QED
  BY <1>2, <1>3, <1>4, <1>6

\* The keys of a batch that still have rows.
LEMMA BatchRows ==
  ASSUME IInv, NEW w \in Worker, NEW c \in DOMAIN chunks, NEW j \in jobs[w],
         c = j.chunk_id
  PROVE  /\ j = ChunkJob(c)
         /\ j.retry_count = chunks[c].retry_count
         /\ j \in emptied[w] => chunks[c].status = "indexed"
         /\ j \notin emptied[w] => chunks[c].status = "processing"
         /\ chunks[c].retry_count < MAX_RETRIES
<1>1. /\ j = ChunkJob(c)
      /\ chunks[c].status = IF j \in emptied[w] THEN "indexed" ELSE "processing"
  BY DEF IInv, JobsMirrorRows
<1>2. chunks[c].status # "failed"
  BY <1>1
<1>3. chunks[c].retry_count \in Nat
  BY DEF IInv, TypeOK, ChunkRow
<1>4. chunks[c].retry_count < MAX_RETRIES
  BY <1>2, <1>3, RetryAssumption DEF IInv, RetryBudget
<1>5. j.retry_count = chunks[c].retry_count
  BY <1>1 DEF ChunkJob
<1>6. QED
  BY <1>1, <1>4, <1>5

\* A batch given up by a raising fail_batch leaves its rows to `stranded`.
LEMMA AbandonBatchStep ==
  ASSUME IInv, NEW w \in Worker, AbandonBatch(w)
  PROVE  IInv'
<1>1. /\ UNCHANGED <<files, chunks, last_chunk_id, used_ids, running, crashes>>
      /\ jobs' = [jobs EXCEPT ![w] = {}]
      /\ emptied' = [emptied EXCEPT ![w] = {}]
      /\ stranded' = stranded \cup Ids(jobs[w] \ emptied[w])
      /\ db_faults' = db_faults + 1
  BY DEF AbandonBatch, tables
<1>2. SameRows(chunks, chunks') /\ SameUploads(files, files')
  BY <1>1 DEF SameRows, SameUploads, IInv, TypeOK
<1>3. TablesTyped' /\ RowsHaveFiles' /\ SequencesAreDense'
  BY <1>1, <1>2, TypeOKParts, UpdatesKeepTables DEF IInv
<1>4. /\ jobs' \in [Worker -> SUBSET Job]
      /\ emptied' \in [Worker -> SUBSET Job]
      /\ BatchesAreWhole' /\ ClaimsAreExclusive' /\ JobsMirrorRows'
  BY <1>1, <1>2, ReleaseKeepsBatches
<1>5. TypeOK'
  <2>1. Ids(jobs[w] \ emptied[w]) \subseteq Nat
    BY DEF IInv, TypeOK, Ids, Job
  <2>2. stranded \in SUBSET Nat /\ db_faults \in Nat /\ crashes \in Nat
    BY DEF IInv, TypeOK
  <2>3. stranded' \in SUBSET Nat
    BY <1>1, <2>1, <2>2
  <2>4. db_faults' \in Nat /\ crashes' \in Nat
    BY <1>1, <2>2
  <2>5. running' \in BOOLEAN
    BY <1>1, Zenon DEF IInv, TypeOK
  <2>6. QED
    BY <1>3, <1>4, <2>3, <2>4, <2>5 DEF TypeOK, TablesTyped
<1>6. NothingIsLost'
  <2> SUFFICES ASSUME running, NEW c \in DOMAIN chunks, chunks[c].status = "processing"
               PROVE  c \in stranded' \/ \E v \in Worker : c \in Ids(jobs'[v])
    BY <1>1 DEF NothingIsLost, WithStatus
  <2>1. c \in stranded \/ \E v \in Worker : c \in Ids(jobs[v])
    BY DEF IInv, NothingIsLost, WithStatus
  <2>2. CASE c \in stranded
    BY <1>1, <2>2
  <2>3. ASSUME NEW v \in Worker, c \in Ids(jobs[v]), v # w
        PROVE  c \in Ids(jobs'[v])
    BY <1>1, <2>3 DEF IInv, TypeOK
  <2>4. CASE c \in Ids(jobs[w])
    <3>1. PICK j \in jobs[w] : c = j.chunk_id
      BY <2>4 DEF Ids
    <3>2. j \notin emptied[w]
      BY <3>1, BatchRows
    <3>3. QED
      BY <1>1, <3>1, <3>2 DEF Ids
  <2>5. QED
    BY <2>1, <2>2, <2>3, <2>4
<1>7. RetryBudget'
  BY <1>1 DEF IInv, RetryBudget
<1>8. QED
  BY <1>3, <1>4, <1>5, <1>6, <1>7 DEF IInv

\* The number of jobs in a part of a batch is a natural number.
LEMMA BatchesAreCountable ==
  ASSUME IInv, NEW w \in Worker, NEW batch \in SUBSET jobs[w]
  PROVE  Cardinality(batch) \in Nat
BY FS_Subset, FS_CardinalityType DEF IInv, BatchesAreWhole

\* complete_batch keeps both tables well-typed and settles only its own rows.
LEMMA CompleteBatchTables ==
  ASSUME IInv, NEW w \in Worker, NEW batch \in SUBSET jobs[w],
         CompleteBatch(batch)
  PROVE  /\ SameUploads(files, files')
         /\ SameRows(chunks, chunks')
         /\ \A c \in DOMAIN chunks :
              /\ chunks'[c].retry_count = chunks[c].retry_count
              /\ chunks'[c].status =
                   IF c \in Ids(batch) THEN "indexed" ELSE chunks[c].status
         /\ \A c \in DOMAIN chunks \ Ids(batch) : chunks'[c] = chunks[c]
<1> DEFINE f == FileOf(batch)
           recorded == RecordIndexed(files, f, Cardinality(batch))
<1>1. files \in [DOMAIN files -> FileRow] /\ chunks \in [DOMAIN chunks -> ChunkRow]
  BY DEF IInv, TypeOK
<1>2. chunks' = SetStatus(chunks, Ids(batch), "indexed") /\ files' = Refresh(recorded, f)
  BY DEF CompleteBatch, MarkIndexed
<1>3. SameUploads(files, recorded)
  BY <1>1, BatchesAreCountable, StatusStatementsKeepUploads
     DEF UploadStatus, ProcessingStatus
<1>4. recorded \in [DOMAIN recorded -> FileRow]
  BY <1>3 DEF SameUploads
<1> HIDE DEF recorded, f
<1>5. SameUploads(files, files')
  BY <1>2, <1>3, <1>4, RefreshKeepsUploads, SameUploadsTransitive
<1>6. "indexed" \in ChunkStatus
  BY DEF ChunkStatus
<1>7. \A c \in DOMAIN chunks \ Ids(batch) : chunks'[c] = chunks[c]
  BY <1>2 DEF SetStatus
<1>8. QED
  BY <1>1, <1>2, <1>5, <1>6, <1>7, SetStatusColumns

\* A worker that completes the rest of its batch keeps the invariant.
LEMMA CompleteKeptStep ==
  ASSUME IInv, NEW w \in Worker, CompleteKept(w)
  PROVE  IInv'
<1> DEFINE kept == jobs[w] \ emptied[w]
<1>1. /\ UNCHANGED <<last_chunk_id, used_ids, running, stranded, crashes, db_faults>>
      /\ jobs' = [jobs EXCEPT ![w] = {}]
      /\ emptied' = [emptied EXCEPT ![w] = {}]
  BY DEF CompleteKept, faults
<1>2. /\ SameUploads(files, files')
      /\ SameRows(chunks, chunks')
      /\ \A c \in DOMAIN chunks :
           /\ chunks'[c].retry_count = chunks[c].retry_count
           /\ chunks'[c].status =
                IF c \in Ids(kept) THEN "indexed" ELSE chunks[c].status
      /\ \A c \in DOMAIN chunks \ Ids(kept) : chunks'[c] = chunks[c]
  BY CompleteBatchTables DEF CompleteKept
<1>3. TablesTyped' /\ RowsHaveFiles' /\ SequencesAreDense'
  BY <1>1, <1>2, TypeOKParts, UpdatesKeepTables DEF IInv
<1>4. /\ jobs' \in [Worker -> SUBSET Job]
      /\ emptied' \in [Worker -> SUBSET Job]
      /\ BatchesAreWhole' /\ ClaimsAreExclusive' /\ JobsMirrorRows'
  <2>1. Ids(kept) \subseteq Ids(jobs[w])
    BY DEF Ids
  <2>2. QED
    BY <1>1, <1>2, <2>1, ReleaseKeepsBatches
<1>5. TypeOK'
  <2>1. running' \in BOOLEAN
    BY <1>1, Zenon DEF IInv, TypeOK
  <2>2. stranded' \in SUBSET Nat /\ db_faults' \in Nat /\ crashes' \in Nat
    BY <1>1 DEF IInv, TypeOK
  <2>3. QED
    BY <1>3, <1>4, <2>1, <2>2 DEF TypeOK, TablesTyped
<1>6. NothingIsLost'
  <2> SUFFICES ASSUME running, NEW c \in DOMAIN chunks, chunks'[c].status = "processing"
               PROVE  c \in stranded \/ \E v \in Worker : c \in Ids(jobs'[v])
    BY <1>1, <1>2 DEF NothingIsLost, WithStatus, SameRows
  <2>1. c \notin Ids(kept) /\ chunks[c].status = "processing"
    BY <1>2
  <2>2. c \in stranded \/ \E v \in Worker : c \in Ids(jobs[v])
    BY <2>1 DEF IInv, NothingIsLost, WithStatus
  <2>3. c \notin Ids(jobs[w])
    <3> SUFFICES ASSUME NEW j \in jobs[w], c = j.chunk_id PROVE FALSE
      BY DEF Ids
    <3>1. j \in emptied[w]
      BY <2>1 DEF Ids
    <3>2. QED
      BY <2>1, <3>1, BatchRows
  <2>4. \A v \in Worker : v # w => jobs'[v] = jobs[v]
    BY <1>1 DEF IInv, TypeOK
  <2>5. QED
    BY <2>2, <2>3, <2>4
<1>7. RetryBudget'
  <2> SUFFICES ASSUME NEW c \in DOMAIN chunks
               PROVE  /\ chunks'[c].retry_count <= MAX_RETRIES
                      /\ chunks'[c].status = "failed" <=> chunks'[c].retry_count = MAX_RETRIES
    BY <1>2 DEF RetryBudget, SameRows
  <2>1. CASE c \in Ids(kept)
    <3>1. PICK j \in jobs[w] : c = j.chunk_id
      BY <2>1 DEF Ids
    <3>2. chunks[c].retry_count < MAX_RETRIES
      BY <3>1, BatchRows
    <3>3. chunks[c].retry_count \in Nat
      BY DEF IInv, TypeOK, ChunkRow
    <3>4. QED
      BY <1>2, <2>1, <3>2, <3>3, RetryAssumption
  <2>2. CASE c \notin Ids(kept)
    BY <1>2, <2>2 DEF IInv, RetryBudget
  <2>3. QED
    BY <2>1, <2>2
<1>8. QED
  BY <1>3, <1>4, <1>5, <1>6, <1>7 DEF IInv

\* A worker that completes its empty reads keeps the invariant.
LEMMA CompleteEmptyStep ==
  ASSUME IInv, NEW w \in Worker, NEW empty \in SUBSET jobs[w], CompleteEmpty(w, empty)
  PROVE  IInv'
<1>1. /\ UNCHANGED <<last_chunk_id, used_ids, running, stranded, crashes, db_faults>>
      /\ emptied[w] = {}
      /\ jobs' = [jobs EXCEPT ![w] = IF empty = jobs[w] THEN {} ELSE jobs[w]]
      /\ emptied' = [emptied EXCEPT ![w] = IF empty = jobs[w] THEN {} ELSE empty]
  BY DEF CompleteEmpty, faults
<1>2. /\ SameUploads(files, files')
      /\ SameRows(chunks, chunks')
      /\ \A c \in DOMAIN chunks :
           /\ chunks'[c].retry_count = chunks[c].retry_count
           /\ chunks'[c].status =
                IF c \in Ids(empty) THEN "indexed" ELSE chunks[c].status
      /\ \A c \in DOMAIN chunks \ Ids(empty) : chunks'[c] = chunks[c]
  BY CompleteBatchTables DEF CompleteEmpty
<1>3. TablesTyped' /\ RowsHaveFiles' /\ SequencesAreDense'
  BY <1>1, <1>2, TypeOKParts, UpdatesKeepTables DEF IInv
<1>4. /\ jobs \in [Worker -> SUBSET Job]
      /\ emptied \in [Worker -> SUBSET Job]
  BY DEF IInv, TypeOK
<1>5. /\ jobs' \in [Worker -> SUBSET Job]
      /\ emptied' \in [Worker -> SUBSET Job]
  BY <1>1, <1>4
<1>6. /\ jobs'[w] = IF empty = jobs[w] THEN {} ELSE jobs[w]
      /\ emptied'[w] = IF empty = jobs[w] THEN {} ELSE empty
      /\ \A v \in Worker : v # w => jobs'[v] = jobs[v] /\ emptied'[v] = emptied[v]
  BY <1>1, <1>4
<1>7. Ids(empty) \subseteq Ids(jobs[w])
  BY DEF Ids
<1>8. TypeOK'
  <2>1. running' \in BOOLEAN
    BY <1>1, Zenon DEF IInv, TypeOK
  <2>2. stranded' \in SUBSET Nat /\ db_faults' \in Nat /\ crashes' \in Nat
    BY <1>1 DEF IInv, TypeOK
  <2>3. QED
    BY <1>3, <1>5, <2>1, <2>2 DEF TypeOK, TablesTyped
<1>9. BatchesAreWhole'
  <2> SUFFICES ASSUME NEW v \in Worker
               PROVE  /\ IsFiniteSet(jobs'[v])
                      /\ emptied'[v] \subseteq jobs'[v]
                      /\ \A j \in jobs'[v] : j.chunk_id <= last_chunk_id
                      /\ running \/ jobs'[v] = {}
    BY <1>1 DEF BatchesAreWhole
  <2>1. CASE v = w
    BY <1>6, <2>1, FS_EmptySet DEF IInv, BatchesAreWhole
  <2>2. CASE v # w
    BY <1>6, <2>2 DEF IInv, BatchesAreWhole
  <2>3. QED
    BY <2>1, <2>2
<1>10. ClaimsAreExclusive'
  <2>1. \A v \in Worker : jobs'[v] \subseteq jobs[v]
    BY <1>6
  <2>2. \A v \in Worker : Ids(jobs'[v]) \subseteq Ids(jobs[v])
    BY <2>1 DEF Ids
  <2>3. QED
    BY <2>2 DEF IInv, ClaimsAreExclusive, Ids
<1>11. JobsMirrorRows'
  <2>1. Mirrors(w)'
    <3> SUFFICES ASSUME NEW j \in jobs'[w], j.chunk_id \in DOMAIN chunks
                 PROVE  /\ j = ChunkJob(j.chunk_id)'
                        /\ chunks'[j.chunk_id].status =
                             IF j \in emptied'[w] THEN "indexed" ELSE "processing"
      BY <1>2 DEF Mirrors, SameRows
    <3>1. j \in jobs[w] /\ emptied'[w] = empty
      BY <1>6
    <3>2. j = ChunkJob(j.chunk_id) /\ chunks[j.chunk_id].status = "processing"
      BY <1>1, <3>1 DEF IInv, JobsMirrorRows
    <3>3. j = ChunkJob(j.chunk_id)'
      BY <1>2, <3>2 DEF ChunkJob, SameRows
    <3>4. j.chunk_id \in Ids(empty) <=> j \in empty
      <4>1. ASSUME NEW k \in empty, k.chunk_id = j.chunk_id PROVE k = j
        BY <3>2, <4>1 DEF IInv, JobsMirrorRows
      <4>2. QED
        BY <4>1 DEF Ids
    <3>5. QED
      BY <1>2, <3>1, <3>2, <3>3, <3>4
  <2>2. ASSUME NEW v \in Worker, v # w PROVE Mirrors(v)'
    BY <1>2, <1>6, <1>7, <2>2, OtherBatchesMirrorRows
  <2>3. QED
    BY <2>1, <2>2 DEF Mirrors, JobsMirrorRows
<1>12. NothingIsLost'
  <2> SUFFICES ASSUME running, NEW c \in DOMAIN chunks, chunks'[c].status = "processing"
               PROVE  c \in stranded \/ \E v \in Worker : c \in Ids(jobs'[v])
    BY <1>1, <1>2 DEF NothingIsLost, WithStatus, SameRows
  <2>1. c \notin Ids(empty) /\ chunks[c].status = "processing"
    BY <1>2
  <2>2. c \in stranded \/ \E v \in Worker : c \in Ids(jobs[v])
    BY <2>1 DEF IInv, NothingIsLost, WithStatus
  <2>3. c \in Ids(jobs[w]) => c \in Ids(jobs'[w])
    BY <1>6, <2>1
  <2>4. QED
    BY <1>6, <2>2, <2>3
<1>13. RetryBudget'
  <2> SUFFICES ASSUME NEW c \in DOMAIN chunks
               PROVE  /\ chunks'[c].retry_count <= MAX_RETRIES
                      /\ chunks'[c].status = "failed" <=> chunks'[c].retry_count = MAX_RETRIES
    BY <1>2 DEF RetryBudget, SameRows
  <2>1. CASE c \in Ids(empty)
    <3>1. PICK j \in jobs[w] : c = j.chunk_id
      BY <2>1 DEF Ids
    <3>2. chunks[c].retry_count < MAX_RETRIES
      BY <3>1, BatchRows
    <3>3. chunks[c].retry_count \in Nat
      BY DEF IInv, TypeOK, ChunkRow
    <3>4. QED
      BY <1>2, <2>1, <3>2, <3>3, RetryAssumption
  <2>2. CASE c \notin Ids(empty)
    BY <1>2, <2>2 DEF IInv, RetryBudget
  <2>3. QED
    BY <2>1, <2>2
<1>14. QED
  BY <1>3, <1>8, <1>9, <1>10, <1>11, <1>12, <1>13 DEF IInv

\* Which rows fail_batch touches, and how.
LEMMA FailBatchTables ==
  ASSUME IInv, NEW w \in Worker, FailBatch(w)
  PROVE  /\ SameUploads(files, files')
         /\ SameRows(chunks, chunks')
         /\ \A c \in DOMAIN chunks \cap Ids(jobs[w]) :
              /\ chunks'[c].retry_count = chunks[c].retry_count + 1
              /\ chunks'[c].status =
                   IF chunks[c].retry_count + 1 < MAX_RETRIES THEN "pending" ELSE "failed"
         /\ \A c \in DOMAIN chunks \ Ids(jobs[w]) : chunks'[c] = chunks[c]
<1> DEFINE retryable == Retryable(jobs[w])
           exhausted == jobs[w] \ retryable
           f == FileOf(jobs[w])
           recorded == RecordFailed(files, f, Cardinality(exhausted))
           retried == SetStatusAfterAttempt(chunks, Ids(retryable), "pending")
<1>1. files \in [DOMAIN files -> FileRow] /\ chunks \in [DOMAIN chunks -> ChunkRow]
  BY DEF IInv, TypeOK
<1>2. /\ chunks' = SetStatusAfterAttempt(retried, Ids(exhausted), "failed")
      /\ files' = Refresh(recorded, f)
  BY DEF FailBatch, MarkFailed, MarkPendingRetry
<1>3. SameUploads(files, recorded)
  BY <1>1, BatchesAreCountable, StatusStatementsKeepUploads
     DEF UploadStatus, ProcessingStatus
<1>4. recorded \in [DOMAIN recorded -> FileRow]
  BY <1>3 DEF SameUploads
<1>5. "pending" \in ChunkStatus /\ "failed" \in ChunkStatus
  BY DEF ChunkStatus
<1>6. /\ SameRows(chunks, retried)
      /\ \A c \in DOMAIN chunks :
           /\ retried[c].retry_count =
                IF c \in Ids(retryable)
                THEN chunks[c].retry_count + 1 ELSE chunks[c].retry_count
           /\ retried[c].status =
                IF c \in Ids(retryable) THEN "pending" ELSE chunks[c].status
  BY <1>1, <1>5, SetStatusAfterAttemptColumns
<1>7. \A c \in DOMAIN chunks \ Ids(retryable) : retried[c] = chunks[c]
  BY DEF SetStatusAfterAttempt
<1>8. \A c \in DOMAIN chunks \cap Ids(jobs[w]) :
        /\ c \in Ids(retryable) <=> chunks[c].retry_count + 1 < MAX_RETRIES
        /\ c \in Ids(exhausted) <=> ~(chunks[c].retry_count + 1 < MAX_RETRIES)
  <2>1. ASSUME NEW c \in DOMAIN chunks, NEW j \in jobs[w], c = j.chunk_id
        PROVE  j = ChunkJob(c) /\ j.retry_count = chunks[c].retry_count
    BY <2>1, BatchRows
  <2>2. QED
    BY <2>1 DEF Ids, Retryable
<1>9. Ids(jobs[w]) = Ids(retryable) \cup Ids(exhausted)
  BY DEF Ids, Retryable
<1> HIDE DEF recorded, f, retried, retryable, exhausted
<1>10. SameUploads(files, files')
  BY <1>2, <1>3, <1>4, RefreshKeepsUploads, SameUploadsTransitive
<1>11. retried \in [DOMAIN retried -> ChunkRow] /\ DOMAIN retried = DOMAIN chunks
  BY <1>6 DEF SameRows
<1>12. /\ SameRows(retried, chunks')
       /\ \A c \in DOMAIN chunks :
           /\ chunks'[c].retry_count =
                IF c \in Ids(exhausted)
                THEN retried[c].retry_count + 1 ELSE retried[c].retry_count
           /\ chunks'[c].status =
                IF c \in Ids(exhausted) THEN "failed" ELSE retried[c].status
  BY <1>2, <1>5, <1>11, SetStatusAfterAttemptColumns
<1>13. SameRows(chunks, chunks')
  BY <1>6, <1>12, SameRowsTransitive
<1>14. \A c \in DOMAIN chunks \ Ids(exhausted) : chunks'[c] = retried[c]
  BY <1>2, <1>11 DEF SetStatusAfterAttempt
<1>15. ASSUME NEW c \in DOMAIN chunks \cap Ids(jobs[w])
       PROVE  /\ chunks'[c].retry_count = chunks[c].retry_count + 1
              /\ chunks'[c].status =
                   IF chunks[c].retry_count + 1 < MAX_RETRIES THEN "pending" ELSE "failed"
  BY <1>6, <1>8, <1>12
<1>16. \A c \in DOMAIN chunks \ Ids(jobs[w]) : chunks'[c] = chunks[c]
  BY <1>7, <1>9, <1>14
<1>17. QED
  BY <1>10, <1>13, <1>15, <1>16

\* A worker whose batch failed keeps the invariant.
LEMMA FailBatchStep ==
  ASSUME IInv, NEW w \in Worker, FailBatch(w)
  PROVE  IInv'
<1>1. /\ UNCHANGED <<last_chunk_id, used_ids, running, stranded, crashes, db_faults>>
      /\ jobs' = [jobs EXCEPT ![w] = {}]
      /\ emptied' = [emptied EXCEPT ![w] = {}]
  BY DEF FailBatch, faults
<1>2. /\ SameUploads(files, files')
      /\ SameRows(chunks, chunks')
      /\ \A c \in DOMAIN chunks \cap Ids(jobs[w]) :
           /\ chunks'[c].retry_count = chunks[c].retry_count + 1
           /\ chunks'[c].status =
                IF chunks[c].retry_count + 1 < MAX_RETRIES THEN "pending" ELSE "failed"
      /\ \A c \in DOMAIN chunks \ Ids(jobs[w]) : chunks'[c] = chunks[c]
  BY FailBatchTables
<1>3. TablesTyped' /\ RowsHaveFiles' /\ SequencesAreDense'
  BY <1>1, <1>2, TypeOKParts, UpdatesKeepTables DEF IInv
<1>4. /\ jobs' \in [Worker -> SUBSET Job]
      /\ emptied' \in [Worker -> SUBSET Job]
      /\ BatchesAreWhole' /\ ClaimsAreExclusive' /\ JobsMirrorRows'
  BY <1>1, <1>2, ReleaseKeepsBatches
<1>5. TypeOK'
  <2>1. running' \in BOOLEAN
    BY <1>1, Zenon DEF IInv, TypeOK
  <2>2. stranded' \in SUBSET Nat /\ db_faults' \in Nat /\ crashes' \in Nat
    BY <1>1 DEF IInv, TypeOK
  <2>3. QED
    BY <1>3, <1>4, <2>1, <2>2 DEF TypeOK, TablesTyped
<1>6. NothingIsLost'
  <2> SUFFICES ASSUME running, NEW c \in DOMAIN chunks, chunks'[c].status = "processing"
               PROVE  c \in stranded \/ \E v \in Worker : c \in Ids(jobs'[v])
    BY <1>1, <1>2 DEF NothingIsLost, WithStatus, SameRows
  <2>1. c \notin Ids(jobs[w]) /\ chunks[c].status = "processing"
    BY <1>2
  <2>2. c \in stranded \/ \E v \in Worker : c \in Ids(jobs[v])
    BY <2>1 DEF IInv, NothingIsLost, WithStatus
  <2>3. \A v \in Worker : v # w => jobs'[v] = jobs[v]
    BY <1>1 DEF IInv, TypeOK
  <2>4. QED
    BY <2>1, <2>2, <2>3
<1>7. RetryBudget'
  <2> SUFFICES ASSUME NEW c \in DOMAIN chunks
               PROVE  /\ chunks'[c].retry_count <= MAX_RETRIES
                      /\ chunks'[c].status = "failed" <=> chunks'[c].retry_count = MAX_RETRIES
    BY <1>2 DEF RetryBudget, SameRows
  <2>1. CASE c \in Ids(jobs[w])
    <3>1. PICK j \in jobs[w] : c = j.chunk_id
      BY <2>1 DEF Ids
    <3>2. chunks[c].retry_count < MAX_RETRIES
      BY <3>1, BatchRows
    <3>3. chunks[c].retry_count \in Nat
      BY DEF IInv, TypeOK, ChunkRow
    <3>4. QED
      BY <1>2, <2>1, <3>2, <3>3, RetryAssumption
  <2>2. CASE c \notin Ids(jobs[w])
    BY <1>2, <2>2 DEF IInv, RetryBudget
  <2>3. QED
    BY <2>1, <2>2
<1>8. QED
  BY <1>3, <1>4, <1>5, <1>6, <1>7 DEF IInv

\* What a claim selects is a finite set of pending rows of one file.
LEMMA ClaimedRows ==
  ASSUME IInv, NEW f, NEW limit
  PROVE  LET ids == SelectPendingForFile(chunks, f, limit)
         IN /\ ids \subseteq DOMAIN chunks
            /\ \A c \in ids : chunks[c].status = "pending"
            /\ IsFiniteSet({ChunkJob(c) : c \in ids})
            /\ {ChunkJob(c) : c \in ids} \in SUBSET Job
            /\ Ids({ChunkJob(c) : c \in ids}) = ids
<1> DEFINE ids == SelectPendingForFile(chunks, f, limit)
           claimed == {ChunkJob(c) : c \in ids}
           copy == [c \in ids |-> ChunkJob(c)]
<1>1. /\ ids \subseteq DOMAIN chunks
      /\ \A c \in ids : chunks[c].status = "pending"
  BY DEF SelectPendingForFile, Rows, WithStatus
<1>2. DOMAIN chunks \subseteq 1..last_chunk_id /\ last_chunk_id \in Nat
  BY DEF IInv, TypeOK
<1> HIDE DEF ids
<1>3. IsFiniteSet(ids)
  <2>1. IsFiniteSet(1..last_chunk_id)
    BY <1>2, FS_Interval
  <2>2. ids \in SUBSET (1..last_chunk_id)
    BY <1>1, <1>2
  <2>3. QED
    BY <2>1, <2>2, FS_Subset
<1>4. copy \in Surjection(ids, claimed)
  BY DEF Surjection
<1>5. IsFiniteSet(claimed)
  BY <1>3, <1>4, FS_Surjection
<1>6. \A c \in ids : ChunkJob(c) \in Job
  <2> SUFFICES ASSUME NEW c \in ids PROVE ChunkJob(c) \in Job
    OBVIOUS
  <2>1. c \in Nat /\ chunks[c] \in ChunkRow
    BY <1>1, <1>2 DEF IInv, TypeOK
  <2>2. QED
    BY <2>1 DEF ChunkRow, ChunkJob, Job
<1>7. \A c \in ids : ChunkJob(c).chunk_id = c
  BY DEF ChunkJob
<1>8. Ids(claimed) = ids
  BY <1>7 DEF Ids
<1>9. QED
  BY <1>1, <1>5, <1>6, <1>8 DEF ids

\* A claim keeps the invariant: the rows it takes were in no batch.
LEMMA ClaimBatchStep ==
  ASSUME IInv, NEW w \in Worker, ClaimBatch(w)
  PROVE  IInv'
<1>1. PICK f, ids :
        /\ ids = SelectPendingForFile(chunks, f, CLAIM_BATCH_SIZE)
        /\ chunks' = SetStatus(chunks, ids, "processing")
        /\ files' = MarkProcessingStarted(files, f)
        /\ jobs' = [jobs EXCEPT ![w] = {ChunkJob(c) : c \in ids}]
  BY DEF ClaimBatch, MarkProcessing
<1>2. /\ UNCHANGED <<last_chunk_id, used_ids, emptied, running, stranded, crashes, db_faults>>
      /\ running
      /\ jobs[w] = {}
  BY DEF ClaimBatch, faults
<1> DEFINE claimed == {ChunkJob(c) : c \in ids}
<1>3. /\ ids \subseteq DOMAIN chunks
      /\ \A c \in ids : chunks[c].status = "pending"
      /\ IsFiniteSet(claimed)
      /\ claimed \in SUBSET Job
      /\ Ids(claimed) = ids
  BY <1>1, ClaimedRows
<1>4. /\ jobs \in [Worker -> SUBSET Job]
      /\ emptied \in [Worker -> SUBSET Job]
      /\ files \in [DOMAIN files -> FileRow]
      /\ chunks \in [DOMAIN chunks -> ChunkRow]
  BY DEF IInv, TypeOK
<1>5. /\ jobs'[w] = claimed
      /\ emptied[w] = {}
      /\ \A v \in Worker : v # w => jobs'[v] = jobs[v]
  BY <1>1, <1>2, <1>4 DEF IInv, BatchesAreWhole
<1>6. \A j \in claimed : j = ChunkJob(j.chunk_id) /\ j.chunk_id \in ids
  BY DEF ChunkJob
<1>7. jobs' \in [Worker -> SUBSET Job]
  BY <1>1, <1>3, <1>4
<1>8. SameUploads(files, files')
  <2>1. 0 \in Nat /\ "completed" \in UploadStatus /\ "completed" \in ProcessingStatus
    BY DEF UploadStatus, ProcessingStatus
  <2>2. QED
    BY <1>1, <1>4, <2>1, StatusStatementsKeepUploads
<1>9. "processing" \in ChunkStatus
  BY DEF ChunkStatus
<1>10. /\ SameRows(chunks, chunks')
       /\ \A c \in DOMAIN chunks :
            /\ chunks'[c].retry_count = chunks[c].retry_count
            /\ chunks'[c].status = IF c \in ids THEN "processing" ELSE chunks[c].status
  BY <1>1, <1>4, <1>9, SetStatusColumns
<1>11. \A c \in DOMAIN chunks \ ids : chunks'[c] = chunks[c]
  BY <1>1 DEF SetStatus
<1> HIDE DEF claimed
<1>12. TablesTyped' /\ RowsHaveFiles' /\ SequencesAreDense'
  BY <1>2, <1>8, <1>10, TypeOKParts, UpdatesKeepTables DEF IInv
<1>13. TypeOK'
  <2>1. running' \in BOOLEAN
    BY <1>2, Zenon DEF IInv, TypeOK
  <2>2. stranded' \in SUBSET Nat /\ db_faults' \in Nat /\ crashes' \in Nat
    BY <1>2 DEF IInv, TypeOK
  <2>3. emptied' \in [Worker -> SUBSET Job]
    BY <1>2, <1>4
  <2>4. QED
    BY <1>7, <1>12, <2>1, <2>2, <2>3 DEF TypeOK, TablesTyped
<1>14. BatchesAreWhole'
  <2> SUFFICES ASSUME NEW v \in Worker
               PROVE  /\ IsFiniteSet(jobs'[v])
                      /\ emptied[v] \subseteq jobs'[v]
                      /\ \A j \in jobs'[v] : j.chunk_id <= last_chunk_id
    BY <1>2 DEF BatchesAreWhole
  <2>1. CASE v = w
    <3>1. \A j \in claimed : j.chunk_id <= last_chunk_id
      BY <1>3, <1>6 DEF IInv, TypeOK
    <3>2. QED
      BY <1>3, <1>5, <2>1, <3>1
  <2>2. CASE v # w
    BY <1>5, <2>2 DEF IInv, BatchesAreWhole
  <2>3. QED
    BY <2>1, <2>2
<1>15. ASSUME NEW v \in Worker, v # w
       PROVE  ids \cap Ids(jobs[v]) = {}
  <2> SUFFICES ASSUME NEW j \in jobs[v], j.chunk_id \in ids PROVE FALSE
    BY DEF Ids
  <2>1. j.chunk_id \in DOMAIN chunks /\ chunks[j.chunk_id].status = "pending"
    BY <1>3
  <2>2. QED
    BY <2>1 DEF IInv, JobsMirrorRows
<1>16. ClaimsAreExclusive'
  <2> SUFFICES ASSUME NEW u \in Worker, NEW v \in Worker, u # v
               PROVE  Ids(jobs'[u]) \cap Ids(jobs'[v]) = {}
    BY DEF ClaimsAreExclusive, Ids
  <2>1. Ids(jobs'[w]) = ids
    BY <1>3, <1>5
  <2>2. CASE u # w /\ v # w
    BY <1>5, <2>2 DEF IInv, ClaimsAreExclusive
  <2>3. CASE u = w
    BY <1>5, <1>15, <2>1, <2>3
  <2>4. CASE v = w
    BY <1>5, <1>15, <2>1, <2>4
  <2>5. QED
    BY <2>2, <2>3, <2>4
<1>17. JobsMirrorRows'
  <2>1. Mirrors(w)'
    <3> SUFFICES ASSUME NEW j \in claimed
                 PROVE  /\ j = ChunkJob(j.chunk_id)'
                        /\ chunks'[j.chunk_id].status =
                             IF j \in emptied'[w] THEN "indexed" ELSE "processing"
      BY <1>5 DEF Mirrors
    <3>1. /\ j = ChunkJob(j.chunk_id)
          /\ j.chunk_id \in ids
          /\ j.chunk_id \in DOMAIN chunks
      BY <1>3, <1>6
    <3>2. j = ChunkJob(j.chunk_id)'
      BY <1>10, <3>1 DEF ChunkJob, SameRows
    <3>3. QED
      BY <1>2, <1>5, <1>10, <3>1, <3>2
  <2>2. ASSUME NEW v \in Worker, v # w PROVE Mirrors(v)'
    <3> SUFFICES ASSUME NEW j \in jobs[v], j.chunk_id \in DOMAIN chunks
                 PROVE  /\ j = ChunkJob(j.chunk_id)'
                        /\ chunks'[j.chunk_id].status =
                             IF j \in emptied[v] THEN "indexed" ELSE "processing"
      BY <1>2, <1>5, <1>10, <2>2 DEF Mirrors, SameRows
    <3>1. j.chunk_id \notin ids
      BY <1>15, <2>2 DEF Ids
    <3>2. chunks'[j.chunk_id] = chunks[j.chunk_id]
      BY <1>11, <3>1
    <3>3. QED
      BY <3>2 DEF IInv, JobsMirrorRows, ChunkJob
  <2>3. QED
    BY <2>1, <2>2 DEF Mirrors, JobsMirrorRows
<1>18. NothingIsLost'
  <2> SUFFICES ASSUME NEW c \in DOMAIN chunks, chunks'[c].status = "processing"
               PROVE  c \in stranded \/ \E v \in Worker : c \in Ids(jobs'[v])
    BY <1>2, <1>10 DEF NothingIsLost, WithStatus, SameRows
  <2>1. CASE c \in ids
    BY <1>3, <1>5, <2>1
  <2>2. CASE c \notin ids
    <3>1. c \in stranded \/ \E v \in Worker : c \in Ids(jobs[v])
      BY <1>2, <1>10, <2>2 DEF IInv, NothingIsLost, WithStatus
    <3>2. \A v \in Worker : c \in Ids(jobs[v]) => v # w
      BY <1>2 DEF Ids
    <3>3. QED
      BY <1>5, <3>1, <3>2
  <2>3. QED
    BY <2>1, <2>2
<1>19. RetryBudget'
  <2> SUFFICES ASSUME NEW c \in DOMAIN chunks
               PROVE  /\ chunks'[c].retry_count <= MAX_RETRIES
                      /\ chunks'[c].status = "failed" <=> chunks'[c].retry_count = MAX_RETRIES
    BY <1>10 DEF RetryBudget, SameRows
  <2>1. c \in ids => chunks[c].status # "failed"
    BY <1>3
  <2>2. QED
    BY <1>10, <2>1 DEF IInv, RetryBudget
<1>20. QED
  BY <1>12, <1>13, <1>14, <1>16, <1>17, <1>18, <1>19 DEF IInv

----------------------------------------------------------------------------
(* The invariant: the process *)

\* A crash loses the batches and keeps the tables.
LEMMA CrashStep ==
  ASSUME IInv, Crash
  PROVE  IInv'
<1>1. /\ UNCHANGED <<files, chunks, last_chunk_id, used_ids, stranded, db_faults>>
      /\ crashes' = crashes + 1
      /\ running' = FALSE
      /\ jobs' = [w \in Worker |-> {}]
      /\ emptied' = [w \in Worker |-> {}]
  BY DEF Crash, tables
<1>2. SameRows(chunks, chunks') /\ SameUploads(files, files')
  BY <1>1 DEF SameRows, SameUploads, IInv, TypeOK
<1>3. TablesTyped' /\ RowsHaveFiles' /\ SequencesAreDense'
  BY <1>1, <1>2, TypeOKParts, UpdatesKeepTables DEF IInv
<1>4. TypeOK'
  <2>1. stranded' \in SUBSET Nat /\ db_faults' \in Nat /\ crashes' \in Nat
    BY <1>1 DEF IInv, TypeOK
  <2>2. running' \in BOOLEAN
    BY <1>1
  <2>3. jobs' \in [Worker -> SUBSET Job] /\ emptied' \in [Worker -> SUBSET Job]
    BY <1>1
  <2>4. QED
    BY <1>3, <2>1, <2>2, <2>3 DEF TypeOK, TablesTyped
<1>5. BatchesAreWhole' /\ ClaimsAreExclusive' /\ JobsMirrorRows'
  BY <1>1, FS_EmptySet DEF BatchesAreWhole, ClaimsAreExclusive, JobsMirrorRows, Ids
<1>6. NothingIsLost' /\ RetryBudget'
  BY <1>1 DEF IInv, NothingIsLost, RetryBudget
<1>7. QED
  BY <1>3, <1>4, <1>5, <1>6 DEF IInv

\* Recovery puts back every row in `processing`: no worker holds any.
LEMMA RecoverStuckJobsStep ==
  ASSUME IInv, RecoverStuckJobs
  PROVE  IInv'
<1> DEFINE stuck == WithStatus(chunks, "processing")
           interrupted == MarkInterruptedUploads(files)
<1>1. /\ UNCHANGED <<last_chunk_id, used_ids, jobs, emptied, crashes, db_faults>>
      /\ ~running /\ running' = TRUE
      /\ chunks' = SetStatus(chunks, stuck, "pending")
      /\ files' = RevertStuckFinalizing(interrupted)
      /\ stranded' = {}
  BY DEF RecoverStuckJobs, memory, ResetStuckProcessing
<1>2. \A w \in Worker : jobs[w] = {} /\ emptied[w] = {}
  BY <1>1 DEF IInv, BatchesAreWhole
<1>3. SameUploads(files, files')
  <2>1. /\ "interrupted" \in UploadStatus /\ "uploading" \in UploadStatus
        /\ "completed" \in ProcessingStatus /\ 0 \in Nat
    BY DEF UploadStatus, ProcessingStatus
  <2>2. SameUploads(files, interrupted)
    BY <2>1, StatusStatementsKeepUploads DEF IInv, TypeOK, MarkInterruptedUploads
  <2>3. interrupted \in [DOMAIN interrupted -> FileRow]
    BY <2>2 DEF SameUploads
  <2> HIDE DEF interrupted
  <2>4. SameUploads(interrupted, files')
    BY <1>1, <2>1, <2>3, StatusStatementsKeepUploads DEF RevertStuckFinalizing
  <2>5. QED
    BY <2>2, <2>4, SameUploadsTransitive
<1>4. chunks \in [DOMAIN chunks -> ChunkRow] /\ "pending" \in ChunkStatus
  BY DEF IInv, TypeOK, ChunkStatus
<1>5. /\ SameRows(chunks, chunks')
      /\ \A c \in DOMAIN chunks :
           /\ chunks'[c].retry_count = chunks[c].retry_count
           /\ chunks'[c].status = IF c \in stuck THEN "pending" ELSE chunks[c].status
  BY <1>1, <1>4, SetStatusColumns
<1>6. TablesTyped' /\ RowsHaveFiles' /\ SequencesAreDense'
  BY <1>1, <1>3, <1>5, TypeOKParts, UpdatesKeepTables DEF IInv
<1>7. TypeOK'
  <2>1. db_faults' \in Nat /\ crashes' \in Nat
    BY <1>1 DEF IInv, TypeOK
  <2>2. running' \in BOOLEAN /\ stranded' \in SUBSET Nat
    BY <1>1
  <2>3. jobs' \in [Worker -> SUBSET Job] /\ emptied' \in [Worker -> SUBSET Job]
    BY <1>1 DEF IInv, TypeOK
  <2>4. QED
    BY <1>6, <2>1, <2>2, <2>3 DEF TypeOK, TablesTyped
<1>8. BatchesAreWhole' /\ ClaimsAreExclusive' /\ JobsMirrorRows'
  BY <1>1, <1>2, FS_EmptySet DEF BatchesAreWhole, ClaimsAreExclusive, JobsMirrorRows, Ids
<1>9. NothingIsLost'
  BY <1>5 DEF NothingIsLost, WithStatus, SameRows
<1>10. RetryBudget'
  <2> SUFFICES ASSUME NEW c \in DOMAIN chunks
               PROVE  /\ chunks'[c].retry_count <= MAX_RETRIES
                      /\ chunks'[c].status = "failed" <=> chunks'[c].retry_count = MAX_RETRIES
    BY <1>5 DEF RetryBudget, SameRows
  <2>1. c \in stuck => chunks[c].status # "failed"
    BY DEF WithStatus
  <2>2. QED
    BY <1>5, <2>1 DEF IInv, RetryBudget
<1>11. QED
  BY <1>6, <1>7, <1>8, <1>9, <1>10 DEF IInv

----------------------------------------------------------------------------
(* The invariant: the upload path *)

\* A new file has no rows, and its file_id was never drawn before.
LEMMA CreateUploadStep ==
  ASSUME IInv, NEW f \in FileId, CreateUpload(f)
  PROVE  IInv'
<1>1. /\ UNCHANGED <<chunks, last_chunk_id, jobs, emptied, running, stranded,
                     crashes, db_faults>>
      /\ f \notin used_ids
      /\ used_ids' = used_ids \cup {f}
      /\ files' = CreateFile(files, f)
  BY DEF CreateUpload, memory, faults
<1>2. /\ DOMAIN files' = DOMAIN files \cup {f}
      /\ f \notin DOMAIN files
      /\ \A g \in DOMAIN files : files'[g] = files[g]
      /\ files'[f] = NewFile
  BY <1>1 DEF CreateFile, IInv, TypeOK
<1>3. NewFile \in FileRow /\ NewFile.next_sequence = 0 /\ NewFile.chunks_total = 0
  BY DEF NewFile, FileRow, UploadStatus, ProcessingStatus
<1>4. files' \in [DOMAIN files' -> FileRow]
  <2>1. \A g \in DOMAIN files' : files'[g] \in FileRow
    BY <1>2, <1>3 DEF IInv, TypeOK
  <2>2. files' = [g \in DOMAIN files' |-> files'[g]]
    BY <1>1 DEF CreateFile
  <2>3. QED
    BY <2>1, <2>2
<1>5. TypeOK'
  <2>1. used_ids' \in SUBSET FileId /\ DOMAIN files' \subseteq used_ids'
    BY <1>1, <1>2 DEF IInv, TypeOK
  <2>2. running' \in BOOLEAN
    BY <1>1, Zenon DEF IInv, TypeOK
  <2>3. QED
    BY <1>1, <1>4, <2>1, <2>2 DEF IInv, TypeOK
<1>6. RowsHaveFiles'
  BY <1>1, <1>2 DEF IInv, RowsHaveFiles
<1>7. SequencesAreDense'
  <2> SUFFICES ASSUME NEW g \in DOMAIN files'
               PROVE  /\ {chunks[c].sequence : c \in Rows(chunks, g)}
                           = 0..(files'[g].next_sequence - 1)
                      /\ \A c, d \in Rows(chunks, g) :
                           chunks[c].sequence = chunks[d].sequence => c = d
                      /\ files'[g].chunks_total = files'[g].next_sequence
    BY <1>1 DEF SequencesAreDense, Rows
  <2>1. CASE g \in DOMAIN files
    BY <1>2, <2>1 DEF IInv, SequencesAreDense
  <2>2. CASE g = f
    <3>1. Rows(chunks, f) = {}
      BY <1>2 DEF IInv, RowsHaveFiles, Rows
    <3>2. QED
      BY <1>2, <1>3, <2>2, <3>1
  <2>3. QED
    BY <1>2, <2>1, <2>2
<1>8. BatchesAreWhole' /\ ClaimsAreExclusive' /\ JobsMirrorRows' /\ NothingIsLost' /\ RetryBudget'
  BY <1>1 DEF IInv, BatchesAreWhole, ClaimsAreExclusive, JobsMirrorRows, ChunkJob,
              NothingIsLost, RetryBudget
<1>9. QED
  BY <1>5, <1>6, <1>7, <1>8 DEF IInv

\* An enqueue adds a pending row for every passage, under keys never given out.
LEMMA EnqueuedRows ==
  ASSUME IInv, NEW f \in DOMAIN files, NEW ps \in Passages, Enqueue(f, ps)
  PROVE  AddsPending(chunks, chunks', last_chunk_id, f, Len(ps), files[f].next_sequence)
<1> DEFINE start == files[f].next_sequence
<1>1. /\ ps \in Seq(Passage)
      /\ f \in FileId
      /\ files[f] \in FileRow /\ start \in Nat
      /\ last_chunk_id \in Nat
      /\ DOMAIN chunks \subseteq 1..last_chunk_id
      /\ chunks \in [DOMAIN chunks -> ChunkRow]
  BY PassagesAreSequences DEF IInv, TypeOK, FileRow
<1>2. \A c \in Rows(chunks, f) : chunks[c].sequence < start
  <2> SUFFICES ASSUME NEW c \in Rows(chunks, f) PROVE chunks[c].sequence < start
    OBVIOUS
  <2>1. chunks[c].sequence \in 0..(start - 1)
    BY DEF IInv, SequencesAreDense
  <2>2. QED
    BY <1>1, <2>1
<1>3. chunks' = InsertPending(chunks, last_chunk_id, f, ps, start)
  BY DEF Enqueue
<1> HIDE DEF start
<1>4. AddsPending(chunks, chunks', last_chunk_id, f, Len(ps), start)
  BY <1>1, <1>2, <1>3, InsertedRows
<1>5. QED
  BY <1>4 DEF start

\* Whatever the upload path does with the file, an enqueue keeps the queue's
\* invariants as long as the sequence counter moves with it.
LEMMA EnqueueStep ==
  ASSUME IInv, NEW f \in DOMAIN files, NEW ps \in Passages, Enqueue(f, ps),
         DOMAIN files' = DOMAIN files,
         files' \in [DOMAIN files -> FileRow],
         files'[f].next_sequence = files[f].next_sequence + Len(ps),
         files'[f].chunks_total = files[f].chunks_total + Len(ps),
         \A g \in DOMAIN files \ {f} : files'[g] = files[g],
         UNCHANGED <<used_ids, jobs, emptied, running, stranded, crashes, db_faults>>
  PROVE  IInv'
<1> DEFINE start == files[f].next_sequence
           new == (last_chunk_id + 1)..(last_chunk_id + Len(ps))
<1>1. /\ ps \in Seq(Passage) /\ Len(ps) \in Nat
      /\ f \in FileId
      /\ files[f] \in FileRow /\ start \in Nat
      /\ last_chunk_id \in Nat
      /\ DOMAIN chunks \subseteq 1..last_chunk_id
      /\ chunks \in [DOMAIN chunks -> ChunkRow]
  BY PassagesAreSequences DEF IInv, TypeOK, FileRow
<1>2. \A c \in Rows(chunks, f) : chunks[c].sequence < start
  <2> SUFFICES ASSUME NEW c \in Rows(chunks, f) PROVE chunks[c].sequence < start
    OBVIOUS
  <2>1. chunks[c].sequence \in 0..(start - 1)
    BY DEF IInv, SequencesAreDense
  <2>2. QED
    BY <1>1, <2>1
<1>3. last_chunk_id' = last_chunk_id + Len(ps)
  BY DEF Enqueue
<1>4. /\ DOMAIN chunks' = DOMAIN chunks \cup new
      /\ chunks' \in [DOMAIN chunks' -> ChunkRow]
      /\ \A c \in DOMAIN chunks : chunks'[c] = chunks[c]
      /\ \A c \in new :
           /\ chunks'[c].file_id = f
           /\ chunks'[c].sequence = start + (c - last_chunk_id) - 1
           /\ chunks'[c].status = "pending"
           /\ chunks'[c].retry_count = 0
  BY EnqueuedRows DEF AddsPending
<1> HIDE DEF start
<1>6. \A c \in new : c \notin DOMAIN chunks /\ ~(c <= last_chunk_id)
  BY <1>1
<1>7. TypeOK'
  <2>1. last_chunk_id' \in Nat /\ DOMAIN chunks' \subseteq 1..last_chunk_id'
    BY <1>1, <1>3, <1>4
  <2>2. running' \in BOOLEAN
    BY Zenon DEF IInv, TypeOK
  <2>3. QED
    BY <1>4, <2>1, <2>2 DEF IInv, TypeOK
<1>8. BatchesAreWhole'
  <2>1. ASSUME NEW w \in Worker, NEW j \in jobs[w] PROVE j.chunk_id <= last_chunk_id'
    <3>1. j.chunk_id \in Nat /\ j.chunk_id <= last_chunk_id
      BY DEF IInv, TypeOK, Job, BatchesAreWhole
    <3>2. QED
      BY <1>1, <1>3, <3>1
  <2>2. QED
    BY <2>1 DEF IInv, BatchesAreWhole
<1>9. RowsHaveFiles'
  BY <1>4 DEF IInv, RowsHaveFiles
<1>10. ClaimsAreExclusive'
  BY DEF IInv, ClaimsAreExclusive, Ids
<1>11. JobsMirrorRows'
  <2> SUFFICES ASSUME NEW w \in Worker, NEW j \in jobs[w], j.chunk_id \in DOMAIN chunks'
               PROVE  /\ j = ChunkJob(j.chunk_id)'
                      /\ chunks'[j.chunk_id].status =
                           IF j \in emptied[w] THEN "indexed" ELSE "processing"
    BY DEF JobsMirrorRows
  <2>1. j.chunk_id \in DOMAIN chunks
    BY <1>4, <1>6 DEF IInv, BatchesAreWhole
  <2>2. chunks'[j.chunk_id] = chunks[j.chunk_id]
    BY <1>4, <2>1
  <2>3. QED
    BY <2>1, <2>2 DEF IInv, JobsMirrorRows, ChunkJob
<1>12. NothingIsLost'
  BY <1>4 DEF IInv, NothingIsLost, WithStatus
<1>13. RetryBudget'
  BY <1>4, RetryAssumption DEF IInv, RetryBudget
<1>14. SequencesAreDense'
  <2> SUFFICES ASSUME NEW g \in DOMAIN files
               PROVE  /\ {chunks'[c].sequence : c \in Rows(chunks', g)}
                           = 0..(files'[g].next_sequence - 1)
                      /\ \A c, d \in Rows(chunks', g) :
                           chunks'[c].sequence = chunks'[d].sequence => c = d
                      /\ files'[g].chunks_total = files'[g].next_sequence
    BY DEF SequencesAreDense, Rows
  <2>1. /\ {chunks[c].sequence : c \in Rows(chunks, g)} = 0..(files[g].next_sequence - 1)
        /\ \A c, d \in Rows(chunks, g) : chunks[c].sequence = chunks[d].sequence => c = d
        /\ files[g].chunks_total = files[g].next_sequence
    BY DEF IInv, SequencesAreDense
  <2>2. CASE g # f
    <3>1. Rows(chunks', g) = Rows(chunks, g)
      BY <1>4, <2>2 DEF Rows
    <3>2. \A c \in Rows(chunks, g) : chunks'[c] = chunks[c]
      BY <1>4 DEF Rows
    <3>3. {chunks'[c].sequence : c \in Rows(chunks', g)}
            = {chunks[c].sequence : c \in Rows(chunks, g)}
      BY <3>1, <3>2
    <3>4. files'[g] = files[g]
      BY <2>2
    <3>5. QED
      BY <2>1, <3>1, <3>2, <3>3, <3>4
  <2>3. CASE g = f
    <3>1. Rows(chunks', f) = Rows(chunks, f) \cup new
      BY <1>4, <1>6 DEF Rows
    <3>2. \A c \in Rows(chunks, f) : chunks'[c].sequence = chunks[c].sequence
      BY <1>4 DEF Rows
    <3>3. {chunks'[c].sequence : c \in Rows(chunks, f)} = 0..(start - 1)
      BY <2>1, <2>3, <3>2 DEF start
    <3>4. {chunks'[c].sequence : c \in new} = start..(start + Len(ps) - 1)
      <4>1. \A q \in start..(start + Len(ps) - 1) :
              /\ last_chunk_id + (q - start) + 1 \in new
              /\ chunks'[last_chunk_id + (q - start) + 1].sequence = q
        <5> SUFFICES ASSUME NEW q \in start..(start + Len(ps) - 1)
                     PROVE  /\ last_chunk_id + (q - start) + 1 \in new
                            /\ chunks'[last_chunk_id + (q - start) + 1].sequence = q
          OBVIOUS
        <5>1. last_chunk_id + (q - start) + 1 \in new
          BY <1>1
        <5>2. start + ((last_chunk_id + (q - start) + 1) - last_chunk_id) - 1 = q
          BY <1>1
        <5>3. QED
          BY <1>4, <5>1, <5>2
      <4>2. \A c \in new : chunks'[c].sequence \in start..(start + Len(ps) - 1)
        BY <1>1, <1>4
      <4> HIDE DEF new
      <4>3. QED
        BY <4>1, <4>2
    <3>5. {chunks'[c].sequence : c \in Rows(chunks', f)} = 0..(start + Len(ps) - 1)
      <4>1. {chunks'[c].sequence : c \in Rows(chunks', f)} =
              {chunks'[c].sequence : c \in Rows(chunks, f)} \cup {chunks'[c].sequence : c \in new}
        BY <3>1
      <4>2. (0..(start - 1)) \cup (start..(start + Len(ps) - 1)) = 0..(start + Len(ps) - 1)
        BY <1>1
      <4>3. QED
        BY <3>3, <3>4, <4>1, <4>2
    <3>6. ASSUME NEW c \in Rows(chunks', f), NEW d \in Rows(chunks', f),
                 chunks'[c].sequence = chunks'[d].sequence
          PROVE  c = d
      <4>1. CASE c \in new /\ d \in new
        BY <1>1, <1>4, <3>6, <4>1
      <4>2. CASE c \in Rows(chunks, f) /\ d \in Rows(chunks, f)
        BY <2>1, <2>3, <3>2, <3>6, <4>2
      <4>3. ASSUME NEW a \in Rows(chunks, f), NEW b \in new
            PROVE  chunks'[a].sequence # chunks'[b].sequence
        <5>1. chunks'[a].sequence < start
          BY <1>2, <3>2
        <5>2. chunks'[b].sequence \in start..(start + Len(ps) - 1)
          BY <3>4
        <5>3. QED
          BY <1>1, <5>1, <5>2
      <4>4. QED
        BY <3>1, <3>6, <4>1, <4>2, <4>3
    <3>7. QED
      <4>1. files'[f].next_sequence = start + Len(ps)
        BY DEF start
      <4>2. files'[f].chunks_total = files'[f].next_sequence
        BY <2>1, <2>3, <4>1 DEF start
      <4>3. QED
        <5>1. \A c, d \in Rows(chunks', f) : chunks'[c].sequence = chunks'[d].sequence => c = d
          BY <3>6
        <5>2. {chunks'[c].sequence : c \in Rows(chunks', f)} = 0..(files'[f].next_sequence - 1)
          <6>1. files'[f].next_sequence - 1 = start + Len(ps) - 1
            BY <1>1, <4>1
          <6>2. QED
            BY <3>5, <6>1, Zenon
        <5>3. QED
          BY <2>3, <4>2, <5>1, <5>2
  <2>4. QED
    BY <2>2, <2>3
<1>15. QED
  BY <1>7, <1>8, <1>9, <1>10, <1>11, <1>12, <1>13, <1>14 DEF IInv

\* A chunk appends the next sequences to its file.
LEMMA AppendChunkStep ==
  ASSUME IInv, NEW f \in FileId, NEW ps \in Passages, AppendChunk(f, ps)
  PROVE  IInv'
<1>1. /\ f \in DOMAIN files
      /\ Enqueue(f, ps)
      /\ files' = UpdateAfterChunk(files, f, Len(ps), files[f].next_sequence + Len(ps))
      /\ UNCHANGED <<used_ids, jobs, emptied, running, stranded, crashes, db_faults>>
  BY DEF AppendChunk, NextSequence, memory, faults
<1>2. Len(ps) \in Nat
  BY PassagesAreSequences
<1>3. \A g \in DOMAIN files : files[g] \in FileRow
  BY DEF IInv, TypeOK
<1>4. /\ DOMAIN files' = DOMAIN files
      /\ \A g \in DOMAIN files \ {f} : files'[g] = files[g]
      /\ files'[f] = [files[f] EXCEPT !.upload_status = "uploading",
                        !.chunks_total = files[f].chunks_total + Len(ps),
                        !.next_sequence = files[f].next_sequence + Len(ps)]
  BY <1>1 DEF UpdateAfterChunk
<1>5. /\ files'[f] \in FileRow
      /\ files'[f].next_sequence = files[f].next_sequence + Len(ps)
      /\ files'[f].chunks_total = files[f].chunks_total + Len(ps)
  <2>1. /\ files[f] \in FileRow
        /\ "uploading" \in UploadStatus
        /\ "finalizing" \in UploadStatus
    BY <1>1, <1>3 DEF UploadStatus
  <2>2. /\ files[f].chunks_total + Len(ps) \in Nat
        /\ files[f].next_sequence + Len(ps) \in Nat
    BY <1>2, <2>1 DEF FileRow
  <2>3. QED
    BY <1>4, <2>1, <2>2 DEF FileRow
<1>6. files' \in [DOMAIN files -> FileRow]
  <2>1. \A g \in DOMAIN files : files'[g] \in FileRow
    BY <1>3, <1>4, <1>5
  <2>2. files' = [g \in DOMAIN files |-> files'[g]]
    BY <1>1 DEF UpdateAfterChunk
  <2>3. QED
    BY <2>1, <2>2
<1>7. QED
  BY <1>1, <1>4, <1>5, <1>6, EnqueueStep

\* The flush of /complete appends the next sequences to its file.
LEMMA BeginCompleteStep ==
  ASSUME IInv, NEW f \in FileId, NEW ps \in Passages, BeginComplete(f, ps)
  PROVE  IInv'
<1>1. /\ f \in DOMAIN files
      /\ Enqueue(f, ps)
      /\ files' = MarkFinalizing(files, f, Len(ps), files[f].next_sequence + Len(ps))
      /\ UNCHANGED <<used_ids, jobs, emptied, running, stranded, crashes, db_faults>>
  BY DEF BeginComplete, NextSequence, memory, faults
<1>2. Len(ps) \in Nat
  BY PassagesAreSequences
<1>3. \A g \in DOMAIN files : files[g] \in FileRow
  BY DEF IInv, TypeOK
<1>4. /\ DOMAIN files' = DOMAIN files
      /\ \A g \in DOMAIN files \ {f} : files'[g] = files[g]
      /\ files'[f] = [files[f] EXCEPT !.upload_status = "finalizing",
                        !.chunks_total = files[f].chunks_total + Len(ps),
                        !.next_sequence = files[f].next_sequence + Len(ps)]
  BY <1>1 DEF MarkFinalizing
<1>5. /\ files'[f] \in FileRow
      /\ files'[f].next_sequence = files[f].next_sequence + Len(ps)
      /\ files'[f].chunks_total = files[f].chunks_total + Len(ps)
  <2>1. /\ files[f] \in FileRow
        /\ "uploading" \in UploadStatus
        /\ "finalizing" \in UploadStatus
    BY <1>1, <1>3 DEF UploadStatus
  <2>2. /\ files[f].chunks_total + Len(ps) \in Nat
        /\ files[f].next_sequence + Len(ps) \in Nat
    BY <1>2, <2>1 DEF FileRow
  <2>3. QED
    BY <1>4, <2>1, <2>2 DEF FileRow
<1>6. files' \in [DOMAIN files -> FileRow]
  <2>1. \A g \in DOMAIN files : files'[g] \in FileRow
    BY <1>3, <1>4, <1>5
  <2>2. files' = [g \in DOMAIN files |-> files'[g]]
    BY <1>1 DEF MarkFinalizing
  <2>3. QED
    BY <2>1, <2>2
<1>7. QED
  BY <1>1, <1>4, <1>5, <1>6, EnqueueStep

\* A delete removes a file with all of its rows; batches keep their copies.
LEMMA DeleteUploadStep ==
  ASSUME IInv, NEW f \in FileId, DeleteUpload(f)
  PROVE  IInv'
<1>1. /\ UNCHANGED <<last_chunk_id, used_ids, jobs, emptied, running, stranded,
                     crashes, db_faults>>
      /\ files' = DeleteFile(files, f)
      /\ chunks' = DeleteChunks(chunks, f)
  BY DEF DeleteUpload, memory, faults
<1>2. /\ DOMAIN files' = DOMAIN files \ {f}
      /\ \A g \in DOMAIN files' : files'[g] = files[g]
      /\ DOMAIN chunks' = DOMAIN chunks \ Rows(chunks, f)
      /\ \A c \in DOMAIN chunks' : chunks'[c] = chunks[c]
  BY <1>1 DEF DeleteFile, DeleteChunks
<1>3. TypeOK'
  <2>1. files' \in [DOMAIN files' -> FileRow]
    BY <1>1 DEF DeleteFile, IInv, TypeOK
  <2>2. chunks' \in [DOMAIN chunks' -> ChunkRow]
    BY <1>1 DEF DeleteChunks, IInv, TypeOK
  <2>3. running' \in BOOLEAN
    BY <1>1, Zenon DEF IInv, TypeOK
  <2>4. QED
    BY <1>1, <1>2, <2>1, <2>2, <2>3 DEF IInv, TypeOK
<1>4. BatchesAreWhole' /\ ClaimsAreExclusive'
  BY <1>1 DEF IInv, BatchesAreWhole, ClaimsAreExclusive, Ids
<1>5. RowsHaveFiles'
  BY <1>2 DEF IInv, RowsHaveFiles, Rows
<1>6. JobsMirrorRows'
  BY <1>1, <1>2 DEF IInv, JobsMirrorRows, ChunkJob
<1>7. NothingIsLost'
  BY <1>1, <1>2 DEF IInv, NothingIsLost, WithStatus
<1>8. RetryBudget'
  BY <1>2 DEF IInv, RetryBudget
<1>9. SequencesAreDense'
  <2> SUFFICES ASSUME NEW g \in DOMAIN files'
               PROVE  /\ {chunks'[c].sequence : c \in Rows(chunks', g)}
                           = 0..(files'[g].next_sequence - 1)
                      /\ \A c, d \in Rows(chunks', g) :
                           chunks'[c].sequence = chunks'[d].sequence => c = d
                      /\ files'[g].chunks_total = files'[g].next_sequence
    BY DEF SequencesAreDense
  <2>1. /\ g \in DOMAIN files
        /\ files'[g] = files[g]
        /\ Rows(chunks', g) = Rows(chunks, g)
        /\ \A c \in Rows(chunks, g) : chunks'[c] = chunks[c]
    BY <1>2 DEF Rows
  <2>2. {chunks'[c].sequence : c \in Rows(chunks', g)}
          = {chunks[c].sequence : c \in Rows(chunks, g)}
    BY <2>1
  <2>3. QED
    BY <2>1, <2>2 DEF IInv, SequencesAreDense
<1>10. QED
  BY <1>3, <1>4, <1>5, <1>6, <1>7, <1>8, <1>9 DEF IInv

----------------------------------------------------------------------------
(* The theorems *)

\* The empty tables satisfy the invariant.
LEMMA Initially == Init => IInv
<1> SUFFICES ASSUME Init PROVE IInv
  OBVIOUS
<1>1. /\ DOMAIN files = {} /\ DOMAIN chunks = {}
      /\ last_chunk_id = 0 /\ used_ids = {} /\ stranded = {}
      /\ running = TRUE /\ crashes = 0 /\ db_faults = 0
      /\ jobs = [w \in Worker |-> {}]
      /\ emptied = [w \in Worker |-> {}]
  BY DEF Init, EmptyTable
<1>2. TypeOK
  <2>1. files \in [DOMAIN files -> FileRow] /\ chunks \in [DOMAIN chunks -> ChunkRow]
    BY DEF Init, EmptyTable
  <2>2. QED
    BY <1>1, <2>1 DEF TypeOK
<1>3. BatchesAreWhole
  BY <1>1, FS_EmptySet DEF BatchesAreWhole
<1>4. /\ RowsHaveFiles /\ ClaimsAreExclusive /\ JobsMirrorRows
      /\ NothingIsLost /\ RetryBudget /\ SequencesAreDense
  BY <1>1 DEF RowsHaveFiles, ClaimsAreExclusive, JobsMirrorRows, NothingIsLost,
              RetryBudget, SequencesAreDense, WithStatus, Ids
<1>5. QED
  BY <1>2, <1>3, <1>4 DEF IInv

\* The invariant depends on the variables of the module only.
LEMMA Stuttering ==
  ASSUME IInv, UNCHANGED vars
  PROVE  IInv'
<1>1. /\ UNCHANGED <<files, chunks, last_chunk_id, used_ids, jobs, emptied>>
      /\ UNCHANGED <<running, stranded, crashes, db_faults>>
  BY DEF vars
<1>2. TypeOK'
  BY <1>1, Zenon DEF IInv, TypeOK
<1>3. BatchesAreWhole' /\ RowsHaveFiles' /\ ClaimsAreExclusive' /\ JobsMirrorRows'
  BY <1>1 DEF IInv, BatchesAreWhole, RowsHaveFiles, ClaimsAreExclusive, JobsMirrorRows,
              ChunkJob
<1>4. NothingIsLost' /\ RetryBudget' /\ SequencesAreDense'
  BY <1>1 DEF IInv, NothingIsLost, RetryBudget, SequencesAreDense
<1>5. QED
  BY <1>2, <1>3, <1>4 DEF IInv

\* No step of a client, a worker or the process leaves the invariant.
LEMMA Inductive == IInv /\ [Next]_vars => IInv'
<1> SUFFICES ASSUME IInv, [Next]_vars PROVE IInv'
  OBVIOUS
<1>1. ASSUME NEW f \in FileId, CreateUpload(f) PROVE IInv'
  BY <1>1, CreateUploadStep
<1>2. ASSUME NEW f \in FileId, NEW passages \in Passages, AppendChunk(f, passages)
      PROVE  IInv'
  BY <1>2, AppendChunkStep
<1>3. ASSUME NEW f \in FileId, NEW passages \in Passages, BeginComplete(f, passages)
      PROVE  IInv'
  BY <1>3, BeginCompleteStep
<1>4. ASSUME NEW f \in FileId, FinishComplete(f) PROVE IInv'
  BY <1>4, FinishCompleteStep
<1>5. ASSUME NEW f \in FileId, DeleteUpload(f) PROVE IInv'
  BY <1>5, DeleteUploadStep
<1>6. ASSUME NEW w \in Worker, Work(w) PROVE IInv'
  <2>1. CASE ClaimBatch(w)
    BY <2>1, ClaimBatchStep
  <2>2. ASSUME NEW empty \in SUBSET jobs[w], CompleteEmpty(w, empty) PROVE IInv'
    BY <2>2, CompleteEmptyStep
  <2>3. CASE CompleteKept(w)
    BY <2>3, CompleteKeptStep
  <2>4. CASE FailBatch(w)
    BY <2>4, FailBatchStep
  <2>5. CASE AbandonBatch(w)
    BY <2>5, AbandonBatchStep
  <2>6. QED
    BY <1>6, <2>1, <2>2, <2>3, <2>4, <2>5 DEF Work
<1>7. CASE Crash
  BY <1>7, CrashStep
<1>8. CASE RecoverStuckJobs
  BY <1>8, RecoverStuckJobsStep
<1>9. CASE UNCHANGED vars
  BY <1>9, Stuttering
<1>10. QED
  BY <1>1, <1>2, <1>3, <1>4, <1>5, <1>6, <1>7, <1>8, <1>9 DEF Next

\* The strengthened invariant holds throughout every run of the queue.
THEOREM InvariantHolds == Spec => []IInv
BY Initially, Inductive, PTL DEF Spec

\* Tables, batches and bookkeeping keep their types: in particular an update of
\* a row that was deleted meanwhile (complete_batch, fail_batch and the
\* counters after delete_upload) creates no row and no counter.
THEOREM TypeCorrect == Spec => []TypeOK
<1>1. IInv => TypeOK
  BY DEF IInv
<1>2. QED
  BY <1>1, InvariantHolds, PTL

\* claim_batch: no passage is ever in two workers' hands.
THEOREM ExclusiveClaims == Spec => []ClaimsAreExclusive
<1>1. IInv => ClaimsAreExclusive
  BY DEF IInv
<1>2. QED
  BY <1>1, InvariantHolds, PTL

\* The ChunkJob copies stay true until complete_batch or fail_batch uses them.
THEOREM BatchesStayFresh == Spec => []JobsMirrorRows
<1>1. IInv => JobsMirrorRows
  BY DEF IInv
<1>2. QED
  BY <1>1, InvariantHolds, PTL

\* recover_stuck_jobs: after any crash and restart every row in 'processing'
\* has a worker again, or was given up by a raising fail_batch.
THEOREM NoPassageIsLost == Spec => []NothingIsLost
<1>1. IInv => NothingIsLost
  BY DEF IInv
<1>2. QED
  BY <1>1, InvariantHolds, PTL

\* fail_batch: 'failed' exactly after MAX_RETRIES failed attempts.
THEOREM RetryBudgetHolds == Spec => []RetryBudget
<1>1. IInv => RetryBudget
  BY DEF IInv
<1>2. QED
  BY <1>1, InvariantHolds, PTL

\* enqueue: one row for each sequence below next_sequence; the ON CONFLICT
\* clause of insert_pending never has anything to skip.
THEOREM DenseSequences == Spec => []SequencesAreDense
<1>1. IInv => SequencesAreDense
  BY DEF IInv
<1>2. QED
  BY <1>1, InvariantHolds, PTL

----------------------------------------------------------------------------
(* The counters: how many rows a statement moves *)

\* A batch is of one file, and none is emptied without being let go.  While the
\* file is there its rows are, since a file_id is never drawn again; and only
\* of a file whose reads may be empty has a part been completed already.
BatchesOfOneFile ==
  \A w \in Worker :
    /\ jobs[w] # {} => emptied[w] # jobs[w]
    /\ \A j, k \in jobs[w] : j.file_id = k.file_id
    /\ \A j \in jobs[w] :
         /\ j.file_id \in used_ids
         /\ j.file_id \in DOMAIN files => j.chunk_id \in DOMAIN chunks
         /\ j \in emptied[w] => j.file_id \notin DOMAIN files \ CanReadEmpty

\* CountersAgree and TerminalMeansSettled of one file.
Counted(f) ==
  /\ files[f].chunks_failed = NumberOf(f, "failed")
  /\ files[f].chunks_indexed >= NumberOf(f, "indexed")
  /\ f \notin CanReadEmpty => files[f].chunks_indexed = NumberOf(f, "indexed")

\* A verdict is given when nothing is outstanding, and is the right one.
Decided(f) ==
  f \notin CanReadEmpty /\ Terminal(f) =>
    /\ files[f].upload_status = "completed"
    /\ Outstanding(f) = {}
    /\ files[f].processing_status = "completed" <=>
         Rows(chunks, f) \cap WithStatus(chunks, "failed") = {}

FilesAreRight == \A f \in DOMAIN files : Counted(f) /\ Decided(f)

\* The invariant that gives both properties.
CountersInv ==
  /\ BatchesOfOneFile
  /\ FilesAreRight

\* Sequences 0, ..., n - 1, one row each, are n rows.
LEMMA DenseRowsAreCounted ==
  ASSUME NEW t, NEW last \in Nat, DOMAIN t \subseteq 1..last,
         NEW f, NEW n \in Nat,
         {t[c].sequence : c \in Rows(t, f)} = 0..(n - 1),
         \A c, d \in Rows(t, f) : t[c].sequence = t[d].sequence => c = d
  PROVE  IsFiniteSet(Rows(t, f)) /\ Cardinality(Rows(t, f)) = n
<1> DEFINE number == [c \in Rows(t, f) |-> t[c].sequence]
<1>1. IsFiniteSet(Rows(t, f))
  <2>1. IsFiniteSet(1..last) /\ Rows(t, f) \in SUBSET (1..last)
    BY FS_Interval DEF Rows
  <2> QED BY <2>1, FS_Subset
<1>2. number \in Bijection(Rows(t, f), 0..(n - 1))
  BY DEF Bijection, Injection, Surjection, IsInjective
<1>3. Cardinality(0..(n - 1)) = Cardinality(Rows(t, f))
  BY <1>1, <1>2, FS_Bijection DEF ExistsBijection
<1>4. Cardinality(0..(n - 1)) = n
  BY FS_Interval
<1> QED BY <1>1, <1>3, <1>4

\* Two disjoint parts of a finite set that are as many as the whole are the
\* whole.
LEMMA PartsAreAll ==
  ASSUME NEW S, IsFiniteSet(S), NEW A \in SUBSET S, NEW B \in SUBSET S,
         A \cap B = {}, Cardinality(A) + Cardinality(B) >= Cardinality(S)
  PROVE  S = A \cup B
<1>1. IsFiniteSet(A) /\ IsFiniteSet(B)
  BY FS_Subset
<1>2. /\ IsFiniteSet(A \cup B)
      /\ Cardinality(A \cup B) = Cardinality(A) + Cardinality(B)
  <2>1. /\ IsFiniteSet(A \cup B)
        /\ Cardinality(A \cup B) = Cardinality(A) + Cardinality(B) - Cardinality(A \cap B)
    BY <1>1, FS_Union
  <2>2. Cardinality(A \cap B) = 0
    BY FS_EmptySet
  <2>3. Cardinality(A) \in Nat /\ Cardinality(B) \in Nat
    BY <1>1, FS_CardinalityType
  <2> QED BY <2>1, <2>2, <2>3
<1>3. A \cup B \in SUBSET S
  OBVIOUS
<1>4. Cardinality(A \cup B) <= Cardinality(S)
  BY <1>3, FS_Subset
<1>5. Cardinality(A \cup B) = Cardinality(S)
  <2>1. Cardinality(S) \in Nat /\ Cardinality(A \cup B) \in Nat
    BY <1>2, FS_CardinalityType
  <2> QED BY <1>2, <1>4, <2>1
<1> QED BY <1>3, <1>5, FS_Subset

\* A finite batch of distinct keys has as many keys as jobs.
LEMMA KeysAreCounted ==
  ASSUME NEW batch, IsFiniteSet(batch),
         \A j, k \in batch : j.chunk_id = k.chunk_id => j = k
  PROVE  IsFiniteSet(Ids(batch)) /\ Cardinality(Ids(batch)) = Cardinality(batch)
<1> DEFINE key == [j \in batch |-> j.chunk_id]
<1>1. key \in Bijection(batch, Ids(batch))
  BY DEF Bijection, Injection, Surjection, IsInjective, Ids
<1> QED BY <1>1, FS_Bijection DEF ExistsBijection

\* _refresh_processing_status touches the verdict of its file and nothing else.
LEMMA RefreshedRow ==
  ASSUME NEW t, t \in [DOMAIN t -> FileRow], NEW f
  PROVE  /\ DOMAIN Refresh(t, f) = DOMAIN t
         /\ \A g \in DOMAIN t \ {f} : Refresh(t, f)[g] = t[g]
         /\ f \in DOMAIN t =>
              /\ Refresh(t, f)[f].upload_status = t[f].upload_status
              /\ Refresh(t, f)[f].chunks_indexed = t[f].chunks_indexed
              /\ Refresh(t, f)[f].chunks_failed = t[f].chunks_failed
              /\ Refresh(t, f)[f].chunks_total = t[f].chunks_total
              /\ \/ Refresh(t, f)[f].processing_status = t[f].processing_status
                 \/ /\ t[f].upload_status = "completed"
                    /\ ~(t[f].chunks_indexed + t[f].chunks_failed < t[f].chunks_total)
                    /\ Refresh(t, f)[f].processing_status =
                         IF t[f].chunks_failed = 0 THEN "completed" ELSE "failed"
<1>1. CASE Refresh(t, f) = t
  BY <1>1
<1>2. CASE Refresh(t, f) # t
  <2>1. PICK v : v = IF t[f].chunks_failed = 0 THEN "completed" ELSE "failed"
    OBVIOUS
  <2>2. /\ f \in DOMAIN t
        /\ t[f].upload_status = "completed"
        /\ ~(t[f].chunks_indexed + t[f].chunks_failed < t[f].chunks_total)
        /\ Refresh(t, f) = SetProcessingStatus(t, f, v)
    BY <1>2, <2>1 DEF Refresh
  <2>3. t[f] \in FileRow
    BY <2>2
  <2>4. /\ DOMAIN SetProcessingStatus(t, f, v) = DOMAIN t
        /\ \A g \in DOMAIN t \ {f} : SetProcessingStatus(t, f, v)[g] = t[g]
        /\ SetProcessingStatus(t, f, v)[f] = [t[f] EXCEPT !.processing_status = v]
    BY <2>2 DEF SetProcessingStatus
  <2>5. /\ SetProcessingStatus(t, f, v)[f].upload_status = t[f].upload_status
        /\ SetProcessingStatus(t, f, v)[f].chunks_indexed = t[f].chunks_indexed
        /\ SetProcessingStatus(t, f, v)[f].chunks_failed = t[f].chunks_failed
        /\ SetProcessingStatus(t, f, v)[f].chunks_total = t[f].chunks_total
        /\ SetProcessingStatus(t, f, v)[f].processing_status = v
    BY <2>3, <2>4 DEF FileRow
  <2> QED BY <2>1, <2>2, <2>4, <2>5
<1> QED BY <1>1, <1>2

\* The increments touch one counter of one row.
LEMMA RecordedRow ==
  ASSUME NEW t, t \in [DOMAIN t -> FileRow], NEW f, NEW n \in Nat
  PROVE  /\ RecordIndexed(t, f, n) \in [DOMAIN t -> FileRow]
         /\ RecordFailed(t, f, n) \in [DOMAIN t -> FileRow]
         /\ \A g \in DOMAIN t \ {f} :
              RecordIndexed(t, f, n)[g] = t[g] /\ RecordFailed(t, f, n)[g] = t[g]
         /\ f \in DOMAIN t =>
              /\ RecordIndexed(t, f, n)[f] =
                   [t[f] EXCEPT !.chunks_indexed = t[f].chunks_indexed + n]
              /\ RecordFailed(t, f, n)[f] =
                   [t[f] EXCEPT !.chunks_failed = t[f].chunks_failed + n]
<1>1. "completed" \in UploadStatus /\ "completed" \in ProcessingStatus
  BY DEF UploadStatus, ProcessingStatus
<1>2. SameUploads(t, RecordIndexed(t, f, n)) /\ SameUploads(t, RecordFailed(t, f, n))
  BY <1>1, StatusStatementsKeepUploads
<1> QED BY <1>2 DEF SameUploads, RecordIndexed, RecordFailed

\* When as many rows are settled as there are sequences, none is outstanding.
LEMMA EnoughIsAll ==
  ASSUME NEW t, NEW last \in Nat, DOMAIN t \subseteq 1..last,
         NEW f, NEW n \in Nat,
         {t[c].sequence : c \in Rows(t, f)} = 0..(n - 1),
         \A c, d \in Rows(t, f) : t[c].sequence = t[d].sequence => c = d,
         Cardinality(Rows(t, f) \cap WithStatus(t, "indexed"))
           + Cardinality(Rows(t, f) \cap WithStatus(t, "failed")) >= n
  PROVE  {c \in Rows(t, f) : t[c].status \in {"pending", "processing"}} = {}
<1> DEFINE S == Rows(t, f)
           A == S \cap WithStatus(t, "indexed")
           B == S \cap WithStatus(t, "failed")
<1>1. IsFiniteSet(S) /\ Cardinality(S) = n
  BY DenseRowsAreCounted
<1>2. A \cap B = {}
  BY DEF WithStatus
<1>3. A \in SUBSET S /\ B \in SUBSET S
  OBVIOUS
<1>4. S = A \cup B
  <2> HIDE DEF S, A, B
  <2> QED BY <1>1, <1>2, <1>3, PartsAreAll DEF S, A, B
<1> QED BY <1>4 DEF WithStatus

\* A verdict that _refresh_processing_status gives is right.
LEMMA VerdictIsRight ==
  ASSUME IInv', NEW f \in DOMAIN files', Counted(f)',
         files'[f].upload_status = "completed",
         ~(files'[f].chunks_indexed + files'[f].chunks_failed < files'[f].chunks_total),
         files'[f].processing_status =
           IF files'[f].chunks_failed = 0 THEN "completed" ELSE "failed"
  PROVE  Decided(f)'
<1> SUFFICES ASSUME f \notin CanReadEmpty
             PROVE  /\ Outstanding(f)' = {}
                    /\ files'[f].processing_status = "completed" <=>
                         Rows(chunks', f) \cap WithStatus(chunks', "failed") = {}
  BY DEF Decided
<1> DEFINE A == Rows(chunks', f) \cap WithStatus(chunks', "indexed")
           B == Rows(chunks', f) \cap WithStatus(chunks', "failed")
<1>1. files'[f].chunks_indexed = Cardinality(A) /\ files'[f].chunks_failed = Cardinality(B)
  BY DEF Counted, NumberOf
<1>2. /\ last_chunk_id' \in Nat /\ DOMAIN chunks' \subseteq 1..last_chunk_id'
      /\ files'[f] \in FileRow
  BY DEF IInv, TypeOK
<1>3. /\ {chunks'[c].sequence : c \in Rows(chunks', f)} = 0..(files'[f].next_sequence - 1)
      /\ \A c, d \in Rows(chunks', f) : chunks'[c].sequence = chunks'[d].sequence => c = d
      /\ files'[f].chunks_total = files'[f].next_sequence
  BY DEF IInv, SequencesAreDense
<1>4. /\ files'[f].next_sequence \in Nat /\ files'[f].chunks_indexed \in Nat
      /\ files'[f].chunks_failed \in Nat
  BY <1>2 DEF FileRow
<1>5. Cardinality(A) + Cardinality(B) >= files'[f].next_sequence
  BY <1>1, <1>3, <1>4
<1>6. Outstanding(f)' = {}
  BY <1>2, <1>3, <1>4, <1>5, EnoughIsAll DEF Outstanding
<1>7. Cardinality(B) = 0 <=> B = {}
  <2>1. IsFiniteSet(Rows(chunks', f))
    BY <1>2, <1>3, <1>4, DenseRowsAreCounted
  <2>2. IsFiniteSet(B)
    BY <2>1, FS_Subset
  <2> QED BY <2>2, FS_EmptySet
<1> QED BY <1>1, <1>6, <1>7

\* What keeps a file's counters and verdict right when none of its rows is
\* settled or put back.
LEMMA SettledRowsStay ==
  ASSUME NEW g, Counted(g), Decided(g),
         files'[g].chunks_indexed = files[g].chunks_indexed,
         files'[g].chunks_failed = files[g].chunks_failed,
         \A s \in {"indexed", "failed"} :
           Rows(chunks', g) \cap WithStatus(chunks', s) = Rows(chunks, g) \cap WithStatus(chunks, s),
         g \notin CanReadEmpty /\ Terminal(g)' =>
           /\ files'[g].processing_status = files[g].processing_status
           /\ files'[g].upload_status = "completed"
           /\ Outstanding(g)' = Outstanding(g)
  PROVE  Counted(g)' /\ Decided(g)'
<1>1. NumberOf(g, "indexed")' = NumberOf(g, "indexed") /\ NumberOf(g, "failed")' = NumberOf(g, "failed")
  BY DEF NumberOf
<1>2. Counted(g)'
  BY <1>1 DEF Counted
<1>3. Decided(g)'
  BY DEF Decided, Terminal
<1> QED BY <1>2, <1>3

\* In particular when nothing of the file moves.
LEMMA UntouchedFile ==
  ASSUME NEW g, Counted(g), Decided(g),
         files'[g] = files[g],
         Rows(chunks', g) = Rows(chunks, g),
         \A c \in Rows(chunks, g) : chunks'[c].status = chunks[c].status
  PROVE  Counted(g)' /\ Decided(g)'
<1>1. \A s : Rows(chunks', g) \cap WithStatus(chunks', s) = Rows(chunks, g) \cap WithStatus(chunks, s)
  BY DEF Rows, WithStatus
<1>2. Outstanding(g)' = Outstanding(g)
  BY DEF Outstanding
<1>3. g \notin CanReadEmpty /\ Terminal(g)' => files[g].upload_status = "completed"
  BY DEF Decided, Terminal
<1> QED BY <1>1, <1>2, <1>3, SettledRowsStay

\* The rows of a file are as many as its sequences.
LEMMA RowsAreFinite ==
  ASSUME IInv, NEW f \in DOMAIN files
  PROVE  IsFiniteSet(Rows(chunks, f))
<1>1. DOMAIN chunks \subseteq 1..last_chunk_id /\ last_chunk_id \in Nat
  BY DEF IInv, TypeOK
<1>2. Rows(chunks, f) \in SUBSET (1..last_chunk_id) /\ IsFiniteSet(1..last_chunk_id)
  BY <1>1, FS_Interval DEF Rows
<1> QED BY <1>2, FS_Subset

----------------------------------------------------------------------------
(* The counters: what keeps the batches of one file *)

\* A step that claims nothing and creates and deletes no file.
LEMMA BatchesStayOfOneFile ==
  ASSUME BatchesOfOneFile, used_ids' = used_ids, DOMAIN files' = DOMAIN files,
         DOMAIN chunks \subseteq DOMAIN chunks',
         \A w \in Worker :
           jobs'[w] = {} \/ (jobs'[w] = jobs[w] /\ emptied'[w] = emptied[w])
  PROVE  BatchesOfOneFile'
<1> SUFFICES ASSUME NEW w \in Worker, jobs'[w] # {}
             PROVE  /\ emptied'[w] # jobs'[w]
                    /\ \A j, k \in jobs'[w] : j.file_id = k.file_id
                    /\ \A j \in jobs'[w] :
                         /\ j.file_id \in used_ids'
                         /\ j.file_id \in DOMAIN files' => j.chunk_id \in DOMAIN chunks'
                         /\ j \in emptied'[w] => j.file_id \notin DOMAIN files' \ CanReadEmpty
  BY DEF BatchesOfOneFile
<1>1. jobs'[w] = jobs[w] /\ emptied'[w] = emptied[w]
  OBVIOUS
<1> QED BY <1>1 DEF BatchesOfOneFile

\* A file_id is not drawn twice, so no batch in memory is of a new file.
LEMMA CreateKeepsBatches ==
  ASSUME IInv, BatchesOfOneFile, NEW f \in FileId, CreateUpload(f)
  PROVE  BatchesOfOneFile'
<1>1. /\ UNCHANGED <<chunks, jobs, emptied>>
      /\ f \notin used_ids /\ used_ids' = used_ids \cup {f}
      /\ DOMAIN files' = DOMAIN files \cup {f}
  BY DEF CreateUpload, CreateFile, memory
<1>2. \A w \in Worker : \A j \in jobs[w] : j.file_id # f /\ j.file_id \in used_ids'
  BY <1>1 DEF BatchesOfOneFile
<1> QED BY <1>1, <1>2 DEF BatchesOfOneFile

\* A delete takes the rows of its own file only.
LEMMA DeleteKeepsBatches ==
  ASSUME IInv, BatchesOfOneFile, NEW f \in FileId, DeleteUpload(f)
  PROVE  BatchesOfOneFile'
<1>1. /\ UNCHANGED <<used_ids, jobs, emptied>>
      /\ DOMAIN files' = DOMAIN files \ {f}
      /\ DOMAIN chunks' = DOMAIN chunks \ Rows(chunks, f)
  BY DEF DeleteUpload, DeleteFile, DeleteChunks, memory
<1>2. ASSUME NEW w \in Worker, NEW j \in jobs[w], j.file_id \in DOMAIN files'
      PROVE  j.chunk_id \in DOMAIN chunks'
  <2>1. j.chunk_id \in DOMAIN chunks
    BY <1>1, <1>2 DEF BatchesOfOneFile
  <2>2. chunks[j.chunk_id].file_id = j.file_id
    BY <2>1 DEF IInv, JobsMirrorRows, ChunkJob
  <2> QED BY <1>1, <1>2, <2>1, <2>2 DEF Rows
<1> QED BY <1>1, <1>2 DEF BatchesOfOneFile

\* A claim is of pending rows of one file, which is there (FOREIGN KEY).
LEMMA ClaimKeepsBatches ==
  ASSUME IInv, BatchesOfOneFile, NEW w \in Worker, ClaimBatch(w)
  PROVE  BatchesOfOneFile'
<1>1. PICK f, ids :
        /\ ids = SelectPendingForFile(chunks, f, CLAIM_BATCH_SIZE)
        /\ DOMAIN chunks' = DOMAIN chunks
        /\ DOMAIN files' = DOMAIN files
        /\ jobs' = [jobs EXCEPT ![w] = {ChunkJob(c) : c \in ids}]
  BY DEF ClaimBatch, MarkProcessing, SetStatus, MarkProcessingStarted
<1>2. UNCHANGED <<used_ids, emptied>> /\ emptied[w] = {} /\ jobs \in [Worker -> SUBSET Job]
  BY DEF ClaimBatch, IInv, BatchesAreWhole, TypeOK
<1>3. \A v \in Worker : jobs'[v] = IF v = w THEN {ChunkJob(c) : c \in ids} ELSE jobs[v]
  BY <1>1, <1>2
<1>4. \A c \in ids : c \in DOMAIN chunks /\ chunks[c].file_id = f /\ f \in DOMAIN files
  BY <1>1 DEF SelectPendingForFile, Rows, IInv, RowsHaveFiles
<1>5. \A j \in {ChunkJob(c) : c \in ids} :
        j.file_id = f /\ j.chunk_id \in DOMAIN chunks /\ f \in used_ids
  BY <1>4 DEF ChunkJob, IInv, TypeOK
<1>6. ASSUME NEW v \in Worker
      PROVE  /\ jobs'[v] # {} => emptied'[v] # jobs'[v]
             /\ \A j, k \in jobs'[v] : j.file_id = k.file_id
             /\ \A j \in jobs'[v] :
                  /\ j.file_id \in used_ids'
                  /\ j.file_id \in DOMAIN files' => j.chunk_id \in DOMAIN chunks'
                  /\ j \in emptied'[v] => j.file_id \notin DOMAIN files' \ CanReadEmpty
  <2>1. CASE v = w
    BY <1>1, <1>2, <1>3, <1>5, <2>1
  <2>2. CASE v # w
    BY <1>1, <1>2, <1>3, <2>2 DEF BatchesOfOneFile
  <2> QED BY <2>1, <2>2
<1> QED BY <1>6 DEF BatchesOfOneFile

\* Only a file whose reads may be empty has a part completed first.
LEMMA CompleteEmptyKeepsBatches ==
  ASSUME IInv, BatchesOfOneFile, NEW w \in Worker, NEW empty \in SUBSET jobs[w],
         CompleteEmpty(w, empty)
  PROVE  BatchesOfOneFile'
<1>1. /\ used_ids' = used_ids
      /\ empty # {} /\ emptied[w] = {}
      /\ FileOf(jobs[w]) \notin DOMAIN files \ CanReadEmpty
      /\ jobs' = [jobs EXCEPT ![w] = IF empty = jobs[w] THEN {} ELSE jobs[w]]
      /\ emptied' = [emptied EXCEPT ![w] = IF empty = jobs[w] THEN {} ELSE empty]
  BY DEF CompleteEmpty
<1>2. SameUploads(files, files') /\ SameRows(chunks, chunks')
  BY CompleteBatchTables DEF CompleteEmpty
<1>3. DOMAIN files' = DOMAIN files /\ DOMAIN chunks' = DOMAIN chunks
  BY <1>2 DEF SameUploads, SameRows
<1>4. jobs \in [Worker -> SUBSET Job] /\ emptied \in [Worker -> SUBSET Job]
  BY DEF IInv, TypeOK
<1>5. \A j \in jobs[w] : j.file_id = FileOf(jobs[w])
  BY DEF BatchesOfOneFile, FileOf
<1>6. ASSUME NEW v \in Worker
      PROVE  /\ jobs'[v] # {} => emptied'[v] # jobs'[v]
             /\ \A j, k \in jobs'[v] : j.file_id = k.file_id
             /\ \A j \in jobs'[v] :
                  /\ j.file_id \in used_ids'
                  /\ j.file_id \in DOMAIN files' => j.chunk_id \in DOMAIN chunks'
                  /\ j \in emptied'[v] => j.file_id \notin DOMAIN files' \ CanReadEmpty
  <2>1. CASE v = w
    BY <1>1, <1>3, <1>4, <1>5, <2>1 DEF BatchesOfOneFile
  <2>2. CASE v # w
    BY <1>1, <1>3, <1>4, <2>2 DEF BatchesOfOneFile
  <2> QED BY <2>1, <2>2
<1> QED BY <1>6 DEF BatchesOfOneFile

----------------------------------------------------------------------------
(* The counters: complete_batch and fail_batch *)

\* The rows of a part of a batch are all of the file of the batch.
LEMMA BatchIsOfFile ==
  ASSUME IInv, BatchesOfOneFile, NEW w \in Worker, NEW batch \in SUBSET jobs[w], batch # {}
  PROVE  /\ \A j \in jobs[w] : j.file_id = FileOf(batch)
         /\ IsFiniteSet(batch)
         /\ Cardinality(batch) \in Nat
         /\ \A g \in DOMAIN files \ {FileOf(batch)} : Rows(chunks, g) \cap Ids(jobs[w]) = {}
         /\ FileOf(batch) \in DOMAIN files =>
              /\ Ids(batch) \subseteq Rows(chunks, FileOf(batch))
              /\ IsFiniteSet(Ids(batch)) /\ Cardinality(Ids(batch)) = Cardinality(batch)
<1>1. \A j \in jobs[w] : j.file_id = FileOf(batch)
  BY DEF BatchesOfOneFile, FileOf
<1>2. IsFiniteSet(batch)
  BY FS_Subset DEF IInv, BatchesAreWhole
<1>3. \A j \in jobs[w] : j.chunk_id \in DOMAIN chunks => j = ChunkJob(j.chunk_id)
  BY DEF IInv, JobsMirrorRows
<1>4. \A j \in jobs[w] : j.chunk_id \in DOMAIN chunks => chunks[j.chunk_id].file_id = j.file_id
  BY <1>3 DEF ChunkJob
<1>5. \A g \in DOMAIN files \ {FileOf(batch)} : Rows(chunks, g) \cap Ids(jobs[w]) = {}
  BY <1>1, <1>4 DEF Rows, Ids
<1>6. ASSUME FileOf(batch) \in DOMAIN files
      PROVE  /\ Ids(batch) \subseteq Rows(chunks, FileOf(batch))
             /\ IsFiniteSet(Ids(batch)) /\ Cardinality(Ids(batch)) = Cardinality(batch)
  <2>1. \A j \in batch : j.chunk_id \in DOMAIN chunks
    BY <1>1, <1>6 DEF BatchesOfOneFile
  <2>2. \A j, k \in batch : j.chunk_id = k.chunk_id => j = k
    BY <1>3, <2>1
  <2>3. Ids(batch) \subseteq Rows(chunks, FileOf(batch))
    BY <1>1, <1>4, <2>1 DEF Rows, Ids
  <2> QED BY <1>2, <2>2, <2>3, KeysAreCounted
<1> QED BY <1>1, <1>2, <1>5, <1>6, FS_CardinalityType

\* complete_batch counts every row it marks, once.
LEMMA CompleteBatchCounts ==
  ASSUME IInv, IInv', BatchesOfOneFile, FilesAreRight,
         NEW w \in Worker, NEW batch \in SUBSET jobs[w], batch # {},
         batch \cap emptied[w] = {}, CompleteBatch(batch)
  PROVE  FilesAreRight'
<1> DEFINE b == FileOf(batch)
           n == Cardinality(batch)
           recorded == RecordIndexed(files, b, n)
<1>1. /\ files' = Refresh(recorded, b)
      /\ files \in [DOMAIN files -> FileRow]
      /\ n \in Nat
  BY BatchIsOfFile DEF CompleteBatch, IInv, TypeOK
<1>2. /\ SameUploads(files, files')
      /\ SameRows(chunks, chunks')
      /\ \A c \in DOMAIN chunks :
           chunks'[c].status = IF c \in Ids(batch) THEN "indexed" ELSE chunks[c].status
  BY CompleteBatchTables
<1>3. /\ DOMAIN recorded = DOMAIN files
      /\ recorded \in [DOMAIN recorded -> FileRow]
      /\ \A g \in DOMAIN files \ {b} : recorded[g] = files[g]
      /\ b \in DOMAIN files =>
           recorded[b] = [files[b] EXCEPT !.chunks_indexed = files[b].chunks_indexed + n]
  <2> HIDE DEF b, n
  <2>1. recorded \in [DOMAIN files -> FileRow]
    BY <1>1, RecordedRow
  <2>2. \A g \in DOMAIN files \ {b} : recorded[g] = files[g]
    BY DEF RecordIndexed
  <2>3. b \in DOMAIN files =>
          recorded[b] = [files[b] EXCEPT !.chunks_indexed = files[b].chunks_indexed + n]
    BY DEF RecordIndexed
  <2> HIDE DEF recorded
  <2> QED BY <2>1, <2>2, <2>3
<1> HIDE DEF recorded
<1>4. /\ \A g \in DOMAIN files \ {b} : files'[g] = files[g]
      /\ b \in DOMAIN files =>
           /\ files'[b].upload_status = recorded[b].upload_status
           /\ files'[b].chunks_indexed = recorded[b].chunks_indexed
           /\ files'[b].chunks_failed = recorded[b].chunks_failed
           /\ files'[b].chunks_total = recorded[b].chunks_total
           /\ \/ files'[b].processing_status = recorded[b].processing_status
              \/ /\ recorded[b].upload_status = "completed"
                 /\ ~(recorded[b].chunks_indexed + recorded[b].chunks_failed
                        < recorded[b].chunks_total)
                 /\ files'[b].processing_status =
                      IF recorded[b].chunks_failed = 0 THEN "completed" ELSE "failed"
  <2> HIDE DEF b
  <2> QED BY <1>1, <1>3, RefreshedRow
<1>5. DOMAIN files' = DOMAIN files /\ \A g : Rows(chunks', g) = Rows(chunks, g)
  BY <1>2 DEF SameUploads, SameRows, Rows
<1>6. ASSUME NEW g \in DOMAIN files, g # b
      PROVE  Counted(g)' /\ Decided(g)'
  <2>1. Rows(chunks, g) \cap Ids(batch) = {}
    <3>1. Rows(chunks, g) \cap Ids(jobs[w]) = {}
      BY <1>6, BatchIsOfFile
    <3> QED BY <3>1 DEF Ids
  <2>2. \A c \in Rows(chunks, g) : chunks'[c].status = chunks[c].status
    BY <1>2, <2>1 DEF Rows
  <2>3. files'[g] = files[g]
    BY <1>4, <1>6
  <2>4. Counted(g) /\ Decided(g)
    BY DEF FilesAreRight
  <2> QED BY <1>5, <2>2, <2>3, <2>4, UntouchedFile
<1>7. ASSUME b \in DOMAIN files
      PROVE  Counted(b)' /\ Decided(b)'
  <2> DEFINE R == Rows(chunks, b)
             A == R \cap WithStatus(chunks, "indexed")
             new == Ids(batch)
  <2>1. new \subseteq R /\ IsFiniteSet(new) /\ Cardinality(new) = n
    BY <1>7, BatchIsOfFile
  <2>2. \A c \in new : chunks[c].status = "processing"
    <3> SUFFICES ASSUME NEW j \in batch PROVE chunks[j.chunk_id].status = "processing"
      BY DEF Ids
    <3>1. j.chunk_id \in DOMAIN chunks
      BY <2>1 DEF Ids, Rows
    <3> QED BY <3>1, BatchRows
  <2>3. R \cap WithStatus(chunks', "indexed") = A \cup new
    BY <1>2, <2>1 DEF WithStatus, SameRows, Rows
  <2>4. R \cap WithStatus(chunks', "failed") = R \cap WithStatus(chunks, "failed")
    BY <1>2, <2>1, <2>2 DEF WithStatus, SameRows, Rows
  <2>5. A \cap new = {}
    BY <2>2 DEF WithStatus
  <2>6. IsFiniteSet(A)
    BY <1>7, RowsAreFinite, FS_Subset
  <2>7. Cardinality(A \cup new) = Cardinality(A) + n /\ Cardinality(A) \in Nat
    <3> HIDE DEF A, new
    <3>1. Cardinality(A \cup new) = Cardinality(A) + Cardinality(new) - Cardinality(A \cap new)
      BY <2>1, <2>6, FS_Union
    <3>2. Cardinality(A \cap new) = 0
      BY <2>5, FS_EmptySet
    <3>3. Cardinality(A) \in Nat
      BY <2>6, FS_CardinalityType
    <3> QED BY <1>1, <2>1, <3>1, <3>2, <3>3
  <2>8. NumberOf(b, "indexed")' = NumberOf(b, "indexed") + n /\ NumberOf(b, "indexed") \in Nat
    BY <1>5, <2>3, <2>7 DEF NumberOf
  <2>9. NumberOf(b, "failed")' = NumberOf(b, "failed")
    BY <1>5, <2>4 DEF NumberOf
  <2>10. /\ files[b] \in FileRow
         /\ recorded[b].upload_status = files[b].upload_status
         /\ recorded[b].processing_status = files[b].processing_status
         /\ recorded[b].chunks_indexed = files[b].chunks_indexed + n
         /\ recorded[b].chunks_failed = files[b].chunks_failed
         /\ recorded[b].chunks_total = files[b].chunks_total
    BY <1>1, <1>3, <1>7 DEF FileRow
  <2>11. files[b].chunks_indexed \in Nat
    BY <2>10 DEF FileRow
  <2>12. Counted(b) /\ Decided(b)
    BY <1>7 DEF FilesAreRight
  <2>13. Counted(b)'
    <3> HIDE DEF b, n
    <3> QED BY <1>1, <1>4, <1>7, <2>8, <2>9, <2>10, <2>11, <2>12 DEF Counted
  <2>14. CASE files'[b].processing_status = recorded[b].processing_status
    <3>1. PICK c : c \in new
      BY DEF Ids
    <3>2. c \in Outstanding(b)
      BY <2>1, <2>2, <3>1 DEF Outstanding
    <3>3. b \in CanReadEmpty \/ ~Terminal(b)
      BY <2>12, <3>2 DEF Decided
    <3> QED BY <2>10, <2>13, <2>14, <3>3 DEF Decided, Terminal
  <2>15. CASE files'[b].processing_status # recorded[b].processing_status
    <3>1. b \in DOMAIN files'
      BY <1>5, <1>7
    <3>2. /\ files'[b].upload_status = "completed"
          /\ ~(files'[b].chunks_indexed + files'[b].chunks_failed < files'[b].chunks_total)
          /\ files'[b].processing_status =
               IF files'[b].chunks_failed = 0 THEN "completed" ELSE "failed"
      BY <1>4, <1>7, <2>15
    <3> QED BY <2>13, <3>1, <3>2, VerdictIsRight
  <2> QED BY <2>13, <2>14, <2>15
<1> QED BY <1>5, <1>6, <1>7 DEF FilesAreRight

\* fail_batch counts the rows it gives up; a row that goes back to the queue was
\* not settled, unless its file's reads may be empty.
LEMMA FailBatchCounts ==
  ASSUME IInv, IInv', BatchesOfOneFile, FilesAreRight,
         NEW w \in Worker, FailBatch(w)
  PROVE  FilesAreRight'
<1> DEFINE batch == jobs[w]
           exhausted == jobs[w] \ Retryable(jobs[w])
<1>0. PICK b, n : b = FileOf(jobs[w]) /\ n = Cardinality(exhausted)
  OBVIOUS
<1> DEFINE recorded == RecordFailed(files, b, n)
<1>1. /\ files' = Refresh(recorded, b)
      /\ files \in [DOMAIN files -> FileRow]
      /\ batch # {}
      /\ n \in Nat
  BY <1>0, BatchesAreCountable DEF FailBatch, IInv, TypeOK
<1>2. /\ SameUploads(files, files')
      /\ SameRows(chunks, chunks')
      /\ \A c \in DOMAIN chunks \cap Ids(batch) :
           chunks'[c].status =
             IF chunks[c].retry_count + 1 < MAX_RETRIES THEN "pending" ELSE "failed"
      /\ \A c \in DOMAIN chunks \ Ids(batch) : chunks'[c] = chunks[c]
  BY FailBatchTables
<1>3. /\ DOMAIN recorded = DOMAIN files
      /\ recorded \in [DOMAIN recorded -> FileRow]
      /\ \A g \in DOMAIN files \ {b} : recorded[g] = files[g]
      /\ b \in DOMAIN files =>
           recorded[b] = [files[b] EXCEPT !.chunks_failed = files[b].chunks_failed + n]
  <2>1. recorded \in [DOMAIN files -> FileRow]
    BY <1>1, RecordedRow
  <2>2. \A g \in DOMAIN files \ {b} : recorded[g] = files[g]
    BY DEF RecordFailed
  <2>3. b \in DOMAIN files =>
          recorded[b] = [files[b] EXCEPT !.chunks_failed = files[b].chunks_failed + n]
    BY DEF RecordFailed
  <2> HIDE DEF recorded
  <2> QED BY <2>1, <2>2, <2>3
<1> HIDE DEF recorded
<1>4. /\ \A g \in DOMAIN files \ {b} : files'[g] = files[g]
      /\ b \in DOMAIN files =>
           /\ files'[b].upload_status = recorded[b].upload_status
           /\ files'[b].chunks_indexed = recorded[b].chunks_indexed
           /\ files'[b].chunks_failed = recorded[b].chunks_failed
           /\ files'[b].chunks_total = recorded[b].chunks_total
           /\ \/ files'[b].processing_status = recorded[b].processing_status
              \/ /\ recorded[b].upload_status = "completed"
                 /\ ~(recorded[b].chunks_indexed + recorded[b].chunks_failed
                        < recorded[b].chunks_total)
                 /\ files'[b].processing_status =
                      IF recorded[b].chunks_failed = 0 THEN "completed" ELSE "failed"
  <2> QED BY <1>1, <1>3, RefreshedRow
<1>5. DOMAIN files' = DOMAIN files /\ \A g : Rows(chunks', g) = Rows(chunks, g)
  BY <1>2 DEF SameUploads, SameRows, Rows
<1>6. ASSUME NEW g \in DOMAIN files, g # b
      PROVE  Counted(g)' /\ Decided(g)'
  <2>1. Rows(chunks, g) \cap Ids(batch) = {}
    BY <1>0, <1>1, <1>6, BatchIsOfFile
  <2>2. \A c \in Rows(chunks, g) : chunks'[c].status = chunks[c].status
    BY <1>2, <2>1 DEF Rows
  <2>3. files'[g] = files[g]
    BY <1>4, <1>6
  <2>4. Counted(g) /\ Decided(g)
    BY DEF FilesAreRight
  <2> QED BY <1>5, <2>2, <2>3, <2>4, UntouchedFile
<1>7. ASSUME b \in DOMAIN files
      PROVE  Counted(b)' /\ Decided(b)'
  <2> DEFINE R == Rows(chunks, b)
             A == R \cap WithStatus(chunks, "indexed")
             A2 == R \cap WithStatus(chunks', "indexed")
             B == R \cap WithStatus(chunks, "failed")
             new == Ids(exhausted)
  <2>1. Ids(batch) \subseteq R
    BY <1>0, <1>1, <1>7, BatchIsOfFile
  <2>2. \A j, k \in batch : j.chunk_id = k.chunk_id => j = k
    <3>1. \A j \in batch : j.chunk_id \in DOMAIN chunks
      BY <2>1 DEF Ids, Rows
    <3>2. \A j \in batch : j = ChunkJob(j.chunk_id)
      BY <3>1 DEF IInv, JobsMirrorRows
    <3> QED BY <3>2
  <2>3. new \subseteq Ids(batch) /\ IsFiniteSet(new) /\ Cardinality(new) = n
    <3>1. IsFiniteSet(exhausted)
      BY FS_Subset DEF IInv, BatchesAreWhole
    <3>2. \A j, k \in exhausted : j.chunk_id = k.chunk_id => j = k
      BY <2>2
    <3> HIDE DEF exhausted
    <3>3. IsFiniteSet(new) /\ Cardinality(new) = n
      BY <1>0, <3>1, <3>2, KeysAreCounted
    <3> QED BY <3>3 DEF exhausted, Ids
  <2>4. \A j \in batch :
          /\ j.chunk_id \in DOMAIN chunks
          /\ j.retry_count = chunks[j.chunk_id].retry_count
          /\ j \in emptied[w] => chunks[j.chunk_id].status = "indexed"
          /\ j \notin emptied[w] => chunks[j.chunk_id].status = "processing"
    <3> TAKE j \in batch
    <3>1. j.chunk_id \in DOMAIN chunks
      BY <2>1 DEF Ids, Rows
    <3> QED BY <3>1, BatchRows
  <2>5. \A c \in Ids(batch) :
          c \in new <=> ~(chunks[c].retry_count + 1 < MAX_RETRIES)
    <3>1. \A j \in batch : j.chunk_id \in new <=> j \in exhausted
      BY <2>2 DEF Ids
    <3>2. \A j \in batch : j \in exhausted <=> ~(chunks[j.chunk_id].retry_count + 1 < MAX_RETRIES)
      BY <2>4 DEF Retryable
    <3> HIDE DEF exhausted, new
    <3> QED BY <3>1, <3>2 DEF Ids
  <2>6. \A c \in Ids(batch) : chunks[c].status # "failed"
    BY <2>4 DEF Ids
  <2>7. R \cap WithStatus(chunks', "failed") = B \cup new
    <3> SUFFICES ASSUME NEW c \in R
                 PROVE  chunks'[c].status = "failed" <=> c \in new \/ chunks[c].status = "failed"
      BY <1>2, <2>1, <2>3 DEF WithStatus, SameRows, Rows
    <3>1. c \in DOMAIN chunks
      BY DEF Rows
    <3>2. CASE c \in Ids(batch)
      <4> HIDE DEF new
      <4> QED BY <1>2, <2>5, <2>6, <3>1, <3>2
    <3>3. CASE c \notin Ids(batch)
      BY <1>2, <2>3, <3>1, <3>3
    <3> QED BY <3>2, <3>3
  <2>8. B \cap new = {}
    BY <2>3, <2>6 DEF WithStatus
  <2>9. IsFiniteSet(A) /\ IsFiniteSet(B)
    BY <1>7, RowsAreFinite, FS_Subset
  <2>10. Cardinality(B \cup new) = Cardinality(B) + n /\ Cardinality(B) \in Nat
    <3> HIDE DEF B, new
    <3>1. Cardinality(B \cup new) = Cardinality(B) + Cardinality(new) - Cardinality(B \cap new)
      BY <2>3, <2>9, FS_Union
    <3>2. Cardinality(B \cap new) = 0
      BY <2>8, FS_EmptySet
    <3>3. Cardinality(B) \in Nat
      BY <2>9, FS_CardinalityType
    <3> QED BY <1>1, <2>3, <3>1, <3>2, <3>3
  <2>11. A2 \subseteq A
    <3> SUFFICES ASSUME NEW c \in R, chunks'[c].status = "indexed"
                 PROVE  chunks[c].status = "indexed"
      BY <1>2 DEF WithStatus, SameRows, Rows
    <3> QED BY <1>2 DEF Rows
  <2>12. b \notin CanReadEmpty => A2 = A
    <3> SUFFICES ASSUME b \notin CanReadEmpty, NEW c \in R, chunks[c].status = "indexed"
                 PROVE  chunks'[c].status = "indexed"
      BY <1>2, <2>11 DEF WithStatus, SameRows, Rows
    <3>1. emptied[w] = {}
      <4>1. \A j \in batch : j.file_id = b
        BY <1>0, <1>1, BatchIsOfFile
      <4>2. emptied[w] \subseteq batch
        BY DEF IInv, BatchesAreWhole
      <4> QED BY <1>7, <4>1, <4>2 DEF BatchesOfOneFile
    <3>2. c \notin Ids(batch)
      BY <2>4, <3>1 DEF Ids
    <3> QED BY <1>2, <3>2 DEF Rows
  <2>13. Cardinality(A2) <= Cardinality(A) /\ Cardinality(A2) \in Nat /\ Cardinality(A) \in Nat
    <3>1. A2 \in SUBSET A
      BY <2>11
    <3> HIDE DEF A, A2
    <3> QED BY <2>9, <3>1, FS_Subset, FS_CardinalityType
  <2>14. NumberOf(b, "failed")' = NumberOf(b, "failed") + n /\ NumberOf(b, "failed") \in Nat
    BY <1>5, <2>7, <2>10 DEF NumberOf
  <2>15. /\ NumberOf(b, "indexed")' \in Nat /\ NumberOf(b, "indexed") \in Nat
         /\ NumberOf(b, "indexed")' <= NumberOf(b, "indexed")
         /\ b \notin CanReadEmpty => NumberOf(b, "indexed")' = NumberOf(b, "indexed")
    BY <1>5, <2>12, <2>13 DEF NumberOf
  <2>16. /\ files[b] \in FileRow
         /\ recorded[b].upload_status = files[b].upload_status
         /\ recorded[b].processing_status = files[b].processing_status
         /\ recorded[b].chunks_indexed = files[b].chunks_indexed
         /\ recorded[b].chunks_failed = files[b].chunks_failed + n
         /\ recorded[b].chunks_total = files[b].chunks_total
    BY <1>1, <1>3, <1>7 DEF FileRow
  <2>17. files[b].chunks_indexed \in Nat /\ files[b].chunks_failed \in Nat
    BY <2>16 DEF FileRow
  <2>18. Counted(b) /\ Decided(b)
    BY <1>7 DEF FilesAreRight
  <2>19. Counted(b)'
    <3> QED BY <1>1, <1>4, <1>7, <2>14, <2>15, <2>16, <2>17, <2>18 DEF Counted
  <2>20. CASE files'[b].processing_status = recorded[b].processing_status
    <3>1. b \in CanReadEmpty \/ ~Terminal(b)
      <4> SUFFICES ASSUME b \notin CanReadEmpty PROVE Outstanding(b) # {}
        BY <2>18 DEF Decided
      <4>1. PICK j \in batch : TRUE
        BY <1>1
      <4>2. j \notin emptied[w]
        <5>1. j.file_id = b
          BY <1>0, <1>1, BatchIsOfFile
        <5> QED BY <1>7, <5>1 DEF BatchesOfOneFile
      <4>3. j.chunk_id \in R
        BY <2>1 DEF Ids
      <4> QED BY <2>4, <4>2, <4>3 DEF Outstanding
    <3> QED BY <2>16, <2>19, <2>20, <3>1 DEF Decided, Terminal
  <2>21. CASE files'[b].processing_status # recorded[b].processing_status
    <3>1. b \in DOMAIN files'
      BY <1>5, <1>7
    <3>2. /\ files'[b].upload_status = "completed"
          /\ ~(files'[b].chunks_indexed + files'[b].chunks_failed < files'[b].chunks_total)
          /\ files'[b].processing_status =
               IF files'[b].chunks_failed = 0 THEN "completed" ELSE "failed"
      BY <1>4, <1>7, <2>21
    <3> QED BY <2>19, <3>1, <3>2, VerdictIsRight
  <2> QED BY <2>19, <2>20, <2>21
<1> QED BY <1>5, <1>6, <1>7 DEF FilesAreRight

----------------------------------------------------------------------------
(* The counters: the other steps *)

\* Rows are only added as pending, to a file whose upload is not completed.
LEMMA EnqueueCounts ==
  ASSUME IInv, FilesAreRight, NEW f \in DOMAIN files, NEW ps \in Passages, Enqueue(f, ps),
         files[f].upload_status # "completed",
         DOMAIN files' = DOMAIN files,
         \A g \in DOMAIN files \ {f} : files'[g] = files[g],
         files'[f].chunks_indexed = files[f].chunks_indexed,
         files'[f].chunks_failed = files[f].chunks_failed,
         files'[f].processing_status = files[f].processing_status
  PROVE  FilesAreRight'
<1>1. PICK n \in Nat :
        AddsPending(chunks, chunks', last_chunk_id, f, n, files[f].next_sequence)
  BY EnqueuedRows, PassagesAreSequences
<1>2. last_chunk_id \in Nat /\ DOMAIN chunks \subseteq 1..last_chunk_id
  BY DEF IInv, TypeOK
<1> DEFINE new == (last_chunk_id + 1)..(last_chunk_id + n)
<1>3. /\ DOMAIN chunks' = DOMAIN chunks \cup new
      /\ \A c \in DOMAIN chunks : chunks'[c] = chunks[c]
      /\ \A c \in new : chunks'[c].file_id = f /\ chunks'[c].status = "pending"
  BY <1>1 DEF AddsPending
<1> HIDE DEF new
<1>4. ASSUME NEW g \in DOMAIN files, g # f
      PROVE  Counted(g)' /\ Decided(g)'
  <2>1. Rows(chunks', g) = Rows(chunks, g)
    BY <1>3, <1>4 DEF Rows
  <2>2. \A c \in Rows(chunks, g) : chunks'[c].status = chunks[c].status
    BY <1>3 DEF Rows
  <2>3. Counted(g) /\ Decided(g) /\ files'[g] = files[g]
    BY <1>4 DEF FilesAreRight
  <2> QED BY <2>1, <2>2, <2>3, UntouchedFile
<1>5. Counted(f)' /\ Decided(f)'
  <2>1. \A s \in {"indexed", "failed"} :
          Rows(chunks', f) \cap WithStatus(chunks', s) = Rows(chunks, f) \cap WithStatus(chunks, s)
    BY <1>3 DEF Rows, WithStatus
  <2>2. Counted(f) /\ Decided(f)
    BY DEF FilesAreRight
  <2>3. ~(f \notin CanReadEmpty /\ Terminal(f)')
    BY <2>2 DEF Decided, Terminal
  <2> QED BY <2>1, <2>2, <2>3, SettledRowsStay
<1> QED BY <1>4, <1>5 DEF FilesAreRight

\* The columns that an append leaves alone.
LEMMA AppendedColumns ==
  ASSUME IInv, NEW f \in DOMAIN files, NEW ps \in Passages,
         \/ files' = UpdateAfterChunk(files, f, Len(ps), NextSequence(f, ps))
         \/ files' = MarkFinalizing(files, f, Len(ps), NextSequence(f, ps))
  PROVE  /\ DOMAIN files' = DOMAIN files
         /\ \A g \in DOMAIN files \ {f} : files'[g] = files[g]
         /\ files'[f].chunks_indexed = files[f].chunks_indexed
         /\ files'[f].chunks_failed = files[f].chunks_failed
         /\ files'[f].processing_status = files[f].processing_status
<1>1. files[f] \in FileRow
  BY DEF IInv, TypeOK
<1> QED BY <1>1 DEF UpdateAfterChunk, MarkFinalizing, FileRow

\* A new file has no rows and no counts.
LEMMA CreateCounts ==
  ASSUME IInv, FilesAreRight, NEW f \in FileId, CreateUpload(f)
  PROVE  FilesAreRight'
<1>1. /\ chunks' = chunks
      /\ f \notin DOMAIN files
      /\ DOMAIN files' = DOMAIN files \cup {f}
      /\ \A g \in DOMAIN files : files'[g] = files[g]
      /\ files'[f] = NewFile
  BY DEF CreateUpload, CreateFile, IInv, TypeOK
<1>2. ASSUME NEW g \in DOMAIN files
      PROVE  Counted(g)' /\ Decided(g)'
  BY <1>1, UntouchedFile DEF FilesAreRight
<1>3. Counted(f)' /\ Decided(f)'
  <2>1. Rows(chunks', f) = {}
    BY <1>1 DEF IInv, RowsHaveFiles, Rows
  <2>2. NumberOf(f, "indexed")' = 0 /\ NumberOf(f, "failed")' = 0
    BY <2>1, FS_EmptySet DEF NumberOf
  <2>3. Counted(f)'
    BY <1>1, <2>2 DEF Counted, NewFile
  <2>4. Decided(f)'
    BY <1>1 DEF Decided, Terminal, NewFile
  <2> QED BY <2>3, <2>4
<1> QED BY <1>1, <1>2, <1>3 DEF FilesAreRight

\* The verdict of an upload that is completed afterwards is still to come.
LEMMA FinishCompleteCounts ==
  ASSUME IInv, FilesAreRight, NEW f \in FileId, FinishComplete(f)
  PROVE  FilesAreRight'
<1>1. /\ chunks' = chunks
      /\ f \in DOMAIN files
      /\ files[f].upload_status = "finalizing"
      /\ DOMAIN files' = DOMAIN files
      /\ \A g \in DOMAIN files \ {f} : files'[g] = files[g]
      /\ files'[f] = [files[f] EXCEPT !.upload_status = "completed"]
  BY DEF FinishComplete, MarkCompleted
<1>2. files[f] \in FileRow
  BY <1>1 DEF IInv, TypeOK
<1>3. /\ files'[f].chunks_indexed = files[f].chunks_indexed
      /\ files'[f].chunks_failed = files[f].chunks_failed
      /\ files'[f].processing_status = files[f].processing_status
  BY <1>1, <1>2 DEF FileRow
<1>4. ASSUME NEW g \in DOMAIN files, g # f
      PROVE  Counted(g)' /\ Decided(g)'
  BY <1>1, <1>4, UntouchedFile DEF FilesAreRight
<1>5. Counted(f)' /\ Decided(f)'
  <2>1. Counted(f) /\ Decided(f)
    BY <1>1 DEF FilesAreRight
  <2>2. ~(f \notin CanReadEmpty /\ Terminal(f)')
    BY <1>1, <1>3, <2>1 DEF Decided, Terminal
  <2> QED BY <1>1, <1>3, <2>1, <2>2, SettledRowsStay
<1> QED BY <1>1, <1>4, <1>5 DEF FilesAreRight

\* A delete takes a file with its rows and leaves the others alone.
LEMMA DeleteCounts ==
  ASSUME IInv, FilesAreRight, NEW f \in FileId, DeleteUpload(f)
  PROVE  FilesAreRight'
<1>1. /\ DOMAIN files' = DOMAIN files \ {f}
      /\ \A g \in DOMAIN files' : files'[g] = files[g]
      /\ DOMAIN chunks' = DOMAIN chunks \ Rows(chunks, f)
      /\ \A c \in DOMAIN chunks' : chunks'[c] = chunks[c]
  BY DEF DeleteUpload, DeleteFile, DeleteChunks
<1>2. ASSUME NEW g \in DOMAIN files'
      PROVE  Counted(g)' /\ Decided(g)'
  <2>1. /\ Rows(chunks', g) = Rows(chunks, g)
        /\ \A c \in Rows(chunks, g) : chunks'[c].status = chunks[c].status
    BY <1>1 DEF Rows
  <2>2. Counted(g) /\ Decided(g) /\ files'[g] = files[g]
    BY <1>1 DEF FilesAreRight
  <2> QED BY <2>1, <2>2, UntouchedFile
<1> QED BY <1>2 DEF FilesAreRight

\* A claim moves rows from one outstanding state to the other.
LEMMA ClaimCounts ==
  ASSUME IInv, FilesAreRight, NEW w \in Worker, ClaimBatch(w)
  PROVE  FilesAreRight'
<1>1. PICK f, ids :
        /\ ids = SelectPendingForFile(chunks, f, CLAIM_BATCH_SIZE)
        /\ chunks' = SetStatus(chunks, ids, "processing")
        /\ files' = MarkProcessingStarted(files, f)
  BY DEF ClaimBatch, MarkProcessing
<1>2. /\ ids \subseteq DOMAIN chunks
      /\ \A c \in ids : chunks[c].status = "pending"
  BY <1>1, ClaimedRows
<1>3. chunks \in [DOMAIN chunks -> ChunkRow] /\ "processing" \in ChunkStatus
  BY DEF IInv, TypeOK, ChunkStatus
<1>4. /\ SameRows(chunks, chunks')
      /\ \A c \in DOMAIN chunks :
           chunks'[c].status = IF c \in ids THEN "processing" ELSE chunks[c].status
  BY <1>1, <1>3, SetStatusColumns
<1>5. /\ DOMAIN files' = DOMAIN files
      /\ \A g \in DOMAIN files :
           files'[g] = IF g = f /\ files[g].processing_status = "pending"
                       THEN [files[g] EXCEPT !.processing_status = "processing"]
                       ELSE files[g]
  BY <1>1 DEF MarkProcessingStarted
<1>6. ASSUME NEW g \in DOMAIN files
      PROVE  Counted(g)' /\ Decided(g)'
  <2>1. Rows(chunks', g) = Rows(chunks, g)
    BY <1>4 DEF SameRows, Rows
  <2>2. \A s \in {"indexed", "failed"} :
          Rows(chunks', g) \cap WithStatus(chunks', s) = Rows(chunks, g) \cap WithStatus(chunks, s)
    BY <1>2, <1>4, <2>1 DEF Rows, WithStatus, SameRows
  <2>3. Outstanding(g)' = Outstanding(g)
    <3>1. \A c \in Rows(chunks, g) :
            chunks'[c].status \in {"pending", "processing"}
              <=> chunks[c].status \in {"pending", "processing"}
      BY <1>2, <1>4 DEF Rows
    <3> QED BY <2>1, <3>1 DEF Outstanding
  <2>4. files[g] \in FileRow
    BY DEF IInv, TypeOK
  <2>5. /\ files'[g].chunks_indexed = files[g].chunks_indexed
        /\ files'[g].chunks_failed = files[g].chunks_failed
        /\ files'[g].upload_status = files[g].upload_status
        /\ files'[g].processing_status \in {"processing", files[g].processing_status}
    BY <1>5, <2>4 DEF FileRow
  <2>6. Counted(g) /\ Decided(g)
    BY DEF FilesAreRight
  <2>7. g \notin CanReadEmpty /\ Terminal(g)' =>
          /\ files'[g].processing_status = files[g].processing_status
          /\ files'[g].upload_status = "completed"
    BY <2>5, <2>6 DEF Decided, Terminal
  <2> QED BY <2>2, <2>3, <2>5, <2>6, <2>7, SettledRowsStay
<1> QED BY <1>5, <1>6 DEF FilesAreRight

\* Recovery puts back rows and uploads that nobody works on any more; a file
\* with a verdict has neither.
LEMMA RecoverCounts ==
  ASSUME IInv, FilesAreRight, RecoverStuckJobs
  PROVE  FilesAreRight'
<1> DEFINE stuck == WithStatus(chunks, "processing")
<1>1. /\ chunks' = SetStatus(chunks, stuck, "pending")
      /\ files' = RevertStuckFinalizing(MarkInterruptedUploads(files))
  BY DEF RecoverStuckJobs, ResetStuckProcessing
<1>2. chunks \in [DOMAIN chunks -> ChunkRow] /\ "pending" \in ChunkStatus
  BY DEF IInv, TypeOK, ChunkStatus
<1>3. /\ SameRows(chunks, chunks')
      /\ \A c \in DOMAIN chunks :
           chunks'[c].status = IF c \in stuck THEN "pending" ELSE chunks[c].status
  BY <1>1, <1>2, SetStatusColumns
<1>4. /\ DOMAIN files' = DOMAIN files
      /\ \A g \in DOMAIN files :
           /\ files'[g].chunks_indexed = files[g].chunks_indexed
           /\ files'[g].chunks_failed = files[g].chunks_failed
           /\ files'[g].processing_status = files[g].processing_status
           /\ files[g].upload_status = "completed" => files'[g].upload_status = "completed"
  <2>1. \A g \in DOMAIN files : files[g] \in FileRow
    BY DEF IInv, TypeOK
  <2> QED BY <1>1, <2>1 DEF RevertStuckFinalizing, MarkInterruptedUploads, MoveUploads, FileRow
<1>5. ASSUME NEW g \in DOMAIN files
      PROVE  Counted(g)' /\ Decided(g)'
  <2>1. Rows(chunks', g) = Rows(chunks, g)
    BY <1>3 DEF SameRows, Rows
  <2>2. \A s \in {"indexed", "failed"} :
          Rows(chunks', g) \cap WithStatus(chunks', s) = Rows(chunks, g) \cap WithStatus(chunks, s)
    BY <1>3, <2>1 DEF Rows, WithStatus, SameRows
  <2>3. Outstanding(g)' = Outstanding(g)
    <3>1. \A c \in Rows(chunks, g) :
            chunks'[c].status \in {"pending", "processing"}
              <=> chunks[c].status \in {"pending", "processing"}
      BY <1>3 DEF Rows, WithStatus
    <3> QED BY <2>1, <3>1 DEF Outstanding
  <2>4. Counted(g) /\ Decided(g)
    BY DEF FilesAreRight
  <2>5. g \notin CanReadEmpty /\ Terminal(g)' => files'[g].upload_status = "completed"
    BY <1>4, <2>4 DEF Decided, Terminal
  <2> QED BY <1>4, <2>2, <2>3, <2>4, <2>5, SettledRowsStay
<1> QED BY <1>4, <1>5 DEF FilesAreRight

----------------------------------------------------------------------------
(* The counters: the theorems *)

\* No step of a client, a worker or the process leaves the invariant.
LEMMA CountersInductive == IInv /\ IInv' /\ CountersInv /\ [Next]_vars => CountersInv'
<1> SUFFICES ASSUME IInv, IInv', BatchesOfOneFile, FilesAreRight, [Next]_vars
             PROVE  BatchesOfOneFile' /\ FilesAreRight'
  BY DEF CountersInv
<1>1. ASSUME NEW f \in FileId, CreateUpload(f)
      PROVE  BatchesOfOneFile' /\ FilesAreRight'
  BY <1>1, CreateKeepsBatches, CreateCounts
<1>2. ASSUME NEW f \in FileId, NEW passages \in Passages,
             AppendChunk(f, passages) \/ BeginComplete(f, passages)
      PROVE  BatchesOfOneFile' /\ FilesAreRight'
  <2>1. /\ f \in DOMAIN files
        /\ files[f].upload_status # "completed"
        /\ Enqueue(f, passages)
        /\ UNCHANGED <<used_ids, jobs, emptied>>
        /\ \/ files' = UpdateAfterChunk(files, f, Len(passages), NextSequence(f, passages))
           \/ files' = MarkFinalizing(files, f, Len(passages), NextSequence(f, passages))
    BY <1>2 DEF AppendChunk, BeginComplete, memory
  <2>2. /\ DOMAIN files' = DOMAIN files
        /\ \A g \in DOMAIN files \ {f} : files'[g] = files[g]
        /\ files'[f].chunks_indexed = files[f].chunks_indexed
        /\ files'[f].chunks_failed = files[f].chunks_failed
        /\ files'[f].processing_status = files[f].processing_status
    BY <2>1, AppendedColumns
  <2>3. FilesAreRight'
    BY <2>1, <2>2, EnqueueCounts
  <2>4. DOMAIN chunks \subseteq DOMAIN chunks'
    BY <2>1, EnqueuedRows DEF AddsPending
  <2>5. \A w \in Worker : jobs'[w] = jobs[w] /\ emptied'[w] = emptied[w]
    BY <2>1
  <2> QED BY <2>1, <2>2, <2>3, <2>4, <2>5, BatchesStayOfOneFile
<1>3. ASSUME NEW f \in FileId, FinishComplete(f)
      PROVE  BatchesOfOneFile' /\ FilesAreRight'
  <2>1. UNCHANGED <<chunks, used_ids, jobs, emptied>> /\ DOMAIN files' = DOMAIN files
    BY <1>3 DEF FinishComplete, MarkCompleted, memory
  <2> QED BY <1>3, <2>1, BatchesStayOfOneFile, FinishCompleteCounts
<1>4. ASSUME NEW f \in FileId, DeleteUpload(f)
      PROVE  BatchesOfOneFile' /\ FilesAreRight'
  BY <1>4, DeleteKeepsBatches, DeleteCounts
<1>5. ASSUME NEW w \in Worker, ClaimBatch(w)
      PROVE  BatchesOfOneFile' /\ FilesAreRight'
  BY <1>5, ClaimKeepsBatches, ClaimCounts
<1>6. ASSUME NEW w \in Worker, NEW empty \in SUBSET jobs[w], CompleteEmpty(w, empty)
      PROVE  BatchesOfOneFile' /\ FilesAreRight'
  <2>1. empty # {} /\ empty \cap emptied[w] = {} /\ CompleteBatch(empty)
    BY <1>6 DEF CompleteEmpty
  <2> QED BY <1>6, <2>1, CompleteEmptyKeepsBatches, CompleteBatchCounts
<1>7. ASSUME NEW w \in Worker,
             jobs' = [jobs EXCEPT ![w] = {}], used_ids' = used_ids,
             emptied' = [emptied EXCEPT ![w] = {}],
             DOMAIN files' = DOMAIN files, DOMAIN chunks' = DOMAIN chunks
      PROVE  BatchesOfOneFile'
  <2>1. jobs \in [Worker -> SUBSET Job] /\ emptied \in [Worker -> SUBSET Job]
    BY DEF IInv, TypeOK
  <2>2. \A v \in Worker :
          jobs'[v] = {} \/ (jobs'[v] = jobs[v] /\ emptied'[v] = emptied[v])
    BY <1>7, <2>1
  <2> QED BY <1>7, <2>2, BatchesStayOfOneFile
<1>8. ASSUME NEW w \in Worker, CompleteKept(w)
      PROVE  BatchesOfOneFile' /\ FilesAreRight'
  <2> DEFINE kept == jobs[w] \ emptied[w]
  <2>1. /\ jobs' = [jobs EXCEPT ![w] = {}] /\ used_ids' = used_ids
        /\ emptied' = [emptied EXCEPT ![w] = {}]
        /\ jobs[w] # {} /\ CompleteBatch(kept)
    BY <1>8 DEF CompleteKept
  <2>2. kept # {} /\ kept \in SUBSET jobs[w] /\ kept \cap emptied[w] = {}
    <3>1. emptied[w] \subseteq jobs[w]
      BY DEF IInv, BatchesAreWhole
    <3>2. emptied[w] # jobs[w]
      BY <2>1 DEF BatchesOfOneFile
    <3> QED BY <3>1, <3>2
  <2>3. SameUploads(files, files') /\ SameRows(chunks, chunks')
    BY <2>1, <2>2, CompleteBatchTables
  <2>4. BatchesOfOneFile'
    BY <1>7, <2>1, <2>3 DEF SameUploads, SameRows
  <2> HIDE DEF kept
  <2> QED BY <2>1, <2>2, <2>4, CompleteBatchCounts
<1>9. ASSUME NEW w \in Worker, FailBatch(w)
      PROVE  BatchesOfOneFile' /\ FilesAreRight'
  <2>1. /\ jobs' = [jobs EXCEPT ![w] = {}] /\ used_ids' = used_ids
        /\ emptied' = [emptied EXCEPT ![w] = {}]
    BY <1>9 DEF FailBatch
  <2>2. SameUploads(files, files') /\ SameRows(chunks, chunks')
    BY <1>9, FailBatchTables
  <2> QED BY <1>7, <1>9, <2>1, <2>2, FailBatchCounts DEF SameUploads, SameRows
<1>10. ASSUME UNCHANGED <<files, chunks>> PROVE FilesAreRight'
  BY <1>10, UntouchedFile DEF FilesAreRight
<1>11. ASSUME NEW w \in Worker, AbandonBatch(w)
       PROVE  BatchesOfOneFile' /\ FilesAreRight'
  <2>1. /\ jobs' = [jobs EXCEPT ![w] = {}] /\ used_ids' = used_ids
        /\ emptied' = [emptied EXCEPT ![w] = {}]
        /\ UNCHANGED <<files, chunks>>
    BY <1>11 DEF AbandonBatch, tables
  <2> QED BY <1>7, <1>10, <2>1
<1>12. CASE Crash
  <2>1. UNCHANGED <<files, chunks, used_ids>> /\ \A w \in Worker : jobs'[w] = {}
    BY <1>12 DEF Crash, tables
  <2> QED BY <1>10, <2>1, BatchesStayOfOneFile
<1>13. CASE RecoverStuckJobs
  <2>1. /\ UNCHANGED <<used_ids, jobs, emptied>>
        /\ DOMAIN files' = DOMAIN files /\ DOMAIN chunks' = DOMAIN chunks
    BY <1>13 DEF RecoverStuckJobs, ResetStuckProcessing, SetStatus, RevertStuckFinalizing,
                 MarkInterruptedUploads, MoveUploads, memory
  <2> QED BY <1>13, <2>1, BatchesStayOfOneFile, RecoverCounts
<1>14. CASE UNCHANGED vars
  <2>1. UNCHANGED <<files, chunks, used_ids, jobs, emptied>>
    BY <1>14 DEF vars
  <2> QED BY <1>10, <2>1, BatchesStayOfOneFile
<1> QED BY <1>1, <1>2, <1>3, <1>4, <1>5, <1>6, <1>8, <1>9, <1>11, <1>12, <1>13, <1>14
        DEF Next, Work

\* The counters are right, and the batches of one file, throughout every run.
LEMMA CountersInvariantHolds == Spec => []CountersInv
<1>1. Init => CountersInv
  BY DEF Init, CountersInv, BatchesOfOneFile, FilesAreRight, EmptyTable
<1> QED BY <1>1, CountersInductive, InvariantHolds, PTL DEF Spec

\* complete_batch and fail_batch count in increments, each in a transaction of
\* its own and some of them for rows that are settled again later.  Whatever
\* crashes, retries, deletes and raising calls come in between, chunks_failed
\* is the number of failed rows of the file, and chunks_indexed that of its
\* indexed rows (never less, where reads may be empty).
THEOREM CountersAreRight == Spec => []CountersAgree
<1>1. CountersInv => CountersAgree
  BY DEF CountersInv, FilesAreRight, Counted, CountersAgree
<1> QED BY <1>1, CountersInvariantHolds, PTL

\* _refresh_processing_status: a verdict is given only to a completed upload
\* with nothing outstanding, it is "completed" exactly when no passage failed,
\* and it stays right: nothing puts such a file's rows back.
THEOREM VerdictsAreRight == Spec => []TerminalMeansSettled
<1>1. CountersInv => TerminalMeansSettled
  BY DEF CountersInv, FilesAreRight, Decided, TerminalMeansSettled
<1> QED BY <1>1, CountersInvariantHolds, PTL
=============================================================================
