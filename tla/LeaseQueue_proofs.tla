-------------------------- MODULE LeaseQueue_proofs --------------------------
(***************************************************************************)
(* The tables, batches and counters of the job queue implement the         *)
(* promise of LeaseQueue, for every number of files, passages, workers,    *)
(* retries, crashes and faults.                                            *)
(***************************************************************************)
EXTENDS JobQueue_proofs

\* The variables of LeaseQueue, as functions of the queue's state.
Given == 1..last_chunk_id
Queued == WithStatus(chunks, "pending")
HeldBy == [w \in Worker |-> Held(w)]
Stuck == WithStatus(chunks, "processing") \ HeldRows
Settled ==
  (WithStatus(chunks, "indexed") \cup WithStatus(chunks, "failed")) \ HeldRows

LeaseVars == <<Given, Queued, HeldBy, Stuck, Settled>>

\* Every row has one of four statuses.
LEMMA FourStatuses ==
  ASSUME IInv, NEW c \in DOMAIN chunks
  PROVE  chunks[c].status \in {"pending", "processing", "indexed", "failed"}
<1>1. chunks[c] \in ChunkRow
  BY DEF IInv, TypeOK
<1>2. QED
  BY <1>1 DEF ChunkRow, ChunkStatus

\* A row in a worker's hands waits for nobody: it is being worked on, or was
\* completed as an empty read.
LEMMA HeldStatuses ==
  ASSUME IInv, NEW w \in Worker, NEW c \in Held(w)
  PROVE  c \in DOMAIN chunks /\ chunks[c].status \in {"processing", "indexed"}
<1>1. PICK j \in jobs[w] : c = j.chunk_id
  BY DEF Held, Ids
<1>2. c \in DOMAIN chunks
  BY DEF Held
<1>3. QED
  BY <1>1, <1>2, BatchRows

\* What two workers hold is disjoint.
LEMMA HeldApart ==
  ASSUME IInv, NEW v \in Worker, NEW w \in Worker, v # w
  PROVE  Held(v) \cap Held(w) = {}
BY DEF IInv, ClaimsAreExclusive, Held

----------------------------------------------------------------------------
(* Steps that add or remove rows *)

\* New rows are queued and were never given before.
LEMMA EnqueueIsAdd ==
  ASSUME IInv, NEW f \in DOMAIN files, NEW ps \in Passages, Enqueue(f, ps),
         jobs' = jobs
  PROVE  Lease!Next
<1> DEFINE new == (last_chunk_id + 1)..(last_chunk_id + Len(ps))
<1>1. /\ last_chunk_id \in Nat /\ Len(ps) \in Nat
      /\ DOMAIN chunks \subseteq 1..last_chunk_id
      /\ last_chunk_id' = last_chunk_id + Len(ps)
      /\ last_chunk_id + Len(ps) <= MaxChunkId
  BY PassagesAreSequences DEF IInv, TypeOK, Enqueue
<1>2. /\ DOMAIN chunks' = DOMAIN chunks \cup new
      /\ \A c \in DOMAIN chunks : chunks'[c] = chunks[c]
      /\ \A c \in new : chunks'[c].status = "pending"
  <2>1. AddsPending(chunks, chunks', last_chunk_id, f, Len(ps), files[f].next_sequence)
    BY EnqueuedRows
  <2>2. QED
    BY <2>1 DEF AddsPending
<1>3. /\ Given' = Given \cup new
      /\ new \cap Given = {}
      /\ new \in SUBSET (1..MaxChunkId)
  BY <1>1, BoundAssumption DEF Given
<1>4. new \cap DOMAIN chunks = {}
  BY <1>1
<1> HIDE DEF new
<1>5. \A w \in Worker : Held(w)' = Held(w)
  <2> SUFFICES ASSUME NEW w \in Worker PROVE Held(w)' = Held(w)
    OBVIOUS
  <2>1. \A c \in Ids(jobs[w]) : c \notin new
    <3>1. \A j \in jobs[w] : j.chunk_id \in Nat /\ j.chunk_id <= last_chunk_id
      BY DEF IInv, TypeOK, BatchesAreWhole, Job
    <3>2. QED
      BY <1>1, <3>1 DEF Ids, new
  <2>2. Ids(jobs[w])' = Ids(jobs[w])
    BY DEF Ids
  <2>3. QED
    BY <1>2, <2>1, <2>2 DEF Held
<1>6. HeldBy' = HeldBy /\ HeldRows' = HeldRows
  BY <1>5 DEF HeldBy, HeldRows
<1>7. HeldRows \subseteq DOMAIN chunks
  BY DEF HeldRows, Held
<1>8. /\ Queued' = Queued \cup new
      /\ Stuck' = Stuck
      /\ Settled' = Settled
  BY <1>2, <1>4, <1>6, <1>7 DEF Queued, Stuck, Settled, WithStatus
<1>9. Lease!Add(new)
  BY <1>3, <1>6, <1>8 DEF Lease!Add, Given, Queued, HeldBy, Stuck, Settled
<1>10. QED
  BY <1>3, <1>9 DEF Lease!Next

\* A delete takes the rows of a file from wherever they are.
LEMMA DeleteIsDelete ==
  ASSUME IInv, NEW f \in FileId, DeleteUpload(f)
  PROVE  Lease!Next
<1> DEFINE gone == Rows(chunks, f)
<1>1. /\ DOMAIN chunks' = DOMAIN chunks \ gone
      /\ \A c \in DOMAIN chunks' : chunks'[c] = chunks[c]
      /\ jobs' = jobs /\ last_chunk_id' = last_chunk_id
  BY DEF DeleteUpload, DeleteChunks, memory
<1>2. gone \subseteq DOMAIN chunks
  BY DEF Rows
<1>3. gone \in SUBSET Given
  BY <1>2 DEF IInv, TypeOK, Given
<1> HIDE DEF gone
<1>4. ASSUME NEW w \in Worker PROVE Held(w)' = Held(w) \ gone
  <2>1. Ids(jobs[w])' = Ids(jobs[w])
    BY <1>1 DEF Ids
  <2>2. QED
    BY <1>1, <2>1 DEF Held
<1>5. /\ HeldBy' = [w \in Worker |-> HeldBy[w] \ gone]
      /\ HeldRows' = HeldRows \ gone
  BY <1>4 DEF HeldBy, HeldRows
<1>6. /\ Queued' = Queued \ gone
      /\ Stuck' = Stuck \ gone
      /\ Settled' = Settled \ gone
      /\ Given' = Given
  BY <1>1, <1>5 DEF Queued, Stuck, Settled, Given, WithStatus
<1>7. Lease!Delete(gone)
  BY <1>5, <1>6 DEF Lease!Delete, Given, Queued, HeldBy, Stuck, Settled
<1>8. QED
  BY <1>3, <1>7 DEF Lease!Next, Given

----------------------------------------------------------------------------
(* Steps of the workers *)

\* A worker that lets its batch go decides, by what it leaves in the rows, what
\* is tried again and what is stuck; everything else of the batch is settled.
LetGo(w, again, lost) ==
  /\ again \in SUBSET Held(w)
  /\ lost \in SUBSET Held(w)
  /\ Given' = Given
  /\ Queued' = Queued \cup again
  /\ HeldBy' = [HeldBy EXCEPT ![w] = {}]
  /\ Stuck' = Stuck \cup lost
  /\ Settled' = Settled \cup ((Held(w) \ again) \ lost)

\* Any update of a worker's own rows that lets the batch go is of this form.
LEMMA BatchIsLetGo ==
  ASSUME IInv, NEW w \in Worker,
         jobs' = [jobs EXCEPT ![w] = {}],
         last_chunk_id' = last_chunk_id,
         SameRows(chunks, chunks'),
         \A c \in DOMAIN chunks \ Ids(jobs[w]) : chunks'[c] = chunks[c]
  PROVE  LetGo(w, {c \in Held(w) : chunks'[c].status = "pending"},
                  {c \in Held(w) : chunks'[c].status = "processing"})
<1> DEFINE mine == Held(w)
           again == {c \in Held(w) : chunks'[c].status = "pending"}
           lost == {c \in Held(w) : chunks'[c].status = "processing"}
<1>1. /\ DOMAIN chunks' = DOMAIN chunks
      /\ \A c \in DOMAIN chunks :
           chunks'[c].status \in {"pending", "processing", "indexed", "failed"}
  <2>1. \A c \in DOMAIN chunks : chunks'[c] \in ChunkRow
    BY DEF SameRows
  <2>2. QED
    BY <2>1 DEF SameRows, ChunkRow, ChunkStatus
<1>2. jobs \in [Worker -> SUBSET Job]
  BY DEF IInv, TypeOK
<1>3. Held(w)' = {}
  BY <1>2 DEF Held, Ids
<1>4. ASSUME NEW v \in Worker, v # w PROVE Held(v)' = Held(v)
  <2>1. Ids(jobs[v])' = Ids(jobs[v])
    BY <1>2, <1>4 DEF Ids
  <2>2. QED
    BY <1>1, <2>1 DEF Held
<1>5. \A v \in Worker : v # w => Held(v) \cap mine = {}
  BY HeldApart
<1>6. /\ HeldBy' = [HeldBy EXCEPT ![w] = {}]
      /\ HeldRows' = HeldRows \ mine
  <2>1. HeldBy' = [HeldBy EXCEPT ![w] = {}]
    BY <1>3, <1>4 DEF HeldBy
  <2>2. HeldRows' = HeldRows \ mine
    BY <1>3, <1>4, <1>5 DEF HeldRows
  <2>3. QED
    BY <2>1, <2>2
<1>7. /\ mine \subseteq DOMAIN chunks
      /\ mine \subseteq HeldRows
      /\ \A c \in DOMAIN chunks \ mine : chunks'[c] = chunks[c]
  BY DEF Held, HeldRows
<1>8. \A c \in mine : chunks[c].status \in {"processing", "indexed"}
  BY HeldStatuses
<1> HIDE DEF mine
<1>9. Queued' = Queued \cup again
  BY <1>1, <1>7, <1>8 DEF Queued, WithStatus, mine
<1>10. Stuck' = Stuck \cup lost
  BY <1>1, <1>6, <1>7, <1>8 DEF Stuck, WithStatus, mine
<1>11. Settled' = Settled \cup ((mine \ again) \ lost)
  BY <1>1, <1>6, <1>7, <1>8 DEF Settled, WithStatus, mine
<1>12. Given' = Given
  BY DEF Given
<1>13. QED
  BY <1>6, <1>9, <1>10, <1>11, <1>12 DEF LetGo, mine

\* A batch that was decided row by row is released.
LEMMA DecidedIsRelease ==
  ASSUME NEW w \in Worker, NEW again, LetGo(w, again, {})
  PROVE  Lease!Next
<1>1. Lease!Release(w, again)
  BY DEF LetGo, Lease!Release, Given, Queued, HeldBy, Stuck, Settled
<1>2. again \in SUBSET HeldBy[w]
  BY DEF LetGo, HeldBy
<1>3. QED
  BY <1>1, <1>2 DEF Lease!Next, HeldBy

\* A batch that nobody decided is lost, but for its empty reads.
LEMMA UndecidedIsLose ==
  ASSUME NEW w \in Worker, NEW lost, LetGo(w, {}, lost)
  PROVE  Lease!Next
<1>1. Lease!Lose(w, lost)
  BY DEF LetGo, Lease!Lose, Given, Queued, HeldBy, Stuck, Settled
<1>2. lost \in SUBSET HeldBy[w]
  BY DEF LetGo, HeldBy
<1>3. QED
  BY <1>1, <1>2 DEF Lease!Next, HeldBy

\* Steps that move no row and no batch do not show.
LEMMA NothingMoves ==
  ASSUME UNCHANGED <<chunks, jobs, last_chunk_id>>
  PROVE  UNCHANGED LeaseVars
BY DEF LeaseVars, Given, Queued, HeldBy, Stuck, Settled, Held, HeldRows, Ids, WithStatus

\* A claim leases rows that waited, to a worker that held none.
LEMMA ClaimIsLease ==
  ASSUME IInv, NEW w \in Worker, ClaimBatch(w)
  PROVE  Lease!Next
<1>1. PICK f, ids :
        /\ ids = SelectPendingForFile(chunks, f, CLAIM_BATCH_SIZE)
        /\ chunks' = SetStatus(chunks, ids, "processing")
        /\ jobs' = [jobs EXCEPT ![w] = {ChunkJob(c) : c \in ids}]
  BY DEF ClaimBatch, MarkProcessing
<1> DEFINE claimed == {ChunkJob(c) : c \in ids}
<1>2. /\ ids \subseteq DOMAIN chunks
      /\ \A c \in ids : chunks[c].status = "pending"
      /\ Ids(claimed) = ids
  BY <1>1, ClaimedRows
<1>3. /\ jobs[w] = {} /\ last_chunk_id' = last_chunk_id
      /\ jobs \in [Worker -> SUBSET Job]
      /\ chunks \in [DOMAIN chunks -> ChunkRow]
      /\ "processing" \in ChunkStatus
  BY DEF ClaimBatch, IInv, TypeOK, ChunkStatus
<1>4. /\ jobs'[w] = claimed
      /\ \A v \in Worker : v # w => jobs'[v] = jobs[v]
  BY <1>1, <1>3
<1> HIDE DEF claimed
<1>5. /\ DOMAIN chunks' = DOMAIN chunks
      /\ \A c \in DOMAIN chunks :
           chunks'[c].status = IF c \in ids THEN "processing" ELSE chunks[c].status
  BY <1>1, <1>3, SetStatusColumns DEF SameRows
<1>6. Held(w) = {} /\ Held(w)' = ids
  <2>1. Ids(jobs[w])' = ids
    BY <1>2, <1>4 DEF Ids
  <2>2. QED
    BY <1>2, <1>3, <1>5, <2>1 DEF Held, Ids
<1>7. ASSUME NEW v \in Worker, v # w PROVE Held(v)' = Held(v)
  <2>1. Ids(jobs[v])' = Ids(jobs[v])
    BY <1>4, <1>7 DEF Ids
  <2>2. QED
    BY <1>5, <2>1 DEF Held
<1>8. HeldBy' = [HeldBy EXCEPT ![w] = ids]
  BY <1>6, <1>7 DEF HeldBy
<1>9. HeldRows' = HeldRows \cup ids
  BY <1>6, <1>7 DEF HeldRows
<1>10. /\ Queued' = Queued \ ids
       /\ Stuck' = Stuck
       /\ Settled' = Settled
       /\ Given' = Given
  BY <1>2, <1>3, <1>5, <1>9 DEF Queued, Stuck, Settled, Given, WithStatus
<1>11. Lease!Lease(w, ids)
  BY <1>6, <1>8, <1>10 DEF Lease!Lease, Given, Queued, HeldBy, Stuck, Settled
<1>12. ids \in SUBSET Queued
  BY <1>2 DEF Queued, WithStatus
<1>13. QED
  BY <1>11, <1>12 DEF Lease!Next, Queued

\* complete_batch after the upsert settles the whole batch.
LEMMA CompleteKeptIsRelease ==
  ASSUME IInv, NEW w \in Worker, CompleteKept(w)
  PROVE  Lease!Next
<1> DEFINE kept == jobs[w] \ emptied[w]
           again == {c \in Held(w) : chunks'[c].status = "pending"}
           lost == {c \in Held(w) : chunks'[c].status = "processing"}
<1>1. /\ SameRows(chunks, chunks')
      /\ \A c \in DOMAIN chunks :
           chunks'[c].status = IF c \in Ids(kept) THEN "indexed" ELSE chunks[c].status
      /\ \A c \in DOMAIN chunks \ Ids(kept) : chunks'[c] = chunks[c]
  BY CompleteBatchTables DEF CompleteKept
<1>2. Ids(kept) \subseteq Ids(jobs[w])
  BY DEF Ids
<1>3. LetGo(w, again, lost)
  BY <1>1, <1>2, BatchIsLetGo DEF CompleteKept
<1>4. ASSUME NEW c \in Held(w) PROVE chunks'[c].status = "indexed"
  <2>1. c \in DOMAIN chunks
    BY DEF Held
  <2>2. PICK j \in jobs[w] : c = j.chunk_id
    BY DEF Held, Ids
  <2>3. CASE j \in emptied[w]
    BY <1>1, <2>1, <2>2, <2>3, BatchRows
  <2>4. CASE j \notin emptied[w]
    BY <1>1, <2>1, <2>2, <2>4 DEF Ids
  <2>5. QED
    BY <2>3, <2>4
<1>5. again = {} /\ lost = {}
  BY <1>4
<1> HIDE DEF again, lost
<1>6. QED
  BY <1>3, <1>5, DecidedIsRelease

\* Completing the empty reads settles the batch when it holds nothing else;
\* otherwise the worker keeps it, and nothing shows.
LEMMA CompleteEmptyIsRelease ==
  ASSUME IInv, NEW w \in Worker, NEW empty \in SUBSET jobs[w], CompleteEmpty(w, empty)
  PROVE  Lease!Next \/ UNCHANGED LeaseVars
<1> DEFINE again == {c \in Held(w) : chunks'[c].status = "pending"}
           lost == {c \in Held(w) : chunks'[c].status = "processing"}
<1>1. /\ SameRows(chunks, chunks')
      /\ \A c \in DOMAIN chunks :
           chunks'[c].status = IF c \in Ids(empty) THEN "indexed" ELSE chunks[c].status
      /\ \A c \in DOMAIN chunks \ Ids(empty) : chunks'[c] = chunks[c]
  BY CompleteBatchTables DEF CompleteEmpty
<1>2. /\ jobs' = [jobs EXCEPT ![w] = IF empty = jobs[w] THEN {} ELSE jobs[w]]
      /\ last_chunk_id' = last_chunk_id
      /\ jobs \in [Worker -> SUBSET Job]
  BY DEF CompleteEmpty, IInv, TypeOK
<1>3. CASE empty = jobs[w]
  <2>1. LetGo(w, again, lost)
    BY <1>1, <1>2, <1>3, BatchIsLetGo
  <2>2. \A c \in Held(w) : chunks'[c].status = "indexed"
    BY <1>1, <1>3 DEF Held
  <2>3. again = {} /\ lost = {}
    BY <2>2
  <2> HIDE DEF again, lost
  <2>4. QED
    BY <2>1, <2>3, DecidedIsRelease
<1>4. CASE empty # jobs[w]
  <2>1. jobs' = jobs
    BY <1>2, <1>4
  <2>2. DOMAIN chunks' = DOMAIN chunks
    BY <1>1 DEF SameRows
  <2>3. \A v \in Worker : Held(v)' = Held(v)
    BY <2>1, <2>2 DEF Held, Ids
  <2>4. HeldBy' = HeldBy /\ HeldRows' = HeldRows
    BY <2>3 DEF HeldBy, HeldRows
  <2>5. \A c \in DOMAIN chunks \cap Ids(empty) :
          /\ c \in HeldRows
          /\ chunks[c].status \in {"processing", "indexed"}
          /\ chunks'[c].status = "indexed"
    <3> SUFFICES ASSUME NEW c \in DOMAIN chunks \cap Ids(empty)
                 PROVE  /\ c \in HeldRows
                        /\ chunks[c].status \in {"processing", "indexed"}
                        /\ chunks'[c].status = "indexed"
      OBVIOUS
    <3>1. c \in Held(w)
      BY DEF Held, Ids
    <3>2. QED
      BY <1>1, <3>1, HeldStatuses DEF HeldRows
  <2>6. /\ Queued' = Queued /\ Stuck' = Stuck /\ Settled' = Settled
        /\ Given' = Given
    BY <1>1, <1>2, <2>2, <2>4, <2>5 DEF Queued, Stuck, Settled, Given, WithStatus
  <2>7. QED
    BY <2>4, <2>6 DEF LeaseVars
<1>5. QED
  BY <1>3, <1>4

\* fail_batch decides every row of the batch: it is tried again or given up.
LEMMA FailBatchIsRelease ==
  ASSUME IInv, NEW w \in Worker, FailBatch(w)
  PROVE  Lease!Next
<1> DEFINE again == {c \in Held(w) : chunks'[c].status = "pending"}
           lost == {c \in Held(w) : chunks'[c].status = "processing"}
<1>1. /\ SameRows(chunks, chunks')
      /\ \A c \in DOMAIN chunks \cap Ids(jobs[w]) :
           chunks'[c].status =
             IF chunks[c].retry_count + 1 < MAX_RETRIES THEN "pending" ELSE "failed"
      /\ \A c \in DOMAIN chunks \ Ids(jobs[w]) : chunks'[c] = chunks[c]
  BY FailBatchTables
<1>2. LetGo(w, again, lost)
  BY <1>1, BatchIsLetGo DEF FailBatch
<1>3. lost = {}
  BY <1>1 DEF Held
<1> HIDE DEF again, lost
<1>4. QED
  BY <1>2, <1>3, DecidedIsRelease

\* A raising fail_batch leaves the rows of the batch as they are.
LEMMA AbandonBatchIsLose ==
  ASSUME IInv, NEW w \in Worker, AbandonBatch(w)
  PROVE  Lease!Next
<1> DEFINE again == {c \in Held(w) : chunks'[c].status = "pending"}
           lost == {c \in Held(w) : chunks'[c].status = "processing"}
<1>1. /\ UNCHANGED <<chunks, last_chunk_id>>
      /\ jobs' = [jobs EXCEPT ![w] = {}]
  BY DEF AbandonBatch, tables
<1>2. SameRows(chunks, chunks')
  BY <1>1 DEF SameRows, IInv, TypeOK
<1>3. LetGo(w, again, lost)
  BY <1>1, <1>2, BatchIsLetGo
<1>4. again = {}
  BY <1>1, HeldStatuses
<1> HIDE DEF again, lost
<1>5. QED
  BY <1>3, <1>4, UndecidedIsLose

----------------------------------------------------------------------------
(* Steps of the process *)

\* A crash is the loss of all batches at once.
LEMMA CrashIsCrash ==
  ASSUME IInv, Crash
  PROVE  Lease!Next
<1> DEFINE lost == {c \in HeldRows : chunks[c].status = "processing"}
<1>1. /\ UNCHANGED <<chunks, last_chunk_id>>
      /\ jobs' = [w \in Worker |-> {}]
  BY DEF Crash, tables
<1>2. \A w \in Worker : Held(w)' = {}
  BY <1>1 DEF Held, Ids
<1>3. HeldBy' = [w \in Worker |-> {}] /\ HeldRows' = {}
  BY <1>2 DEF HeldBy, HeldRows
<1>4. \A c \in HeldRows :
        c \in DOMAIN chunks /\ chunks[c].status \in {"processing", "indexed"}
  BY HeldStatuses DEF HeldRows
<1>5. /\ Queued' = Queued /\ Given' = Given
      /\ Stuck' = Stuck \cup lost
      /\ Settled' = Settled \cup (HeldRows \ lost)
  BY <1>1, <1>3, <1>4 DEF Queued, Given, Stuck, Settled, WithStatus
<1>6. HeldRows = UNION {HeldBy[w] : w \in Worker}
  BY DEF HeldRows, HeldBy
<1>7. lost \in SUBSET HeldRows
  OBVIOUS
<1> HIDE DEF lost
<1>8. Lease!Crash(lost)
  BY <1>3, <1>5, <1>6
     DEF Lease!Crash, Lease!AllHeld, Given, Queued, HeldBy, Stuck, Settled
<1>9. QED
  BY <1>6, <1>7, <1>8 DEF Lease!Next, Lease!AllHeld, HeldBy

\* Recovery queues everything that is stuck: no worker holds a batch yet.
LEMMA RecoveryIsRestart ==
  ASSUME IInv, RecoverStuckJobs
  PROVE  Lease!Next
<1> DEFINE processing == WithStatus(chunks, "processing")
<1>1. /\ chunks' = SetStatus(chunks, processing, "pending")
      /\ jobs' = jobs /\ last_chunk_id' = last_chunk_id
      /\ \A w \in Worker : jobs[w] = {}
      /\ chunks \in [DOMAIN chunks -> ChunkRow]
      /\ "pending" \in ChunkStatus
  BY DEF RecoverStuckJobs, ResetStuckProcessing, memory, IInv, BatchesAreWhole, TypeOK,
         ChunkStatus
<1>2. /\ DOMAIN chunks' = DOMAIN chunks
      /\ \A c \in DOMAIN chunks :
           chunks'[c].status = IF c \in processing THEN "pending" ELSE chunks[c].status
  BY <1>1, SetStatusColumns DEF SameRows
<1>3. \A w \in Worker : Held(w) = {} /\ Held(w)' = {}
  BY <1>1 DEF Held, Ids
<1>4. /\ HeldBy' = HeldBy /\ HeldRows = {} /\ HeldRows' = {}
      /\ UNION {HeldBy[w] : w \in Worker} = {}
  BY <1>3 DEF HeldBy, HeldRows
<1>5. /\ Queued' = Queued \cup Stuck
      /\ Stuck' = {}
      /\ Settled' = Settled
      /\ Given' = Given
  BY <1>1, <1>2, <1>4 DEF Queued, Stuck, Settled, Given, WithStatus
<1>6. Lease!Restart
  BY <1>4, <1>5 DEF Lease!Restart, Lease!AllHeld, Given, Queued, HeldBy, Stuck, Settled
<1>7. QED
  BY <1>6 DEF Lease!Next

----------------------------------------------------------------------------
(* The refinement *)

\* The empty tables hold nothing.
LEMMA LeaseInitially == Init => Lease!Init
<1> SUFFICES ASSUME Init PROVE Lease!Init
  OBVIOUS
<1>1. /\ DOMAIN chunks = {} /\ last_chunk_id = 0
      /\ jobs = [w \in Worker |-> {}]
  BY DEF Init, EmptyTable
<1>2. \A w \in Worker : Held(w) = {}
  BY <1>1 DEF Held
<1>3. /\ Given = {} /\ Queued = {} /\ Stuck = {} /\ Settled = {}
      /\ HeldBy = [w \in Worker |-> {}]
  BY <1>1, <1>2 DEF Given, Queued, Stuck, Settled, HeldBy, WithStatus
<1>4. QED
  BY <1>3 DEF Lease!Init, Given, Queued, Stuck, Settled, HeldBy

\* Every step of the queue is a step of LeaseQueue or does not show in it.
LEMMA LeaseStep == IInv /\ [Next]_vars => [Lease!Next]_LeaseVars
<1> SUFFICES ASSUME IInv, [Next]_vars PROVE Lease!Next \/ UNCHANGED LeaseVars
  OBVIOUS
<1>1. ASSUME NEW f \in FileId, CreateUpload(f) PROVE UNCHANGED LeaseVars
  BY <1>1, NothingMoves DEF CreateUpload, memory
<1>2. ASSUME NEW f \in FileId, NEW ps \in Passages, AppendChunk(f, ps) PROVE Lease!Next
  BY <1>2, EnqueueIsAdd DEF AppendChunk, memory
<1>3. ASSUME NEW f \in FileId, NEW ps \in Passages, BeginComplete(f, ps) PROVE Lease!Next
  BY <1>3, EnqueueIsAdd DEF BeginComplete, memory
<1>4. ASSUME NEW f \in FileId, FinishComplete(f) PROVE UNCHANGED LeaseVars
  BY <1>4, NothingMoves DEF FinishComplete, memory
<1>5. ASSUME NEW f \in FileId, DeleteUpload(f) PROVE Lease!Next
  BY <1>5, DeleteIsDelete
<1>6. ASSUME NEW w \in Worker, Work(w) PROVE Lease!Next \/ UNCHANGED LeaseVars
  BY <1>6, ClaimIsLease, CompleteEmptyIsRelease, CompleteKeptIsRelease,
     FailBatchIsRelease, AbandonBatchIsLose DEF Work
<1>7. CASE Crash
  BY <1>7, CrashIsCrash
<1>8. CASE RecoverStuckJobs
  BY <1>8, RecoveryIsRestart
<1>9. CASE UNCHANGED vars
  BY <1>9, NothingMoves DEF vars
<1>10. QED
  BY <1>1, <1>2, <1>3, <1>4, <1>5, <1>6, <1>7, <1>8, <1>9 DEF Next

\* The job queue with its tables, batches, crashes and recoveries keeps the
\* promise of LeaseQueue: a passage is in one place at a time, what is settled
\* stays settled, and a recovery gives back exactly what was stuck.
THEOREM QueueImplementsLease == Spec => ImplementsLease
<1>1. IInv /\ [Next]_vars =>
        [Lease!Next]_<<Given, Queued, HeldBy, Stuck, Settled>>
  BY LeaseStep DEF LeaseVars
<1>2. QED
  BY <1>1, LeaseInitially, InvariantHolds, PTL
     DEF Spec, ImplementsLease, Lease!Spec, Lease!vars, Given, Queued, HeldBy, Stuck, Settled
=============================================================================
