------------------------ MODULE UploadPipeline_proofs ------------------------
(***************************************************************************)
(* The upload pipeline implements the job queue: whatever the requests,    *)
(* the disk and Qdrant do, each step of UploadPipeline is a step of        *)
(* JobQueue or leaves the queue alone.  So the safety theorems of          *)
(* JobQueue_proofs hold of the whole system.  On top of them: the bytes    *)
(* on disk are the client's, a deleted file leaves none, what the tables   *)
(* count as indexed is in Qdrant, and each vector is of its passage.       *)
(***************************************************************************)
EXTENDS UploadPipeline, JobQueue_proofs, WellFoundedInduction

\* The little the implementation needs to know of the new variables: a request
\* names a file_id, and an offset is within the size limit, so that the
\* passage flushed by /complete is a byte range.
RequestsNameFiles ==
  /\ request = [r \in Request |-> request[r]]
  /\ \A r \in Request : request[r].step # "idle" => request[r].file \in FileId

OffsetsAndRequests ==
  /\ bytes_received \in [FileId -> 0..MAX_FILE_BYTES]
  /\ tail_start \in [FileId -> 0..MAX_FILE_BYTES]
  /\ RequestsNameFiles

\* A request that moves on keeps the file_id it names.
LEMMA MovesOn ==
  ASSUME NEW r \in Request, NEW s, NEW f \in FileId,
         RequestsNameFiles, GoTo(r, s, f)
  PROVE  RequestsNameFiles'
<1> DEFINE moved == [step |-> s, file |-> f]
<1>1. moved.file = f
  OBVIOUS
<1>2. request' = [request EXCEPT ![r] = moved]
  BY DEF GoTo
<1> HIDE DEF moved
<1> QED BY <1>1, <1>2 DEF RequestsNameFiles

\* A request that returns names nothing.
LEMMA Returns ==
  ASSUME NEW r \in Request, RequestsNameFiles, Return(r)
  PROVE  RequestsNameFiles'
<1>1. NoRequest.step = "idle"
  BY DEF NoRequest
<1>2. request' = [request EXCEPT ![r] = NoRequest]
  BY DEF Return
<1> QED BY <1>1, <1>2 DEF RequestsNameFiles

\* The invariant holds initially.
LEMMA OffsetsInitially == UploadInit => OffsetsAndRequests
<1> SUFFICES ASSUME UploadInit PROVE OffsetsAndRequests
  OBVIOUS
<1>1. 0 \in 0..MAX_FILE_BYTES
  BY SizeAssumption
<1> QED BY <1>1 DEF UploadInit, OffsetsAndRequests, RequestsNameFiles, NoRequest

\* Every step of the pipeline keeps the invariant.
LEMMA OffsetsStep == OffsetsAndRequests /\ UploadNext => OffsetsAndRequests'
<1> SUFFICES ASSUME OffsetsAndRequests, UploadNext PROVE OffsetsAndRequests'
  OBVIOUS
<1>1. ASSUME NEW f \in FileId, PostFile(f) PROVE OffsetsAndRequests'
  BY <1>1 DEF PostFile, OffsetsAndRequests, RequestsNameFiles, columns
<1>2. ASSUME NEW f \in FileId, NEW n \in 0..MAX_CHUNK_BYTES, PutChunk(f, n)
      PROVE  OffsetsAndRequests'
  <2>1. bytes_received' \in [FileId -> 0..MAX_FILE_BYTES]
    <3>1. bytes_received[f] + n \in 0..MAX_FILE_BYTES
      BY <1>2, SizeAssumption DEF PutChunk, MaySend, OffsetsAndRequests
    <3> QED BY <1>2, <3>1 DEF PutChunk, OffsetsAndRequests
  <2>2. tail_start' \in [FileId -> 0..MAX_FILE_BYTES]
    BY <1>2 DEF PutChunk, OffsetsAndRequests
  <2> QED BY <1>2, <2>1, <2>2 DEF PutChunk, OffsetsAndRequests, RequestsNameFiles
<1>3. ASSUME NEW f \in FileId, NEW n \in 0..MAX_CHUNK_BYTES, PutChunkFails(f, n)
      PROVE  OffsetsAndRequests'
  BY <1>3 DEF PutChunkFails, OffsetsAndRequests, RequestsNameFiles, columns
<1>4. ASSUME NEW r \in Request, Serve(r) PROVE OffsetsAndRequests'
  <2>1. ASSUME NEW f \in FileId, PostComplete(r, f) PROVE OffsetsAndRequests'
    <3>1. tail_start' \in [FileId -> 0..MAX_FILE_BYTES]
      BY <2>1 DEF PostComplete, OffsetsAndRequests
    <3>2. RequestsNameFiles'
      <4>1. GoTo(r, "look", f)
        BY <2>1 DEF PostComplete
      <4> QED BY <4>1, MovesOn DEF OffsetsAndRequests
    <3> QED BY <2>1, <3>1, <3>2 DEF PostComplete, OffsetsAndRequests
  <2>2. ASSUME NEW f \in FileId, Delete(r, f) PROVE OffsetsAndRequests'
    <3>1. GoTo(r, "unlink_first", f) /\ UNCHANGED columns
      BY <2>2 DEF Delete
    <3> QED BY <3>1, MovesOn DEF OffsetsAndRequests, columns
  <2>3. CASE LookForFinal(r) \/ Rename(r) \/ Unlink(r)
    <3>1. request[r].file \in FileId /\ UNCHANGED columns
      BY <2>3 DEF LookForFinal, Rename, Unlink, OffsetsAndRequests, RequestsNameFiles
    <3>2. \/ Return(r)
          \/ \E s \in {"finish", "rename", "unlink_second", "drop"} :
               GoTo(r, s, request[r].file)
      BY <2>3 DEF LookForFinal, Rename, Unlink
    <3> QED BY <3>1, <3>2, MovesOn, Returns DEF OffsetsAndRequests, columns
  <2>4. CASE MarkComplete(r) \/ Drop(r)
    <3>1. Return(r) /\ UNCHANGED columns
      BY <2>4 DEF MarkComplete, Drop
    <3> QED BY <3>1, Returns DEF OffsetsAndRequests, columns
  <2> QED BY <1>4, <2>1, <2>2, <2>3, <2>4 DEF Serve
<1>5. ASSUME NEW w \in Worker, Index(w) PROVE OffsetsAndRequests'
  BY <1>5 DEF Index, Claim, StartRead, LookAtFinal, LookAtPartial, Open,
       SettleEmpty, EnsureCollection, CreateCollection, Upsert, Complete, Fail,
       Abandon, OffsetsAndRequests, RequestsNameFiles, columns
<1>6. CASE Die
  BY <1>6 DEF Die, OffsetsAndRequests, RequestsNameFiles, columns, NoRequest
<1>7. CASE Restart
  BY <1>7 DEF Restart, OffsetsAndRequests, RequestsNameFiles, columns
<1> QED BY <1>1, <1>2, <1>3, <1>4, <1>5, <1>6, <1>7 DEF UploadNext

\* The step a request takes is a step of the queue, or none.
LEMMA ServeRefines ==
  ASSUME NEW r \in Request, OffsetsAndRequests, Serve(r) PROVE [Next]_vars
<1>1. ASSUME NEW f \in FileId, PostComplete(r, f) PROVE [Next]_vars
  BY <1>1 DEF PostComplete, Next
<1>2. ASSUME NEW f \in FileId, Delete(r, f) PROVE [Next]_vars
  BY <1>2 DEF Delete, Next
<1>3. CASE MarkComplete(r)
  <2>1. request[r].file \in FileId
    BY <1>3 DEF MarkComplete, OffsetsAndRequests, RequestsNameFiles
  <2> QED BY <1>3, <2>1 DEF MarkComplete, Next, queue
<1>4. CASE LookForFinal(r) \/ Rename(r) \/ Unlink(r) \/ Drop(r)
  BY <1>4 DEF LookForFinal, Rename, Unlink, Drop, queue
<1> QED BY <1>1, <1>2, <1>3, <1>4 DEF Serve

\* The step of a worker is a step of the queue, or none.
LEMMA IndexRefines ==
  ASSUME NEW w \in Worker, Index(w) PROVE [Next]_vars
<1>1. CASE Claim(w)
  BY <1>1 DEF Claim, Work, Next
<1>2. CASE SettleEmpty(w)
  <2>1. EmptyReads(w) \in SUBSET jobs[w]
    BY DEF EmptyReads
  <2> QED BY <1>2, <2>1 DEF SettleEmpty, Work, Next
<1>3. CASE Complete(w)
  BY <1>3 DEF Complete, Work, Next
<1>4. CASE Fail(w)
  BY <1>4 DEF Fail, Work, Next
<1>5. CASE Abandon(w)
  BY <1>5 DEF Abandon, Work, Next
<1>6. CASE \/ StartRead(w) \/ LookAtFinal(w) \/ LookAtPartial(w) \/ Open(w)
           \/ EnsureCollection(w) \/ CreateCollection(w) \/ Upsert(w)
  BY <1>6 DEF StartRead, LookAtFinal, LookAtPartial, Open, EnsureCollection,
       CreateCollection, Upsert, queue
<1> QED BY <1>1, <1>2, <1>3, <1>4, <1>5, <1>6 DEF Index

\* Every step of the pipeline is a step of the queue, or none.
LEMMA StepRefines ==
  OffsetsAndRequests /\ [UploadNext]_upload_vars => [Next]_vars
<1> SUFFICES ASSUME OffsetsAndRequests, [UploadNext]_upload_vars PROVE [Next]_vars
  OBVIOUS
<1>1. CASE UNCHANGED upload_vars
  BY <1>1 DEF upload_vars, vars
<1>2. ASSUME NEW f \in FileId, PostFile(f) PROVE [Next]_vars
  BY <1>2 DEF PostFile, Next
<1>3. ASSUME NEW f \in FileId, NEW n \in 0..MAX_CHUNK_BYTES, PutChunk(f, n)
      PROVE  [Next]_vars
  BY <1>3 DEF PutChunk, Next
<1>4. ASSUME NEW f \in FileId, NEW n \in 0..MAX_CHUNK_BYTES, PutChunkFails(f, n)
      PROVE  [Next]_vars
  BY <1>4 DEF PutChunkFails, queue
<1>5. ASSUME NEW r \in Request, Serve(r) PROVE [Next]_vars
  BY <1>5, ServeRefines
<1>6. ASSUME NEW w \in Worker, Index(w) PROVE [Next]_vars
  BY <1>6, IndexRefines
<1>7. CASE Die
  BY <1>7 DEF Die, Next
<1>8. CASE Restart
  BY <1>8 DEF Restart, Next
<1> QED BY <1>1, <1>2, <1>3, <1>4, <1>5, <1>6, <1>7, <1>8 DEF UploadNext

\* The upload pipeline implements the job queue.
THEOREM PipelineImplementsQueue == UploadSpec => Spec
<1>1. UploadInit => Init
  BY DEF UploadInit
<1>2. OffsetsAndRequests /\ [UploadNext]_upload_vars => OffsetsAndRequests'
  <2>1. OffsetsAndRequests /\ UNCHANGED upload_vars => OffsetsAndRequests'
    BY DEF OffsetsAndRequests, RequestsNameFiles, upload_vars
  <2> QED BY <2>1, OffsetsStep
<1> QED BY <1>1, <1>2, OffsetsInitially, StepRefines, PTL DEF UploadSpec, Spec

\* With requests, files and vectors around the queue, a crash or an error still
\* loses no claimed passage: NothingIsLost holds of the whole pipeline.
THEOREM PipelineLosesNothing == UploadSpec => []NothingIsLost
BY PipelineImplementsQueue, NoPassageIsLost, PTL

----------------------------------------------------------------------------
(* Deleted and finalizing files *)

\* A file that chunks are no longer taken for.
Sealed(f) ==
  f \in DOMAIN files => files[f].upload_status \in {"finalizing", "completed"}

\* u is t, row by row, but for columns other than upload_status.
SameStatus(t, u) ==
  /\ DOMAIN u = DOMAIN t
  /\ \A g \in DOMAIN t : u[g].upload_status = t[g].upload_status

\* The statements of the workers on `files` leave upload_status alone.
LEMMA WorkersKeepStatus ==
  ASSUME NEW t, t \in [DOMAIN t -> FileRow], NEW f, NEW n \in Nat
  PROVE  /\ SameStatus(t, MarkProcessingStarted(t, f))
         /\ SameStatus(t, Refresh(RecordIndexed(t, f, n), f))
         /\ SameStatus(t, Refresh(RecordFailed(t, f, n), f))
<1>1. \A g \in DOMAIN t : t[g] \in FileRow
  OBVIOUS
<1>2. SameStatus(t, MarkProcessingStarted(t, f))
  BY <1>1 DEF SameStatus, MarkProcessingStarted, FileRow
<1>3. SameStatus(t, RecordIndexed(t, f, n)) /\ SameStatus(t, RecordFailed(t, f, n))
  BY <1>1 DEF SameStatus, RecordIndexed, RecordFailed, FileRow
<1>4. ASSUME NEW u \in [DOMAIN t -> FileRow], SameStatus(t, u)
      PROVE  SameStatus(t, Refresh(u, f))
  <2>1. \A g \in DOMAIN u : u[g] \in FileRow
    OBVIOUS
  <2>2. ASSUME NEW verdict PROVE SameStatus(u, SetProcessingStatus(u, f, verdict))
    BY <2>1 DEF SameStatus, SetProcessingStatus, FileRow
  <2>3. \/ Refresh(u, f) = u
        \/ \E verdict : Refresh(u, f) = SetProcessingStatus(u, f, verdict)
    BY DEF Refresh
  <2> QED BY <1>4, <2>2, <2>3 DEF SameStatus
<1>5. RecordIndexed(t, f, n) \in [DOMAIN t -> FileRow]
  BY StatusStatementsKeepUploads DEF SameUploads, UploadStatus, ProcessingStatus
<1>6. RecordFailed(t, f, n) \in [DOMAIN t -> FileRow]
  BY StatusStatementsKeepUploads DEF SameUploads, UploadStatus, ProcessingStatus
<1> QED BY <1>2, <1>3, <1>4, <1>5, <1>6

\* So a step of a worker leaves upload_status alone.
LEMMA WorkKeepsStatus ==
  ASSUME IInv, NEW w \in Worker, Work(w)
  PROVE  SameStatus(files, files') /\ UNCHANGED used_ids
<1>1. files \in [DOMAIN files -> FileRow]
  BY DEF IInv, TypeOK
<1>2. \A batch : IsFiniteSet(batch) => Cardinality(batch) \in Nat
  BY FS_CardinalityType
<1>3. IsFiniteSet(jobs[w])
  BY DEF IInv, BatchesAreWhole
<1>4. CASE ClaimBatch(w)
  <2>1. \E f : files' = MarkProcessingStarted(files, f)
    BY <1>4 DEF ClaimBatch
  <2>2. UNCHANGED used_ids
    BY <1>4 DEF ClaimBatch
  <2> QED BY <1>1, <2>1, <2>2, WorkersKeepStatus
<1>5. ASSUME NEW batch \in SUBSET jobs[w], CompleteBatch(batch)
      PROVE  SameStatus(files, files')
  <2>1. Cardinality(batch) \in Nat
    BY <1>2, <1>3, FS_Subset
  <2>2. \E f : files' = Refresh(RecordIndexed(files, f, Cardinality(batch)), f)
    BY <1>5 DEF CompleteBatch
  <2> QED BY <1>1, <2>1, <2>2, WorkersKeepStatus
<1>6. ASSUME NEW empty \in SUBSET jobs[w], CompleteEmpty(w, empty)
      PROVE  SameStatus(files, files') /\ UNCHANGED used_ids
  BY <1>5, <1>6 DEF CompleteEmpty
<1>7. CASE CompleteKept(w)
  BY <1>5, <1>7 DEF CompleteKept
<1>8. CASE FailBatch(w)
  <2> DEFINE exhausted == jobs[w] \ Retryable(jobs[w])
  <2>1. Cardinality(exhausted) \in Nat
    BY <1>2, <1>3, FS_Subset
  <2>2. \E f : files' = Refresh(RecordFailed(files, f, Cardinality(exhausted)), f)
    BY <1>8 DEF FailBatch
  <2>3. UNCHANGED used_ids
    BY <1>8 DEF FailBatch
  <2> QED BY <1>1, <2>1, <2>2, <2>3, WorkersKeepStatus
<1>9. CASE AbandonBatch(w)
  BY <1>9 DEF AbandonBatch, tables, SameStatus
<1> QED BY <1>4, <1>6, <1>7, <1>8, <1>9 DEF Work

\* A deleted file stays deleted, and while the process is up a sealed one stays
\* sealed.
LEMMA FilesAfterAStep ==
  ASSUME IInv, [Next]_vars, NEW f \in used_ids
  PROVE  /\ f \in used_ids'
         /\ Gone(f) => Gone(f)'
         /\ running /\ Sealed(f) => Sealed(f)'
<1>0. DOMAIN files \subseteq used_ids /\ \A g \in DOMAIN files : files[g] \in FileRow
  BY DEF IInv, TypeOK
<1>1. CASE UNCHANGED vars
  BY <1>1 DEF vars, Gone, Sealed
<1>2. ASSUME NEW g \in FileId, CreateUpload(g)
      PROVE  /\ f \in used_ids' /\ (Gone(f) => Gone(f)')
             /\ running /\ Sealed(f) => Sealed(f)'
  BY <1>0, <1>2 DEF CreateUpload, CreateFile, Gone, Sealed
<1>3. ASSUME NEW g \in FileId, NEW passages \in Passages,
             AppendChunk(g, passages) \/ BeginComplete(g, passages)
      PROVE  /\ f \in used_ids' /\ (Gone(f) => Gone(f)')
             /\ running /\ Sealed(f) => Sealed(f)'
  <2>1. UNCHANGED used_ids
    BY <1>3 DEF AppendChunk, BeginComplete
  <2>2. CASE AppendChunk(g, passages)
    <3>1. g \in DOMAIN files
          /\ files[g].upload_status \notin {"completed", "finalizing"}
      BY <2>2 DEF AppendChunk
    <3>2. DOMAIN files' = DOMAIN files
          /\ \A h \in DOMAIN files \ {g} : files'[h] = files[h]
      BY <2>2 DEF AppendChunk, UpdateAfterChunk
    <3> QED BY <2>1, <3>1, <3>2 DEF Gone, Sealed
  <2>3. CASE BeginComplete(g, passages)
    <3>1. /\ DOMAIN files' = DOMAIN files
          /\ \A h \in DOMAIN files \ {g} : files'[h] = files[h]
          /\ g \in DOMAIN files
          /\ files'[g] = [files[g] EXCEPT
               !.upload_status = "finalizing",
               !.chunks_total = @ + Len(passages),
               !.next_sequence = NextSequence(g, passages)]
      BY <2>3 DEF BeginComplete, MarkFinalizing
    <3>2. files'[g].upload_status = "finalizing"
      BY <1>0, <3>1 DEF FileRow
    <3> QED BY <2>1, <3>1, <3>2 DEF Gone, Sealed
  <2> QED BY <1>3, <2>2, <2>3
<1>4. ASSUME NEW g \in FileId, FinishComplete(g)
      PROVE  /\ f \in used_ids' /\ (Gone(f) => Gone(f)')
             /\ running /\ Sealed(f) => Sealed(f)'
  <2>1. /\ DOMAIN files' = DOMAIN files /\ UNCHANGED used_ids
        /\ \A h \in DOMAIN files \ {g} : files'[h] = files[h]
        /\ g \in DOMAIN files
        /\ files'[g] = [files[g] EXCEPT !.upload_status = "completed"]
    BY <1>4 DEF FinishComplete, MarkCompleted
  <2>2. files'[g].upload_status = "completed"
    BY <1>0, <2>1 DEF FileRow
  <2> QED BY <2>1, <2>2 DEF Gone, Sealed
<1>5. ASSUME NEW g \in FileId, DeleteUpload(g)
      PROVE  /\ f \in used_ids' /\ (Gone(f) => Gone(f)')
             /\ running /\ Sealed(f) => Sealed(f)'
  BY <1>5 DEF DeleteUpload, DeleteFile, Gone, Sealed
<1>6. ASSUME NEW w \in Worker, Work(w)
      PROVE  /\ f \in used_ids' /\ (Gone(f) => Gone(f)')
             /\ running /\ Sealed(f) => Sealed(f)'
  BY <1>6, WorkKeepsStatus DEF SameStatus, Gone, Sealed
<1>7. CASE Crash
  BY <1>7 DEF Crash, tables, Gone, Sealed
<1>8. CASE RecoverStuckJobs
  <2>1. ~running /\ UNCHANGED used_ids /\ DOMAIN files' = DOMAIN files
    BY <1>8 DEF RecoverStuckJobs, MarkInterruptedUploads, RevertStuckFinalizing,
         MoveUploads
  <2> QED BY <2>1 DEF Gone
<1> QED BY <1>1, <1>2, <1>3, <1>4, <1>5, <1>6, <1>7, <1>8 DEF Next

\* No .partial of a deleted file is left, and no .dat either.
NoPartial(f) == Gone(f) /\ f \notin DOMAIN partial
NoBytes(f) == NoPartial(f) /\ f \notin DOMAIN final

\* What each step of a request relies on, and what a DELETE that returned has
\* achieved.
RequestInv(r) ==
  /\ request[r].step # "idle" => running /\ request[r].file \in used_ids
  /\ request[r].step \in {"look", "rename", "finish"} => Sealed(request[r].file)
  /\ request[r].step \in {"unlink_first", "unlink_second", "drop"} =>
       Gone(request[r].file)
  /\ request[r].step = "unlink_second" => NoPartial(request[r].file)
  /\ request[r].step = "drop" => NoBytes(request[r].file)

FilesInv ==
  /\ \A r \in Request : RequestInv(r)
  /\ \A f \in deleted : NoBytes(f)

\* The directories after a step: no byte comes back to a deleted file.
LEMMA BytesStayGone ==
  ASSUME IInv, OffsetsAndRequests, [UploadNext]_upload_vars, NEW f \in used_ids
  PROVE  /\ NoPartial(f) => NoPartial(f)'
         /\ NoBytes(f) => NoBytes(f)'
<1>1. Gone(f) => Gone(f)'
  BY StepRefines, FilesAfterAStep
<1>2. CASE UNCHANGED disk
  BY <1>1, <1>2 DEF disk, NoPartial, NoBytes
<1>3. ASSUME NEW g \in FileId, NEW n \in 0..MAX_CHUNK_BYTES,
             PutChunk(g, n) \/ PutChunkFails(g, n)
      PROVE  /\ NoPartial(f) => NoPartial(f)'
             /\ NoBytes(f) => NoBytes(f)'
  <2>1. g \in DOMAIN files /\ UNCHANGED final
    BY <1>3 DEF PutChunk, PutChunkFails, AppendChunk
  <2>2. \E v : partial' = Put(partial, g, v)
    BY <1>3 DEF PutChunk, PutChunkFails
  <2> QED BY <1>1, <2>1, <2>2 DEF Put, Gone, NoPartial, NoBytes
<1>4. ASSUME NEW r \in Request, Rename(r)
      PROVE  /\ NoPartial(f) => NoPartial(f)'
             /\ NoBytes(f) => NoBytes(f)'
  <2>1. \/ UNCHANGED disk
        \/ \E g, v : /\ g \in DOMAIN partial
                     /\ final' = Put(final, g, v)
                     /\ partial' = Without(partial, g)
    BY <1>4 DEF Rename
  <2> QED BY <1>1, <2>1 DEF disk, Put, Without, NoPartial, NoBytes
<1>5. ASSUME NEW r \in Request, Unlink(r)
      PROVE  /\ NoPartial(f) => NoPartial(f)'
             /\ NoBytes(f) => NoBytes(f)'
  <2>1. /\ DOMAIN partial' \subseteq DOMAIN partial
        /\ DOMAIN final' \subseteq DOMAIN final
    BY <1>5 DEF Unlink, Without
  <2> QED BY <1>1, <2>1 DEF NoPartial, NoBytes
<1>6. CASE \/ UNCHANGED upload_vars
           \/ \E g \in FileId : PostFile(g)
           \/ \E w \in Worker : Index(w)
           \/ Die
           \/ Restart
  <2>1. UNCHANGED disk
    BY <1>6 DEF upload_vars, PostFile, Index, Claim, StartRead, LookAtFinal,
         LookAtPartial, Open, SettleEmpty, EnsureCollection, CreateCollection,
         Upsert, Complete, Fail, Abandon, Die, Restart, disk
  <2> QED BY <1>2, <2>1
<1>7. ASSUME NEW r \in Request,
             \/ \E g \in FileId : PostComplete(r, g) \/ Delete(r, g)
             \/ LookForFinal(r) \/ MarkComplete(r) \/ Drop(r)
      PROVE  UNCHANGED disk
  BY <1>7 DEF PostComplete, Delete, LookForFinal, MarkComplete, Drop
<1> QED BY <1>2, <1>3, <1>4, <1>5, <1>6, <1>7 DEF UploadNext, Serve

\* A request that did not move keeps what it relies on, if the process lives.
LEMMA WaitingKeeps ==
  ASSUME IInv, OffsetsAndRequests, [UploadNext]_upload_vars,
         NEW r \in Request, RequestInv(r), request'[r] = request[r],
         UNCHANGED running
  PROVE  RequestInv(r)'
<1>1. CASE request[r].step = "idle"
  BY <1>1 DEF RequestInv
<1>2. CASE request[r].step # "idle"
  <2> DEFINE f == request[r].file
  <2>1. running /\ f \in used_ids /\ f = request'[r].file
    BY <1>2 DEF RequestInv
  <2>2. /\ f \in used_ids' /\ (Gone(f) => Gone(f)')
        /\ Sealed(f) => Sealed(f)'
    BY <2>1, StepRefines, FilesAfterAStep
  <2>3. /\ NoPartial(f) => NoPartial(f)'
        /\ NoBytes(f) => NoBytes(f)'
    BY <2>1, BytesStayGone
  <2> QED BY <2>1, <2>2, <2>3
       DEF RequestInv, Sealed, Gone, NoPartial, NoBytes
<1> QED BY <1>1, <1>2

\* A request that returned relies on nothing.
LEMMA ReturnedKeeps ==
  ASSUME NEW r \in Request, request'[r] = NoRequest PROVE RequestInv(r)'
BY DEF NoRequest, RequestInv

\* The request that r serves moves on to a step it may rely on.
LEMMA ServedKeeps ==
  ASSUME IInv, OffsetsAndRequests, NEW r \in Request, RequestInv(r), Serve(r)
  PROVE  /\ RequestInv(r)'
         /\ \A q \in Request \ {r} : request'[q] = request[q]
         /\ UNCHANGED running
<1>0. PICK f : f = request[r].file
  OBVIOUS
<1>1. request = [q \in Request |-> request[q]]
  BY DEF OffsetsAndRequests, RequestsNameFiles
<1>2. ASSUME NEW s, NEW g, GoTo(r, s, g)
      PROVE  /\ request'[r].step = s /\ request'[r].file = g
             /\ \A q \in Request \ {r} : request'[q] = request[q]
  <2> DEFINE moved == [step |-> s, file |-> g]
  <2>1. moved.step = s /\ moved.file = g
    OBVIOUS
  <2>2. request' = [request EXCEPT ![r] = moved]
    BY <1>2 DEF GoTo
  <2> HIDE DEF moved
  <2> QED BY <1>1, <2>1, <2>2
<1>3. ASSUME Return(r)
      PROVE  /\ RequestInv(r)'
             /\ \A q \in Request \ {r} : request'[q] = request[q]
  <2>1. /\ request'[r] = NoRequest
        /\ \A q \in Request \ {r} : request'[q] = request[q]
    BY <1>1, <1>3 DEF Return
  <2> QED BY <2>1, ReturnedKeeps
<1>4. DOMAIN files \subseteq used_ids
  BY DEF IInv, TypeOK
<1>5. ASSUME NEW g \in FileId, PostComplete(r, g)
      PROVE  /\ RequestInv(r)'
             /\ \A q \in Request \ {r} : request'[q] = request[q]
             /\ UNCHANGED running
  <2>0. PICK ps \in Passages : BeginComplete(g, ps)
    BY <1>5 DEF PostComplete
  <2>1. /\ g \in DOMAIN files /\ running /\ running' /\ UNCHANGED used_ids
        /\ files' = MarkFinalizing(files, g, Len(ps), NextSequence(g, ps))
    BY <2>0 DEF BeginComplete
  <2>2. g \in DOMAIN files' /\ files'[g].upload_status = "finalizing"
    <3>1. files[g] \in FileRow
      BY <2>1 DEF IInv, TypeOK
    <3> QED BY <2>1, <3>1 DEF MarkFinalizing, FileRow
  <2>3. /\ request'[r].step = "look" /\ request'[r].file = g
        /\ \A q \in Request \ {r} : request'[q] = request[q]
    BY <1>2, <1>5 DEF PostComplete
  <2> QED BY <1>4, <2>1, <2>2, <2>3 DEF RequestInv, Sealed, IInv, TypeOK
<1>6. ASSUME NEW g \in FileId, Delete(r, g)
      PROVE  /\ RequestInv(r)'
             /\ \A q \in Request \ {r} : request'[q] = request[q]
             /\ UNCHANGED running
  <2>1. /\ g \in DOMAIN files /\ running /\ running' /\ UNCHANGED used_ids
        /\ g \notin DOMAIN files'
    BY <1>6 DEF Delete, DeleteUpload, DeleteFile
  <2>2. /\ request'[r].step = "unlink_first" /\ request'[r].file = g
        /\ \A q \in Request \ {r} : request'[q] = request[q]
    BY <1>2, <1>6 DEF Delete
  <2> QED BY <1>4, <2>1, <2>2 DEF RequestInv, Gone, IInv, TypeOK
<1>7. CASE LookForFinal(r) \/ Rename(r)
  <2>1. running /\ f \in used_ids /\ Sealed(f) /\ UNCHANGED <<running, used_ids, files>>
    BY <1>0, <1>7 DEF LookForFinal, Rename, RequestInv, queue, vars
  <2>2. Return(r) \/ \E s \in {"finish", "rename"} : GoTo(r, s, f)
    BY <1>0, <1>7 DEF LookForFinal, Rename
  <2>3. ASSUME NEW s \in {"finish", "rename"}, GoTo(r, s, f)
        PROVE  RequestInv(r)'
    BY <1>2, <2>1, <2>3 DEF RequestInv, Sealed
  <2> QED BY <1>2, <1>3, <2>1, <2>2, <2>3
<1>8. CASE MarkComplete(r)
  <2>1. UNCHANGED running
    BY <1>8 DEF MarkComplete, FinishComplete, queue, vars
  <2>2. Return(r)
    BY <1>8 DEF MarkComplete
  <2> QED BY <1>3, <2>1, <2>2
<1>9. CASE Drop(r)
  BY <1>3, <1>9 DEF Drop, queue, vars
<1>10. CASE Unlink(r)
  <2>1. /\ running /\ f \in used_ids /\ Gone(f)
        /\ UNCHANGED <<running, used_ids, files>>
    BY <1>0, <1>10 DEF Unlink, RequestInv, queue, vars
  <2>2. CASE request[r].step = "unlink_first"
    <3>1. GoTo(r, "unlink_second", f) /\ partial' = Without(partial, f)
      BY <1>0, <1>10, <2>2 DEF Unlink, DeleteOrder
    <3>2. NoPartial(f)'
      BY <2>1, <3>1 DEF Without, NoPartial, Gone
    <3> QED BY <1>2, <2>1, <3>1, <3>2 DEF RequestInv, NoPartial, Gone
  <2>3. CASE request[r].step = "unlink_second"
    <3>1. /\ GoTo(r, "drop", f)
          /\ partial' = partial
          /\ final' = Without(final, f)
      BY <1>0, <1>10, <2>3 DEF Unlink, DeleteOrder
    <3>2. NoBytes(f)'
      BY <1>0, <2>1, <2>3, <3>1 DEF RequestInv, Without, NoBytes, NoPartial, Gone
    <3> QED BY <1>2, <2>1, <3>1, <3>2 DEF RequestInv, NoBytes, NoPartial, Gone
  <2> QED BY <1>10, <2>2, <2>3 DEF Unlink
<1> QED BY <1>5, <1>6, <1>7, <1>8, <1>9, <1>10 DEF Serve

\* Every step keeps the invariant.
LEMMA FilesStep ==
  IInv /\ OffsetsAndRequests /\ FilesInv /\ [UploadNext]_upload_vars => FilesInv'
<1> SUFFICES ASSUME IInv, OffsetsAndRequests, FilesInv, [UploadNext]_upload_vars
             PROVE  FilesInv'
  OBVIOUS
<1>1. ASSUME UNCHANGED <<request, running>> PROVE \A r \in Request : RequestInv(r)'
  BY <1>1, WaitingKeeps DEF FilesInv
<1>2. ASSUME UNCHANGED deleted PROVE \A f \in deleted' : NoBytes(f)'
  <2>1. deleted \subseteq used_ids
    BY DEF FilesInv, NoBytes, NoPartial, Gone
  <2> QED BY <1>2, <2>1, BytesStayGone DEF FilesInv
<1>3. CASE UNCHANGED upload_vars
  BY <1>1, <1>2, <1>3 DEF upload_vars, vars, FilesInv
<1>4. ASSUME NEW f \in FileId, PostFile(f) PROVE FilesInv'
  BY <1>1, <1>2, <1>4 DEF PostFile, CreateUpload, history, FilesInv
<1>5. ASSUME NEW f \in FileId, NEW n \in 0..MAX_CHUNK_BYTES,
             PutChunk(f, n) \/ PutChunkFails(f, n)
      PROVE  FilesInv'
  BY <1>1, <1>2, <1>5
  DEF PutChunk, PutChunkFails, AppendChunk, queue, vars, FilesInv
<1>6. ASSUME NEW r \in Request, Serve(r) PROVE FilesInv'
  <2>1. /\ RequestInv(r)' /\ UNCHANGED running
        /\ \A q \in Request \ {r} : request'[q] = request[q]
    BY <1>6, ServedKeeps DEF FilesInv
  <2>2. \A q \in Request : RequestInv(q)'
    BY <2>1, WaitingKeeps DEF FilesInv
  <2>3. CASE Drop(r) /\ ~UNCHANGED deleted
    <3>1. deleted' = deleted \cup {request[r].file} /\ request[r].step = "drop"
      BY <2>3 DEF Drop
    <3>2. NoBytes(request[r].file) /\ request[r].file \in used_ids
      BY <3>1 DEF FilesInv, RequestInv
    <3>3. deleted \subseteq used_ids
      BY DEF FilesInv, NoBytes, NoPartial, Gone
    <3> QED BY <2>2, <3>1, <3>2, <3>3, BytesStayGone DEF FilesInv
  <2>4. CASE ~Drop(r) \/ UNCHANGED deleted
    <3>1. UNCHANGED deleted
      BY <1>6, <2>4 DEF Serve, PostComplete, Delete, LookForFinal, Rename,
           MarkComplete, Unlink, history
    <3> QED BY <1>2, <2>2, <3>1 DEF FilesInv
  <2> QED BY <2>3, <2>4
<1>7. ASSUME NEW w \in Worker, Index(w) PROVE FilesInv'
  <2>1. UNCHANGED <<request, deleted>>
    BY <1>7 DEF Index, Claim, StartRead, LookAtFinal, LookAtPartial, Open,
         SettleEmpty, EnsureCollection, CreateCollection, Upsert, Complete, Fail,
         Abandon, history
  <2>2. UNCHANGED running
    BY <1>7 DEF Index, Claim, StartRead, LookAtFinal, LookAtPartial, Open,
         SettleEmpty, EnsureCollection, CreateCollection, Upsert, Complete, Fail,
         Abandon, ClaimBatch, CompleteEmpty, CompleteKept, FailBatch, AbandonBatch,
         queue, vars
  <2> QED BY <1>1, <1>2, <2>1, <2>2 DEF FilesInv
<1>8. CASE Die
  <2>1. \A r \in Request : request'[r] = NoRequest
    BY <1>8 DEF Die
  <2>2. UNCHANGED deleted
    BY <1>8 DEF Die, history
  <2> QED BY <1>2, <2>1, <2>2, ReturnedKeeps DEF FilesInv
<1>9. CASE Restart
  <2>1. \A r \in Request : request[r].step = "idle"
    BY <1>9 DEF Restart, RecoverStuckJobs, FilesInv, RequestInv
  <2>2. UNCHANGED <<request, deleted>>
    BY <1>9 DEF Restart, history
  <2>3. \A r \in Request : RequestInv(r)'
    BY <2>1, <2>2 DEF RequestInv
  <2> QED BY <1>2, <2>2, <2>3 DEF FilesInv
<1> QED BY <1>3, <1>4, <1>5, <1>6, <1>7, <1>8, <1>9 DEF UploadNext

\* The invariant of requests and deleted files holds of the pipeline.
THEOREM FilesInvariant == UploadSpec => []FilesInv
<1>1. UploadInit => FilesInv
  BY DEF UploadInit, NoRequest, FilesInv, RequestInv
<1>2. UploadSpec => []IInv
  BY PipelineImplementsQueue, InvariantHolds, PTL
<1>3. OffsetsAndRequests /\ [UploadNext]_upload_vars => OffsetsAndRequests'
  <2>1. OffsetsAndRequests /\ UNCHANGED upload_vars => OffsetsAndRequests'
    BY DEF OffsetsAndRequests, RequestsNameFiles, upload_vars
  <2> QED BY <2>1, OffsetsStep
<1> QED BY <1>1, <1>2, <1>3, OffsetsInitially, FilesStep, PTL DEF UploadSpec

\* From the first transaction of /complete to its last the file stays
\* finalizing or completed, whatever other requests do.
THEOREM FinalizingIsKept == UploadSpec => []FinalizingHolds
<1>1. FilesInv => FinalizingHolds
  BY DEF FilesInv, RequestInv, Sealed, FinalizingHolds
<1> QED BY <1>1, FilesInvariant, PTL

\* After a DELETE returned no byte of the file is left and none comes back.
THEOREM DeletedBytesStayGone == UploadSpec => []DeletedBytesAreGone
<1>1. FilesInv => DeletedBytesAreGone
  BY DEF FilesInv, NoBytes, NoPartial, DeletedBytesAreGone
<1> QED BY <1>1, FilesInvariant, PTL

----------------------------------------------------------------------------
(* The bytes on disk *)

\* Nothing is written to the file any more: an orderly client has called
\* /complete, and with the process never dying the file stays sealed.
NoMoreBytes(f) == IF Orderly THEN client[f].closed = TRUE ELSE Sealed(f)

\* A copy on disk is a beginning of the client's file that reaches at least as
\* far as what was acknowledged.
Copy(f, content) ==
  \E n \in Nat :
    /\ bytes_received[f] <= n
    /\ Orderly => n <= client[f].sent
    /\ content = Bytes(0, n)

\* Of a living file there is a copy when there are bytes, and only one copy.
CopiesOf(f) ==
  /\ bytes_received[f] > 0 => f \in DOMAIN partial \cup DOMAIN final
  /\ f \in DOMAIN final => f \notin DOMAIN partial /\ NoMoreBytes(f)
  /\ files[f].upload_status = "completed" => f \in DOMAIN final

\* Nothing is known of a file_id before it is drawn.
Unborn(f) ==
  /\ f \notin DOMAIN partial \cup DOMAIN final
  /\ bytes_received[f] = 0

\* An orderly client has sent what was acknowledged, and nothing more when it
\* called /complete.
ClientOf(f) ==
  Orderly =>
    /\ bytes_received[f] <= client[f].sent
    /\ client[f].closed = TRUE => client[f].sent = bytes_received[f]

\* All that is known of the bytes of f.
FileOnDisk(f) ==
  /\ f \in DOMAIN partial => Copy(f, partial[f])
  /\ f \in DOMAIN final => Copy(f, final[f])
  /\ f \in DOMAIN files => CopiesOf(f)
  /\ f \notin used_ids => Unborn(f)
  /\ ClientOf(f)

\* What /complete has done with the file between its two transactions.
CompletionOf(r) ==
  /\ request[r].step \in {"look", "rename", "finish"} => NoMoreBytes(request[r].file)
  /\ request[r].step = "finish" =>
       Gone(request[r].file) \/ request[r].file \in DOMAIN final

\* The invariant of the disk.  A client that is not orderly can send other bytes
\* after a restart: for such clients the invariant says that there was none.
DiskInv ==
  /\ client \in [FileId -> [sent : Nat, closed : BOOLEAN]]
  /\ ~Orderly => running
  /\ \A f \in FileId : FileOnDisk(f)
  /\ \A r \in Request : CompletionOf(r)

\* The states in which a file can only be what the client sent: no client acts
\* out of turn, or the process never dies.
Whole == Orderly \/ MaxCrashes = 0

\* Offsets in order, cut and joined, are offsets in order.
LEMMA BytesAreASequence ==
  ASSUME NEW a \in Nat, NEW b \in Nat
  PROVE  /\ a <= b => Bytes(a, b) \in Seq(Nat) /\ Len(Bytes(a, b)) = b - a
         /\ \A i \in 1..(b - a) : Bytes(a, b)[i] = a + i - 1
<1>1. DOMAIN Bytes(a, b) = 1..(b - a)
  BY DEF Bytes
<1>2. \A i \in 1..(b - a) : Bytes(a, b)[i] = a + i - 1 /\ a + i - 1 \in Nat
  BY DEF Bytes
<1>3. ASSUME a <= b PROVE Bytes(a, b) \in Seq(Nat) /\ Len(Bytes(a, b)) = b - a
  <2>1. b - a \in Nat
    BY <1>3
  <2>2. Bytes(a, b) \in [1..(b - a) -> Nat]
    BY <1>2 DEF Bytes
  <2>3. Bytes(a, b) \in Seq(Nat)
    BY <2>1, <2>2, SeqDef
  <2> QED BY <1>1, <2>1, <2>3, LenProperties
<1> QED BY <1>2, <1>3

\* Offsets in order, cut at both ends.
LEMMA BytesCut ==
  ASSUME NEW n \in Nat, NEW a \in Nat, NEW b \in Nat, a <= b, b <= n
  PROVE  SubSeq(Bytes(0, n), a + 1, b) = Bytes(a, b)
<1> DEFINE s == Bytes(0, n)
<1>1. s \in Seq(Nat) /\ Len(s) = n /\ \A i \in 1..n : s[i] = i - 1
  BY BytesAreASequence
<1> HIDE DEF s
<1>2. SubSeq(s, a + 1, b) = [i \in 1..(b - a) |-> s[i + a]]
  BY <1>1 DEF SubSeq
<1>3. \A i \in 1..(b - a) : s[i + a] = a + i - 1
  BY <1>1
<1> QED BY <1>2, <1>3 DEF s, Bytes

\* Offsets in order, continued where they end.
LEMMA BytesJoined ==
  ASSUME NEW b \in Nat, NEW n \in Nat
  PROVE  Bytes(0, b) \o Bytes(b, b + n) = Bytes(0, b + n)
<1> DEFINE s == Bytes(0, b)
           t == Bytes(b, b + n)
<1>1. /\ s \in Seq(Nat) /\ Len(s) = b /\ \A i \in 1..b : s[i] = i - 1
      /\ t \in Seq(Nat) /\ Len(t) = n /\ \A i \in 1..n : t[i] = b + i - 1
  <2>1. s \in Seq(Nat) /\ Len(s) = b - 0 /\ \A i \in 1..(b - 0) : s[i] = 0 + i - 1
    BY BytesAreASequence
  <2>2. b + n \in Nat /\ b <= b + n /\ (b + n) - b = n
    OBVIOUS
  <2>3. t \in Seq(Nat) /\ Len(t) = n /\ \A i \in 1..n : t[i] = b + i - 1
    BY <2>2, BytesAreASequence
  <2> HIDE DEF s, t
  <2> QED BY <2>1, <2>3
<1> HIDE DEF s, t
<1>2. s \o t = [i \in 1..(b + n) |-> IF i <= b THEN s[i] ELSE t[i - b]]
  <2>1. /\ s \o t \in Seq(Nat) /\ Len(s \o t) = b + n
        /\ \A i \in 1..(b + n) : (s \o t)[i] = IF i <= b THEN s[i] ELSE t[i - b]
    BY <1>1, ConcatProperties
  <2>2. s \o t \in [1..(b + n) -> Nat]
    BY <2>1, LenProperties
  <2>3. s \o t = [i \in 1..(b + n) |-> (s \o t)[i]]
    BY <2>2
  <2> QED BY <2>1, <2>3
<1>3. \A i \in 1..(b + n) : (IF i <= b THEN s[i] ELSE t[i - b]) = i - 1
  BY <1>1
<1>4. s \o t = [i \in 1..(b + n) |-> i - 1]
  BY <1>2, <1>3
<1>5. Bytes(0, b + n) = [i \in 1..(b + n) |-> i - 1]
  BY DEF Bytes
<1> QED BY <1>4, <1>5 DEF s, t

\* What read_range returns of a passage within a copy is its text.
LEMMA RangeIsText ==
  ASSUME NEW n \in Nat, NEW p \in ByteRanges, p[2] <= n
  PROVE  RangeOf(Bytes(0, n), p) = Text(p) /\ Text(p) # <<>>
<1>1. PICK a \in Nat, b \in Nat : a = p[1] /\ b = p[2] /\ a < b
  BY SizeAssumption DEF ByteRanges
<1> DEFINE c == Bytes(0, n)
<1>2. Len(c) = n
  BY BytesAreASequence
<1> HIDE DEF c
<1>3. (IF b < Len(c) THEN b ELSE Len(c)) = b
  BY <1>1, <1>2
<1>4. RangeOf(c, p) = SubSeq(c, a + 1, b)
  BY <1>1, <1>3 DEF RangeOf
<1>5. SubSeq(c, a + 1, b) = Bytes(a, b)
  <2>1. a <= b /\ b <= n
    BY <1>1
  <2> QED BY <2>1, BytesCut DEF c
<1>6. Len(Bytes(a, b)) = b - a
  <2>1. a <= b
    BY <1>1
  <2> QED BY <2>1, BytesAreASequence
<1>7. Bytes(a, b) # <<>>
  BY <1>1, <1>6
<1> QED BY <1>1, <1>4, <1>5, <1>7 DEF Text, c

\* A client that has called /complete is not taken to have not called it.
LEMMA ClientStep ==
  ASSUME OffsetsAndRequests, client \in [FileId -> [sent : Nat, closed : BOOLEAN]],
         [UploadNext]_upload_vars
  PROVE  /\ client' \in [FileId -> [sent : Nat, closed : BOOLEAN]]
         /\ \A f \in FileId : client[f].closed = TRUE => client'[f].closed = TRUE
<1> DEFINE Type == [sent : Nat, closed : BOOLEAN]
<1>1. CASE UNCHANGED client
  BY <1>1
<1>2. ASSUME NEW f \in FileId, NEW n \in 0..MAX_CHUNK_BYTES, Sent(f, n)
      PROVE  /\ client' \in [FileId -> Type]
             /\ \A g \in FileId : client'[g].closed = client[g].closed
  <2>1. bytes_received[f] \in Nat /\ n \in Nat
    BY SizeAssumption DEF OffsetsAndRequests
  <2>2. PICK m \in Nat : client' = [client EXCEPT ![f].sent = m]
    <3>1. client[f].sent \in Nat /\ bytes_received[f] + n \in Nat
      BY <2>1
    <3> QED BY <1>2, <3>1 DEF Sent
  <2> QED BY <2>2
<1>3. ASSUME NEW f \in FileId, client' = [client EXCEPT ![f].closed = TRUE]
      PROVE  /\ client' \in [FileId -> Type]
             /\ \A g \in FileId : client[g].closed = TRUE => client'[g].closed = TRUE
  BY <1>3
<1>4. \/ UNCHANGED client
      \/ \E f \in FileId, n \in 0..MAX_CHUNK_BYTES : Sent(f, n)
      \/ \E f \in FileId : client' = [client EXCEPT ![f].closed = TRUE]
  <2>1. ASSUME NEW r \in Request, Serve(r)
        PROVE  \/ UNCHANGED client
               \/ \E f \in FileId : client' = [client EXCEPT ![f].closed = TRUE]
    BY <2>1 DEF Serve, PostComplete, Delete, LookForFinal, Rename, MarkComplete,
         Unlink, Drop, history
  <2>2. ASSUME NEW w \in Worker, Index(w) PROVE UNCHANGED client
    BY <2>2 DEF Index, Claim, StartRead, LookAtFinal, LookAtPartial, Open, SettleEmpty,
         EnsureCollection, CreateCollection, Upsert, Complete, Fail, Abandon, history
  <2>3. ASSUME NEW f \in FileId, NEW n \in 0..MAX_CHUNK_BYTES,
               PutChunk(f, n) \/ PutChunkFails(f, n)
        PROVE  Sent(f, n)
    BY <2>3 DEF PutChunk, PutChunkFails
  <2>4. CASE (\E f \in FileId : PostFile(f)) \/ Die \/ Restart
    BY <2>4 DEF PostFile, Die, Restart, history
  <2>5. CASE UNCHANGED upload_vars
    BY <2>5 DEF upload_vars
  <2> QED BY <2>1, <2>2, <2>3, <2>4, <2>5 DEF UploadNext
<1> QED BY <1>1, <1>2, <1>3, <1>4

\* Only the final file of a deleted file is removed.
LEMMA FinalStays ==
  ASSUME FilesInv, [UploadNext]_upload_vars, NEW f \in DOMAIN final, ~Gone(f)
  PROVE  f \in DOMAIN final'
<1>1. CASE UNCHANGED final
  BY <1>1
<1>2. ASSUME NEW r \in Request, Rename(r) PROVE f \in DOMAIN final'
  BY <1>2 DEF Rename, Put, disk
<1>3. ASSUME NEW r \in Request, Unlink(r) PROVE f \in DOMAIN final'
  <2>1. f # request[r].file
    BY <1>3 DEF Unlink, FilesInv, RequestInv
  <2> QED BY <1>3, <2>1 DEF Unlink, Without
<1>4. ASSUME NEW r \in Request, Serve(r), ~Rename(r), ~Unlink(r)
      PROVE  UNCHANGED final
  BY <1>4 DEF Serve, PostComplete, Delete, LookForFinal, MarkComplete, Drop, disk
<1>5. ASSUME NEW w \in Worker, Index(w) PROVE UNCHANGED final
  BY <1>5 DEF Index, Claim, StartRead, LookAtFinal, LookAtPartial, Open, SettleEmpty,
       EnsureCollection, CreateCollection, Upsert, Complete, Fail, Abandon, disk
<1>6. ASSUME NEW g \in FileId, NEW n \in 0..MAX_CHUNK_BYTES,
             PutChunk(g, n) \/ PutChunkFails(g, n)
      PROVE  UNCHANGED final
  BY <1>6 DEF PutChunk, PutChunkFails
<1>7. CASE (\E g \in FileId : PostFile(g)) \/ Die \/ Restart \/ UNCHANGED upload_vars
  BY <1>7 DEF PostFile, Die, Restart, disk, upload_vars
<1> QED BY <1>1, <1>2, <1>3, <1>4, <1>5, <1>6, <1>7 DEF UploadNext

\* Once nothing more is written to a file, nothing ever is.
LEMMA NoMoreBytesStays ==
  ASSUME IInv, OffsetsAndRequests, DiskInv, [UploadNext]_upload_vars,
         NEW f \in used_ids, NoMoreBytes(f)
  PROVE  NoMoreBytes(f)'
<1>1. f \in FileId
  BY DEF IInv, TypeOK
<1>2. CASE Orderly
  BY <1>1, <1>2, ClientStep DEF DiskInv, NoMoreBytes
<1>3. CASE ~Orderly
  <2>1. running /\ Sealed(f)
    BY <1>3 DEF DiskInv, NoMoreBytes
  <2>2. Sealed(f)'
    BY <2>1, StepRefines, FilesAfterAStep
  <2> QED BY <1>3, <2>2 DEF NoMoreBytes
<1> QED BY <1>2, <1>3

\* Without a crash the process is always up.
LEMMA RunningStays ==
  ASSUME Whole, IInv, DiskInv, [UploadNext]_upload_vars
  PROVE  ~Orderly => running'
<1> SUFFICES ASSUME ~Orderly PROVE running'
  OBVIOUS
<1>1. running /\ MaxCrashes = 0 /\ crashes \in Nat
  BY DEF DiskInv, Whole, IInv, TypeOK
<1>2. ~Die
  BY <1>1 DEF Die, Crash
<1>3. ASSUME NEW r \in Request, Serve(r) PROVE running'
  BY <1>1, <1>3 DEF Serve, PostComplete, Delete, LookForFinal, Rename, MarkComplete,
       Unlink, Drop, BeginComplete, DeleteUpload, FinishComplete, queue, vars
<1>4. ASSUME NEW w \in Worker, Index(w) PROVE running'
  BY <1>1, <1>4 DEF Index, Claim, StartRead, LookAtFinal, LookAtPartial, Open, SettleEmpty,
       EnsureCollection, CreateCollection, Upsert, Complete, Fail, Abandon, ClaimBatch,
       CompleteEmpty, CompleteKept, FailBatch, AbandonBatch, queue, vars
<1>5. ASSUME NEW f \in FileId, NEW n \in 0..MAX_CHUNK_BYTES,
             PutChunk(f, n) \/ PutChunkFails(f, n)
      PROVE  running'
  BY <1>1, <1>5 DEF PutChunk, PutChunkFails, AppendChunk, queue, vars
<1>6. CASE (\E f \in FileId : PostFile(f)) \/ Restart \/ UNCHANGED upload_vars
  BY <1>1, <1>6 DEF PostFile, CreateUpload, Restart, RecoverStuckJobs, upload_vars, vars
<1> QED BY <1>2, <1>3, <1>4, <1>5, <1>6 DEF UploadNext

\* A /complete under way that did not move keeps what it has done.
LEMMA WaitingCompletion ==
  ASSUME IInv, OffsetsAndRequests, FilesInv, DiskInv, [UploadNext]_upload_vars,
         NEW r \in Request, request'[r] = request[r]
  PROVE  CompletionOf(r)'
<1> SUFFICES ASSUME request[r].step \in {"look", "rename", "finish"}
             PROVE  /\ NoMoreBytes(request[r].file)'
                    /\ request[r].step = "finish" =>
                         Gone(request[r].file)' \/ request[r].file \in DOMAIN final'
  <2>1. \A f : f = request[r].file => f = request'[r].file
    OBVIOUS
  <2> QED BY <2>1 DEF CompletionOf, NoMoreBytes, Sealed, Gone
<1>0. PICK f : f = request[r].file
  OBVIOUS
<1>1. f \in used_ids /\ NoMoreBytes(f)
  BY <1>0 DEF FilesInv, RequestInv, DiskInv, CompletionOf
<1>2. NoMoreBytes(f)'
  BY <1>1, NoMoreBytesStays
<1>3. request[r].step = "finish" => Gone(f)' \/ f \in DOMAIN final'
  <2>1. Gone(f) => Gone(f)'
    BY <1>1, StepRefines, FilesAfterAStep
  <2> QED BY <1>0, <2>1, FinalStays DEF DiskInv, CompletionOf
<1>4. request'[r].file = f
  BY <1>0
<1> QED BY <1>0, <1>2, <1>3, <1>4 DEF NoMoreBytes, Sealed, Gone

\* The request that r serves has done what the step it moves to relies on.
LEMMA ServedCompletion ==
  ASSUME IInv, OffsetsAndRequests, FilesInv, DiskInv, NEW r \in Request, Serve(r)
  PROVE  CompletionOf(r)'
<1>0. PICK f : f = request[r].file
  OBVIOUS
<1>1. request = [q \in Request |-> request[q]]
  BY DEF OffsetsAndRequests, RequestsNameFiles
<1>2. ASSUME NEW s, NEW g, GoTo(r, s, g)
      PROVE  request'[r].step = s /\ request'[r].file = g
  <2> DEFINE moved == [step |-> s, file |-> g]
  <2>1. moved.step = s /\ moved.file = g
    OBVIOUS
  <2>2. request' = [request EXCEPT ![r] = moved]
    BY <1>2 DEF GoTo
  <2> HIDE DEF moved
  <2> QED BY <1>1, <2>1, <2>2
<1>3. ASSUME Return(r) PROVE CompletionOf(r)'
  <2>1. request'[r] = NoRequest
    BY <1>1, <1>3 DEF Return
  <2> QED BY <2>1 DEF NoRequest, CompletionOf
<1>4. ASSUME NEW s \in {"unlink_first", "unlink_second", "drop"}, NEW g, GoTo(r, s, g)
      PROVE  CompletionOf(r)'
  BY <1>2, <1>4 DEF CompletionOf
<1>5. ASSUME NEW s \in {"look", "rename", "finish"}, NEW g, GoTo(r, s, g),
             NoMoreBytes(g)', s = "finish" => g \in DOMAIN final'
      PROVE  CompletionOf(r)'
  <2>1. request'[r].step = s /\ request'[r].file = g
    BY <1>2, <1>5
  <2> QED BY <1>5, <2>1 DEF CompletionOf, NoMoreBytes, Sealed
<1>6. ASSUME NEW g \in FileId, PostComplete(r, g) PROVE CompletionOf(r)'
  <2>1. NoMoreBytes(g)'
    <3>1. CASE Orderly
      <4>1. client' = [client EXCEPT ![g].closed = TRUE]
        BY <1>6 DEF PostComplete
      <4> QED BY <3>1, <4>1 DEF NoMoreBytes, DiskInv
    <3>2. CASE ~Orderly
      <4>0. PICK ps \in Passages : BeginComplete(g, ps)
        BY <1>6 DEF PostComplete
      <4>1. g \in DOMAIN files /\ files[g] \in FileRow
            /\ files' = MarkFinalizing(files, g, Len(ps), NextSequence(g, ps))
        BY <4>0 DEF BeginComplete, IInv, TypeOK
      <4>2. files'[g].upload_status = "finalizing"
        BY <4>1 DEF MarkFinalizing, FileRow
      <4> QED BY <3>2, <4>2 DEF NoMoreBytes, Sealed
    <3> QED BY <3>1, <3>2
  <2>2. GoTo(r, "look", g)
    BY <1>6 DEF PostComplete
  <2> QED BY <1>5, <2>1, <2>2
<1>7. ASSUME NEW g \in FileId, Delete(r, g) PROVE CompletionOf(r)'
  BY <1>4, <1>7 DEF Delete
<1>8. CASE LookForFinal(r) \/ Rename(r)
  <2>1. f \in used_ids /\ NoMoreBytes(f)
    BY <1>0, <1>8 DEF LookForFinal, Rename, FilesInv, RequestInv, DiskInv, CompletionOf
  <2>2. NoMoreBytes(f)'
    BY <2>1, NoMoreBytesStays DEF UploadNext
  <2>3. CASE LookForFinal(r)
    <3>1. \/ GoTo(r, "rename", f)
          \/ GoTo(r, "finish", f) /\ f \in DOMAIN final'
      BY <1>0, <2>3 DEF LookForFinal, disk
    <3> QED BY <1>5, <2>2, <3>1
  <2>4. CASE Rename(r)
    <3>1. \/ Return(r)
          \/ GoTo(r, "finish", f) /\ f \in DOMAIN final'
      BY <1>0, <2>4 DEF Rename, Put
    <3> QED BY <1>3, <1>5, <2>2, <3>1
  <2> QED BY <1>8, <2>3, <2>4
<1>9. CASE MarkComplete(r) \/ Drop(r)
  BY <1>3, <1>9 DEF MarkComplete, Drop
<1>10. CASE Unlink(r)
  <2>1. \E s \in {"unlink_second", "drop"} : GoTo(r, s, f)
    BY <1>0, <1>10 DEF Unlink
  <2> QED BY <1>4, <2>1
<1> QED BY <1>6, <1>7, <1>8, <1>9, <1>10, Zenon DEF Serve

\* A file is marked completed when its bytes are in place.
LEMMA CompletedHasFinal ==
  ASSUME IInv, OffsetsAndRequests, FilesInv, DiskInv, [UploadNext]_upload_vars,
         NEW f \in DOMAIN files', files'[f].upload_status = "completed"
  PROVE  f \in DOMAIN final'
<1>0. DOMAIN files \subseteq used_ids /\ used_ids \subseteq FileId
      /\ \A g \in DOMAIN files : files[g] \in FileRow
  BY DEF IInv, TypeOK
<1>1. CASE f \in DOMAIN files /\ files[f].upload_status = "completed"
  <2>1. f \in DOMAIN final /\ ~Gone(f)
    BY <1>0, <1>1 DEF DiskInv, FileOnDisk, CopiesOf, Gone
  <2> QED BY <2>1, FinalStays
<1> SUFFICES ASSUME ~(f \in DOMAIN files /\ files[f].upload_status = "completed")
             PROVE  f \in DOMAIN final'
  BY <1>1
<1>2. ~UNCHANGED files
  OBVIOUS
<1>3. ASSUME NEW r \in Request, MarkComplete(r) PROVE f \in DOMAIN final'
  <2>1. PICK g : g = request[r].file
    OBVIOUS
  <2>2. FinishComplete(g)
    BY <1>2, <1>3, <2>1 DEF MarkComplete, queue, vars
  <2>3. g \in DOMAIN files /\ f = g
    BY <2>2 DEF FinishComplete, MarkCompleted
  <2>4. g \in DOMAIN final
    BY <1>3, <2>1, <2>3 DEF MarkComplete, DiskInv, CompletionOf, Gone
  <2>5. ~Gone(g)
    BY <2>3 DEF Gone
  <2> QED BY <2>3, <2>4, <2>5, FinalStays
<1>4. ASSUME NEW r \in Request, Serve(r), ~MarkComplete(r) PROVE FALSE
  <2>1. \E g \in FileId : PostComplete(r, g) \/ Delete(r, g)
    BY <1>2, <1>4 DEF Serve, LookForFinal, Rename, Unlink, Drop, queue, vars
  <2>2. ASSUME NEW g \in FileId, PostComplete(r, g) PROVE FALSE
    <3>0. PICK ps \in Passages : BeginComplete(g, ps)
      BY <2>2 DEF PostComplete
    <3>1. /\ g \in DOMAIN files
          /\ files' = MarkFinalizing(files, g, Len(ps), NextSequence(g, ps))
      BY <3>0 DEF BeginComplete
    <3> QED BY <1>0, <3>1 DEF MarkFinalizing, FileRow
  <2>3. ASSUME NEW g \in FileId, Delete(r, g) PROVE FALSE
    BY <2>3 DEF Delete, DeleteUpload, DeleteFile
  <2> QED BY <2>1, <2>2, <2>3
<1>5. ASSUME NEW w \in Worker, Index(w) PROVE FALSE
  <2>1. Work(w)
    <3>1. EmptyReads(w) \in SUBSET jobs[w]
      BY DEF EmptyReads
    <3> QED BY <1>2, <1>5, <3>1 DEF Index, Claim, StartRead, LookAtFinal, LookAtPartial,
         Open, SettleEmpty, EnsureCollection, CreateCollection, Upsert, Complete, Fail,
         Abandon, queue, vars, Work
  <2> QED BY <2>1, WorkKeepsStatus DEF SameStatus
<1>6. ASSUME NEW g \in FileId, NEW n \in 0..MAX_CHUNK_BYTES,
             PutChunk(g, n) \/ PutChunkFails(g, n)
      PROVE  FALSE
  <2>1. \E k, next : files' = UpdateAfterChunk(files, g, k, next)
    BY <1>2, <1>6 DEF PutChunk, PutChunkFails, AppendChunk, queue, vars
  <2> QED BY <1>0, <2>1 DEF UpdateAfterChunk, FileRow
<1>7. ASSUME NEW g \in FileId, PostFile(g) PROVE FALSE
  BY <1>7 DEF PostFile, CreateUpload, CreateFile, NewFile
<1>8. CASE Restart
  <2>1. files' = RevertStuckFinalizing(MarkInterruptedUploads(files))
    BY <1>8 DEF Restart, RecoverStuckJobs
  <2> QED BY <1>0, <2>1 DEF RevertStuckFinalizing, MarkInterruptedUploads, MoveUploads,
           FileRow
<1>9. CASE Die \/ UNCHANGED upload_vars
  BY <1>2, <1>9 DEF Die, Crash, tables, upload_vars, vars
<1> QED BY <1>3, <1>4, <1>5, <1>6, <1>7, <1>8, <1>9 DEF UploadNext

\* A file_id whose bytes a step leaves alone.
SameBytes(f) ==
  /\ f \in DOMAIN partial' <=> f \in DOMAIN partial
  /\ f \in DOMAIN partial => partial'[f] = partial[f]
  /\ f \in DOMAIN final' <=> f \in DOMAIN final
  /\ f \in DOMAIN final => final'[f] = final[f]
  /\ bytes_received'[f] = bytes_received[f]
  /\ client'[f].sent = client[f].sent

\* What holds of its copies goes on to hold.
LEMMA SameBytesOnDisk ==
  ASSUME IInv, OffsetsAndRequests, FilesInv, DiskInv, [UploadNext]_upload_vars,
         NEW f \in FileId, SameBytes(f), ClientOf(f)'
  PROVE  FileOnDisk(f)'
<1>1. FileOnDisk(f)
  BY DEF DiskInv
<1>2. DOMAIN files \subseteq used_ids
  BY DEF IInv, TypeOK
<1>3. f \in used_ids => f \in used_ids' /\ (Gone(f) => Gone(f)')
  BY StepRefines, FilesAfterAStep
<1>4. f \in DOMAIN partial' => Copy(f, partial[f])'
  BY <1>1 DEF FileOnDisk, Copy, SameBytes
<1>5. f \in DOMAIN final' => Copy(f, final[f])'
  BY <1>1 DEF FileOnDisk, Copy, SameBytes
<1>6. f \notin used_ids' => Unborn(f)'
  BY <1>1, <1>3 DEF FileOnDisk, Unborn, SameBytes
<1>7. ASSUME f \in DOMAIN files' PROVE CopiesOf(f)'
  <2>1. files'[f].upload_status = "completed" => f \in DOMAIN final'
    BY <1>7, CompletedHasFinal
  <2>2. CASE f \in DOMAIN files
    <3>1. f \in used_ids /\ CopiesOf(f)
      BY <1>1, <1>2, <2>2 DEF FileOnDisk
    <3>2. f \in DOMAIN final' => NoMoreBytes(f)'
      BY <3>1, NoMoreBytesStays DEF CopiesOf, SameBytes
    <3> QED BY <2>1, <3>1, <3>2 DEF CopiesOf, SameBytes
  <2>3. CASE f \notin DOMAIN files
    <3>1. Unborn(f)
      BY <1>1, <1>3, <1>7, <2>3 DEF FileOnDisk, Gone
    <3>2. f \notin DOMAIN partial' /\ f \notin DOMAIN final' /\ bytes_received'[f] = 0
      BY <3>1 DEF Unborn, SameBytes
    <3> QED BY <2>1, <3>2 DEF CopiesOf
  <2> QED BY <2>2, <2>3
<1> QED BY <1>4, <1>5, <1>6, <1>7 DEF FileOnDisk

\* A step that leaves the disk, the offsets and the clients alone.
LEMMA QuietStep ==
  ASSUME IInv, OffsetsAndRequests, FilesInv, DiskInv, [UploadNext]_upload_vars,
         UNCHANGED <<disk, bytes_received, client>>
  PROVE  \A f \in FileId : FileOnDisk(f)'
<1> SUFFICES ASSUME NEW f \in FileId PROVE FileOnDisk(f)'
  OBVIOUS
<1>1. SameBytes(f)
  BY DEF SameBytes, disk
<1>2. ClientOf(f)'
  BY DEF ClientOf, DiskInv, FileOnDisk
<1> QED BY <1>1, <1>2, SameBytesOnDisk

\* A body is written at the offset committed, whatever an earlier call left
\* behind it.
LEMMA WrittenIsCopy ==
  ASSUME OffsetsAndRequests, DiskInv, NEW f \in FileId, NEW n \in Nat,
         f \in DOMAIN files,
         files[f].upload_status \notin {"completed", "finalizing"}, MaySend(f, n)
  PROVE  /\ AfterWrite(f, n) = Bytes(0, bytes_received[f] + n)
         /\ f \notin DOMAIN final
<1>1. PICK b \in Nat : b = bytes_received[f]
  BY SizeAssumption DEF OffsetsAndRequests
<1>2. f \notin DOMAIN final
  <2>1. ~NoMoreBytes(f)
    BY OrderlyAssumption DEF NoMoreBytes, Sealed, MaySend, DiskInv
  <2> QED BY <2>1 DEF DiskInv, FileOnDisk, CopiesOf
<1>3. Truncated(f) = Bytes(0, b)
  <2>1. CASE f \notin DOMAIN partial
    <3>1. ~(b > 0)
      BY <1>1, <1>2, <2>1 DEF DiskInv, FileOnDisk, CopiesOf
    <3>2. b = 0
      BY <1>1, <3>1
    <3>3. Bytes(0, 0) = <<>>
      <4>1. Bytes(0, 0) \in Seq(Nat) /\ Len(Bytes(0, 0)) = 0 - 0
        <5>1. 0 \in Nat /\ 0 <= 0
          OBVIOUS
        <5> QED BY <5>1, BytesAreASequence
      <4> QED BY <4>1, EmptySeq
    <3> QED BY <2>1, <3>2, <3>3 DEF Truncated
  <2>2. CASE f \in DOMAIN partial
    <3>1. PICK m \in Nat : b <= m /\ partial[f] = Bytes(0, m)
      BY <1>1, <2>2 DEF DiskInv, FileOnDisk, Copy
    <3>2. Len(partial[f]) = m
      <4>1. 0 <= m /\ m - 0 = m
        OBVIOUS
      <4>2. Len(Bytes(0, m)) = m - 0
        BY <4>1, BytesAreASequence
      <4> QED BY <3>1, <4>1, <4>2
    <3>3. SubSeq(Bytes(0, m), 1, b) = Bytes(0, b)
      <4>1. 0 <= b /\ 0 + 1 = 1
        OBVIOUS
      <4>2. SubSeq(Bytes(0, m), 0 + 1, b) = Bytes(0, b)
        BY <3>1, <4>1, BytesCut
      <4> QED BY <4>1, <4>2
    <3>4. CASE m > b
      BY <1>1, <2>2, <3>1, <3>2, <3>3, <3>4 DEF Truncated
    <3>5. CASE ~(m > b)
      <4>1. m = b
        BY <3>1, <3>5
      <4> QED BY <1>1, <2>2, <3>1, <3>2, <3>5, <4>1 DEF Truncated
    <3> QED BY <3>4, <3>5
  <2> QED BY <2>1, <2>2
<1>4. AfterWrite(f, n) = Bytes(0, b) \o Bytes(b, b + n)
  BY <1>1, <1>3 DEF AfterWrite
<1> QED BY <1>1, <1>2, <1>4, BytesJoined

\* What a chunk leaves on disk, whether its transaction commits or not.
LEMMA ChunkOnDisk ==
  ASSUME IInv, OffsetsAndRequests, FilesInv, DiskInv,
         NEW g \in FileId, NEW n \in 0..MAX_CHUNK_BYTES,
         PutChunk(g, n) \/ PutChunkFails(g, n)
  PROVE  \A f \in FileId : FileOnDisk(f)'
<1>0. n \in Nat /\ [UploadNext]_upload_vars
  BY SizeAssumption DEF UploadNext
<1>1. /\ g \in DOMAIN files /\ MaySend(g, n) /\ Sent(g, n)
      /\ files[g].upload_status \notin {"completed", "finalizing"}
      /\ partial' = Put(partial, g, AfterWrite(g, n))
      /\ UNCHANGED <<final, used_ids>>
  BY DEF PutChunk, PutChunkFails, AppendChunk, queue, vars
<1>2. PICK b \in Nat : b = bytes_received[g]
  BY SizeAssumption DEF OffsetsAndRequests
<1>3. PICK c \in Nat : /\ c = bytes_received'[g] /\ b <= c /\ c <= b + n
                       /\ \A f \in FileId \ {g} : bytes_received'[f] = bytes_received[f]
  <2>1. CASE UNCHANGED bytes_received
    BY <1>0, <1>2, <2>1
  <2>2. CASE bytes_received' = [bytes_received EXCEPT ![g] = @ + n]
    <3>1. bytes_received'[g] = b + n /\ b + n \in Nat /\ b <= b + n
      BY <1>0, <1>2, <2>2 DEF OffsetsAndRequests
    <3>2. \A f \in FileId \ {g} : bytes_received'[f] = bytes_received[f]
      BY <2>2 DEF OffsetsAndRequests
    <3> QED BY <3>1, <3>2
  <2> QED BY <2>1, <2>2 DEF PutChunk, PutChunkFails, columns
<1>4. PICK s \in Nat : /\ b + n <= s /\ s = client'[g].sent
                       /\ client'[g].closed = client[g].closed
                       /\ \A f \in FileId \ {g} : client'[f] = client[f]
  <2>1. client \in [FileId -> [sent : Nat, closed : BOOLEAN]]
    BY DEF DiskInv
  <2>2. PICK s \in Nat : b + n <= s /\ client' = [client EXCEPT ![g].sent = s]
    <3>1. PICK old \in Nat : old = client[g].sent
      BY <2>1
    <3>2. client' = [client EXCEPT ![g].sent = IF old < b + n THEN b + n ELSE old]
      BY <1>1, <1>2, <3>1 DEF Sent
    <3>3. PICK s : s = IF old < b + n THEN b + n ELSE old
      OBVIOUS
    <3>4. s \in Nat /\ b + n <= s
      BY <1>0, <3>3
    <3>5. client' = [client EXCEPT ![g].sent = s]
      BY <3>2, <3>3
    <3> QED BY <3>4, <3>5
  <2> QED BY <2>1, <2>2
<1>5. AfterWrite(g, n) = Bytes(0, b + n) /\ g \notin DOMAIN final
  BY <1>0, <1>1, <1>2, WrittenIsCopy
<1>6. FileOnDisk(g)'
  <2>1. g \in DOMAIN partial' /\ partial'[g] = Bytes(0, b + n) /\ g \notin DOMAIN final'
    BY <1>1, <1>5 DEF Put
  <2>2. Copy(g, partial[g])'
    BY <1>0, <1>2, <1>3, <1>4, <2>1 DEF Copy
  <2>3. CopiesOf(g)'
    <3>1. g \in DOMAIN files' => files'[g].upload_status # "completed"
      BY <1>0, <2>1, CompletedHasFinal
    <3>2. g \in DOMAIN files'
      BY <1>0, <1>1, StepRefines DEF PutChunk, PutChunkFails, AppendChunk,
           UpdateAfterChunk, queue, vars
    <3> QED BY <2>1, <3>1, <3>2 DEF CopiesOf
  <2>4. ClientOf(g)'
    <3>1. Orderly => client[g].closed # TRUE
      BY <1>1 DEF MaySend
    <3>2. c <= s
      BY <1>0, <1>3, <1>4
    <3> QED BY <1>3, <1>4, <3>1, <3>2 DEF ClientOf
  <2>5. g \in used_ids'
    BY <1>1 DEF IInv, TypeOK
  <2> QED BY <2>1, <2>2, <2>3, <2>4, <2>5 DEF FileOnDisk
<1>7. ASSUME NEW f \in FileId, f # g PROVE FileOnDisk(f)'
  <2>1. SameBytes(f)
    BY <1>1, <1>3, <1>4, <1>7 DEF SameBytes, Put
  <2>2. ClientOf(f)'
    BY <1>3, <1>4, <1>7 DEF ClientOf, DiskInv, FileOnDisk
  <2> QED BY <1>0, <2>1, <2>2, SameBytesOnDisk
<1> QED BY <1>6, <1>7

\* The rename moves a copy and leaves one.
LEMMA RenameOnDisk ==
  ASSUME IInv, OffsetsAndRequests, FilesInv, DiskInv, NEW r \in Request, Rename(r)
  PROVE  \A f \in FileId : FileOnDisk(f)'
<1>0. [UploadNext]_upload_vars
  BY DEF UploadNext, Serve
<1>1. PICK g : g = request[r].file
  OBVIOUS
<1>2. /\ g \in used_ids /\ g \in FileId /\ NoMoreBytes(g)
      /\ UNCHANGED <<bytes_received, client, used_ids>>
  BY <1>1 DEF Rename, FilesInv, RequestInv, DiskInv, CompletionOf, IInv, TypeOK,
       columns, history, queue, vars
<1>3. CASE g \notin DOMAIN partial
  <2>1. UNCHANGED <<disk, bytes_received, client>>
    BY <1>1, <1>2, <1>3 DEF Rename
  <2> QED BY <1>0, <2>1, QuietStep
<1>4. CASE g \in DOMAIN partial
  <2>1. final' = Put(final, g, partial[g]) /\ partial' = Without(partial, g)
    BY <1>1, <1>4 DEF Rename
  <2>2. \A f \in FileId : ClientOf(f)'
    BY <1>2 DEF ClientOf, DiskInv, FileOnDisk
  <2>3. FileOnDisk(g)'
    <3>1. g \in DOMAIN final' /\ final'[g] = partial[g] /\ g \notin DOMAIN partial'
      BY <2>1 DEF Put, Without
    <3>2. Copy(g, final[g])'
      BY <1>2, <1>4, <3>1 DEF DiskInv, FileOnDisk, Copy
    <3>3. NoMoreBytes(g)'
      BY <1>0, <1>2, NoMoreBytesStays
    <3> QED BY <1>2, <2>2, <3>1, <3>2, <3>3 DEF FileOnDisk, CopiesOf
  <2>4. ASSUME NEW f \in FileId, f # g PROVE FileOnDisk(f)'
    <3>1. SameBytes(f)
      BY <1>2, <2>1, <2>4 DEF SameBytes, Put, Without
    <3> QED BY <1>0, <2>2, <3>1, SameBytesOnDisk
  <2> QED BY <2>3, <2>4
<1> QED BY <1>3, <1>4

\* Only the bytes of a deleted file are removed.
LEMMA UnlinkOnDisk ==
  ASSUME IInv, OffsetsAndRequests, FilesInv, DiskInv, NEW r \in Request, Unlink(r)
  PROVE  \A f \in FileId : FileOnDisk(f)'
<1>0. [UploadNext]_upload_vars
  BY DEF UploadNext, Serve
<1>1. PICK g : g = request[r].file
  OBVIOUS
<1>2. /\ g \in FileId /\ Gone(g)
      /\ UNCHANGED <<bytes_received, client, used_ids, files>>
  BY <1>1 DEF Unlink, FilesInv, RequestInv, Gone, IInv, TypeOK, columns, history, queue,
       vars
<1>3. /\ partial' \in {partial, Without(partial, g)}
      /\ final' \in {final, Without(final, g)}
  BY <1>1 DEF Unlink
<1>4. \A f \in FileId : ClientOf(f)'
  BY <1>2 DEF ClientOf, DiskInv, FileOnDisk
<1>5. FileOnDisk(g)'
  <2>1. g \in DOMAIN partial' => g \in DOMAIN partial /\ partial'[g] = partial[g]
    BY <1>3 DEF Without
  <2>2. g \in DOMAIN final' => g \in DOMAIN final /\ final'[g] = final[g]
    BY <1>3 DEF Without
  <2>3. /\ g \in DOMAIN partial' => Copy(g, partial[g])'
        /\ g \in DOMAIN final' => Copy(g, final[g])'
    BY <1>2, <2>1, <2>2 DEF DiskInv, FileOnDisk, Copy
  <2> QED BY <1>2, <1>4, <2>3 DEF FileOnDisk, Gone
<1>6. ASSUME NEW f \in FileId, f # g PROVE FileOnDisk(f)'
  <2>1. SameBytes(f)
    BY <1>2, <1>3, <1>6 DEF SameBytes, Without
  <2> QED BY <1>0, <1>4, <2>1, SameBytesOnDisk
<1> QED BY <1>5, <1>6

\* When /complete begins, an orderly client has no byte under way.
LEMMA PostCompleteOnDisk ==
  ASSUME IInv, OffsetsAndRequests, FilesInv, DiskInv, NEW r \in Request,
         NEW g \in FileId, PostComplete(r, g)
  PROVE  \A f \in FileId : FileOnDisk(f)'
<1>0. [UploadNext]_upload_vars
  BY DEF UploadNext, Serve
<1>1. /\ client' = [client EXCEPT ![g].closed = TRUE]
      /\ Orderly => client[g].sent = bytes_received[g]
      /\ UNCHANGED <<disk, bytes_received>>
  BY DEF PostComplete
<1>2. client \in [FileId -> [sent : Nat, closed : BOOLEAN]]
  BY DEF DiskInv
<1>3. \A f \in FileId : client'[f].sent = client[f].sent
  BY <1>1, <1>2
<1>4. \A f \in FileId \ {g} : client'[f] = client[f]
  BY <1>1, <1>2
<1>5. ASSUME NEW f \in FileId PROVE ClientOf(f)'
  <2>1. CASE f = g
    <3>1. Orderly => bytes_received[f] <= client[f].sent
      BY DEF DiskInv, FileOnDisk, ClientOf
    <3>2. Orderly => client'[f].sent = bytes_received'[f]
      BY <1>1, <1>3, <2>1
    <3> QED BY <1>1, <1>3, <3>1, <3>2 DEF ClientOf
  <2>2. CASE f # g
    BY <1>1, <1>4, <2>2 DEF DiskInv, FileOnDisk, ClientOf
  <2> QED BY <2>1, <2>2
<1>6. \A f \in FileId : SameBytes(f)
  BY <1>1, <1>3 DEF SameBytes, disk
<1> QED BY <1>0, <1>5, <1>6, SameBytesOnDisk

\* Nothing is on disk at the start.
LEMMA DiskInitially == UploadInit => DiskInv
<1> SUFFICES ASSUME UploadInit PROVE DiskInv
  OBVIOUS
<1>1. /\ client \in [FileId -> [sent : Nat, closed : BOOLEAN]]
      /\ \A f \in FileId : client[f].sent = 0 /\ client[f].closed = FALSE
                           /\ bytes_received[f] = 0
  BY DEF UploadInit
<1>2. DOMAIN partial = {} /\ DOMAIN final = {} /\ DOMAIN files = {} /\ running
  BY DEF UploadInit, Init, EmptyTable
<1>3. \A f \in FileId : FileOnDisk(f)
  BY <1>1, <1>2 DEF FileOnDisk, Unborn, ClientOf
<1>4. \A r \in Request : CompletionOf(r)
  BY DEF UploadInit, NoRequest, CompletionOf
<1> QED BY <1>1, <1>2, <1>3, <1>4 DEF DiskInv

\* Every step keeps the copies.
LEMMA DiskStep ==
  ASSUME Whole, IInv, OffsetsAndRequests, FilesInv, DiskInv, [UploadNext]_upload_vars
  PROVE  DiskInv'
<1>1. client' \in [FileId -> [sent : Nat, closed : BOOLEAN]]
  BY ClientStep DEF DiskInv
<1>2. ~Orderly => running'
  BY RunningStays
<1>3. \A f \in FileId : FileOnDisk(f)'
  <2>1. ASSUME NEW g \in FileId, NEW n \in 0..MAX_CHUNK_BYTES,
               PutChunk(g, n) \/ PutChunkFails(g, n)
        PROVE  \A f \in FileId : FileOnDisk(f)'
    BY <2>1, ChunkOnDisk
  <2>2. ASSUME NEW r \in Request, Serve(r) PROVE \A f \in FileId : FileOnDisk(f)'
    <3>1. ASSUME NEW g \in FileId, PostComplete(r, g)
          PROVE  \A f \in FileId : FileOnDisk(f)'
      BY <3>1, PostCompleteOnDisk
    <3>2. CASE Rename(r)
      BY <3>2, RenameOnDisk
    <3>3. CASE Unlink(r)
      BY <3>3, UnlinkOnDisk
    <3>4. CASE (\E g \in FileId : Delete(r, g)) \/ LookForFinal(r) \/ MarkComplete(r)
               \/ Drop(r)
      <4>1. UNCHANGED <<disk, bytes_received, client>>
        BY <3>4 DEF Delete, LookForFinal, MarkComplete, Drop, columns, history
      <4> QED BY <4>1, QuietStep
    <3> QED BY <2>2, <3>1, <3>2, <3>3, <3>4 DEF Serve
  <2>3. ASSUME NEW w \in Worker, Index(w) PROVE \A f \in FileId : FileOnDisk(f)'
    <3>1. UNCHANGED <<disk, bytes_received, client>>
      BY <2>3 DEF Index, Claim, StartRead, LookAtFinal, LookAtPartial, Open, SettleEmpty,
           EnsureCollection, CreateCollection, Upsert, Complete, Fail, Abandon, columns,
           history
    <3> QED BY <3>1, QuietStep
  <2>4. CASE (\E g \in FileId : PostFile(g)) \/ Die \/ Restart \/ UNCHANGED upload_vars
    <3>1. UNCHANGED <<disk, bytes_received, client>>
      BY <2>4 DEF PostFile, Die, Restart, columns, history, upload_vars, disk
    <3> QED BY <3>1, QuietStep
  <2> QED BY <2>1, <2>2, <2>3, <2>4 DEF UploadNext
<1>4. \A r \in Request : CompletionOf(r)'
  <2>1. CASE UNCHANGED request
    BY <2>1, WaitingCompletion
  <2>2. ASSUME NEW r \in Request, Serve(r) PROVE \A q \in Request : CompletionOf(q)'
    <3>1. CompletionOf(r)'
      BY <2>2, ServedCompletion
    <3>2. \A q \in Request \ {r} : request'[q] = request[q]
      BY <2>2, ServedKeeps DEF FilesInv
    <3> QED BY <3>1, <3>2, WaitingCompletion
  <2>3. CASE Die
    BY <2>3 DEF Die, NoRequest, CompletionOf
  <2>4. ASSUME NEW w \in Worker, Index(w) PROVE UNCHANGED request
    BY <2>4 DEF Index, Claim, StartRead, LookAtFinal, LookAtPartial, Open, SettleEmpty,
         EnsureCollection, CreateCollection, Upsert, Complete, Fail, Abandon
  <2>5. ASSUME NEW g \in FileId, NEW n \in 0..MAX_CHUNK_BYTES,
               PutChunk(g, n) \/ PutChunkFails(g, n)
        PROVE  UNCHANGED request
    BY <2>5 DEF PutChunk, PutChunkFails
  <2>6. CASE (\E g \in FileId : PostFile(g)) \/ Restart \/ UNCHANGED upload_vars
    BY <2>1, <2>6 DEF PostFile, Restart, upload_vars
  <2> QED BY <2>1, <2>2, <2>3, <2>4, <2>5, <2>6 DEF UploadNext
<1> QED BY <1>1, <1>2, <1>3, <1>4 DEF DiskInv

\* Offsets and requests are right throughout.
LEMMA OffsetsInvariant == UploadSpec => []OffsetsAndRequests
<1>1. OffsetsAndRequests /\ [UploadNext]_upload_vars => OffsetsAndRequests'
  <2>1. OffsetsAndRequests /\ UNCHANGED upload_vars => OffsetsAndRequests'
    BY DEF OffsetsAndRequests, RequestsNameFiles, upload_vars
  <2> QED BY <2>1, OffsetsStep
<1> QED BY <1>1, OffsetsInitially, PTL DEF UploadSpec

\* The copies are right throughout.
LEMMA DiskInvariant ==
  ASSUME Whole PROVE UploadSpec => []DiskInv
<1>1. UploadSpec => []IInv
  BY PipelineImplementsQueue, InvariantHolds, PTL
<1>2. IInv /\ OffsetsAndRequests /\ FilesInv /\ DiskInv /\ [UploadNext]_upload_vars
        => DiskInv'
  BY DiskStep
<1> QED BY <1>1, <1>2, DiskInitially, OffsetsInvariant, FilesInvariant, PTL DEF UploadSpec

\* A beginning of the client's file, read as far as was acknowledged.
LEMMA BeginningOfCopy ==
  ASSUME NEW n \in Nat, NEW b \in Nat, b <= n
  PROVE  Len(Bytes(0, n)) >= b /\ SubSeq(Bytes(0, n), 1, b) = Bytes(0, b)
<1>1. 0 <= b /\ 0 <= n /\ 0 + 1 = 1 /\ n - 0 = n
  OBVIOUS
<1>2. Len(Bytes(0, n)) = n - 0
  BY <1>1, BytesAreASequence
<1>3. SubSeq(Bytes(0, n), 0 + 1, b) = Bytes(0, b)
  BY <1>1, BytesCut
<1> QED BY <1>1, <1>2, <1>3

\* What was acknowledged is on disk, in order, for as long as the file lives:
\* with any crash when clients repeat what was not acknowledged and stop at
\* /complete, and for every client when the process does not die.
THEOREM CommittedBytesStay ==
  ASSUME Whole PROVE UploadSpec => []CommittedBytesAreOnDisk
<1>1. OffsetsAndRequests /\ IInv /\ DiskInv => CommittedBytesAreOnDisk
  <2> SUFFICES ASSUME OffsetsAndRequests, IInv, DiskInv, NEW f \in DOMAIN files
               PROVE  /\ Len(Readable(f)) >= bytes_received[f]
                      /\ SubSeq(Readable(f), 1, bytes_received[f])
                           = Bytes(0, bytes_received[f])
    BY DEF CommittedBytesAreOnDisk
  <2>1. f \in FileId
    BY DEF IInv, TypeOK
  <2>2. PICK b \in Nat : b = bytes_received[f]
    BY <2>1, SizeAssumption DEF OffsetsAndRequests
  <2>3. CopiesOf(f) /\ FileOnDisk(f)
    BY <2>1 DEF DiskInv, FileOnDisk
  <2>4. PICK n \in Nat : b <= n /\ Readable(f) = Bytes(0, n)
    <3>1. CASE f \in DOMAIN partial \cup DOMAIN final
      BY <2>2, <2>3, <3>1 DEF FileOnDisk, Copy, Readable
    <3>2. CASE f \notin DOMAIN partial \cup DOMAIN final
      <4>1. b = 0 /\ Readable(f) = <<>>
        BY <2>2, <2>3, <3>2 DEF CopiesOf, Readable
      <4>2. Bytes(0, 0) = <<>>
        <5>1. 0 \in Nat /\ 0 <= 0
          OBVIOUS
        <5>2. Bytes(0, 0) \in Seq(Nat) /\ Len(Bytes(0, 0)) = 0 - 0
          BY <5>1, BytesAreASequence
        <5> QED BY <5>2, EmptySeq
      <4> QED BY <4>1, <4>2
    <3> QED BY <3>1, <3>2
  <2> QED BY <2>2, <2>4, BeginningOfCopy
<1>2. UploadSpec => []IInv
  BY PipelineImplementsQueue, InvariantHolds, PTL
<1> QED BY <1>1, <1>2, OffsetsInvariant, DiskInvariant, PTL

\* A completed file holds exactly the bytes that were acknowledged, whatever
\* crashes come between its chunks, /complete and the rename.
THEOREM CompletedFilesAreWhole ==
  ASSUME Orderly PROVE UploadSpec => []CompletedFileIsWhole
<1>1. OffsetsAndRequests /\ IInv /\ DiskInv => CompletedFileIsWhole
  <2> SUFFICES ASSUME OffsetsAndRequests, IInv, DiskInv, NEW f \in DOMAIN files,
                      files[f].upload_status = "completed"
               PROVE  f \in DOMAIN final /\ final[f] = Bytes(0, bytes_received[f])
    BY DEF CompletedFileIsWhole
  <2>1. f \in FileId
    BY DEF IInv, TypeOK
  <2>2. bytes_received[f] \in Nat
    BY <2>1, SizeAssumption DEF OffsetsAndRequests
  <2>3. f \in DOMAIN final /\ Copy(f, final[f]) /\ NoMoreBytes(f) /\ ClientOf(f)
    BY <2>1 DEF DiskInv, FileOnDisk, CopiesOf
  <2>4. client[f].sent = bytes_received[f]
    BY <2>3 DEF NoMoreBytes, ClientOf
  <2>5. PICK n \in Nat : /\ bytes_received[f] <= n /\ n <= bytes_received[f]
                         /\ final[f] = Bytes(0, n)
    BY <2>3, <2>4 DEF Copy
  <2>6. n = bytes_received[f]
    BY <2>2, <2>5
  <2> QED BY <2>3, <2>5, <2>6
<1>2. UploadSpec => []IInv
  BY PipelineImplementsQueue, InvariantHolds, PTL
<1>3. UploadSpec => []DiskInv
  BY DiskInvariant DEF Whole
<1> QED BY <1>1, <1>2, <1>3, OffsetsInvariant, PTL

----------------------------------------------------------------------------
(* Passages are of committed bytes *)

\* The range is within what was acknowledged of the file.
Committed(f, p) == p \in ByteRanges /\ p[2] <= bytes_received[f]

\* So is every passage of a row or a job, and the tail begins within them.
PassagesInv ==
  /\ \A f \in FileId : tail_start[f] <= bytes_received[f]
  /\ \A c \in DOMAIN chunks : Committed(chunks[c].file_id, chunks[c].passage)
  /\ \A w \in Worker : \A j \in jobs[w] : Committed(j.file_id, j.passage)

\* The columns of a row that no statement changes.
SameRow(c) ==
  /\ chunks'[c].file_id = chunks[c].file_id
  /\ chunks'[c].sequence = chunks[c].sequence
  /\ chunks'[c].passage = chunks[c].passage

\* What a row that an enqueue adds is of.
LEMMA NewRows ==
  ASSUME IInv, NEW f \in DOMAIN files, NEW ps \in Passages, Enqueue(f, ps)
  PROVE  /\ \A c \in DOMAIN chunks : c \in DOMAIN chunks' /\ chunks'[c] = chunks[c]
         /\ \A c \in DOMAIN chunks' \ DOMAIN chunks :
              /\ chunks'[c].file_id = f
              /\ chunks'[c].status = "pending"
              /\ \E i \in 1..Len(ps) : chunks'[c].passage = ps[i]
<1> DEFINE start == files[f].next_sequence
           slots == {k \in 1..Len(ps) :
                       start + k - 1 \notin {chunks[c].sequence : c \in Rows(chunks, f)}}
           new == {last_chunk_id + i : i \in slots}
<1>1. last_chunk_id \in Nat /\ Len(ps) \in Nat /\ slots \subseteq 1..Len(ps)
  BY PassagesAreSequences DEF IInv, TypeOK
<1>2. chunks' = [c \in DOMAIN chunks \cup new |->
                   IF c \in DOMAIN chunks THEN chunks[c]
                   ELSE PendingRow(f, start + (c - last_chunk_id) - 1,
                                   ps[c - last_chunk_id])]
  BY DEF Enqueue, InsertPending
<1>3. \A c \in new : c - last_chunk_id \in 1..Len(ps)
  BY <1>1
<1> HIDE DEF new, slots, start
<1> QED BY <1>2, <1>3 DEF PendingRow

\* The rows after a step: those there keep their columns, and go only with
\* their file.
LEMMA RowsAfterAStep ==
  ASSUME IInv, [Next]_vars
  PROVE  /\ \A c \in DOMAIN chunks \cap DOMAIN chunks' : SameRow(c)
         /\ \A c \in DOMAIN chunks :
              chunks[c].file_id \in DOMAIN files' => c \in DOMAIN chunks'
<1>0. chunks \in [DOMAIN chunks -> ChunkRow]
  BY DEF IInv, TypeOK
<1>1. ASSUME SameRows(chunks, chunks')
      PROVE  /\ \A c \in DOMAIN chunks \cap DOMAIN chunks' : SameRow(c)
             /\ \A c \in DOMAIN chunks : c \in DOMAIN chunks'
  BY <1>1 DEF SameRows, SameRow
<1>2. CASE UNCHANGED chunks
  BY <1>2 DEF SameRow
<1>3. ASSUME NEW f \in FileId, NEW ps \in Passages, AppendChunk(f, ps) \/ BeginComplete(f, ps)
      PROVE  /\ \A c \in DOMAIN chunks \cap DOMAIN chunks' : SameRow(c)
             /\ \A c \in DOMAIN chunks : c \in DOMAIN chunks'
  <2>1. f \in DOMAIN files /\ Enqueue(f, ps)
    BY <1>3 DEF AppendChunk, BeginComplete
  <2> QED BY <2>1, NewRows DEF SameRow
<1>4. ASSUME NEW f \in FileId, DeleteUpload(f)
      PROVE  /\ \A c \in DOMAIN chunks \cap DOMAIN chunks' : SameRow(c)
             /\ \A c \in DOMAIN chunks :
                  chunks[c].file_id \in DOMAIN files' => c \in DOMAIN chunks'
  BY <1>4 DEF DeleteUpload, DeleteFile, DeleteChunks, Rows, SameRow
<1>5. ASSUME NEW w \in Worker, Work(w) PROVE SameRows(chunks, chunks')
  <2>1. CASE ClaimBatch(w)
    <3>1. \E ids : chunks' = SetStatus(chunks, ids, "processing")
      BY <2>1 DEF ClaimBatch, MarkProcessing
    <3> QED BY <1>0, <3>1, SetStatusColumns DEF ChunkStatus
  <2>2. ASSUME NEW batch \in SUBSET jobs[w], CompleteBatch(batch)
        PROVE  SameRows(chunks, chunks')
    BY <2>2, CompleteBatchTables
  <2>3. CASE (\E empty \in SUBSET jobs[w] : CompleteEmpty(w, empty)) \/ CompleteKept(w)
    BY <2>2, <2>3 DEF CompleteEmpty, CompleteKept
  <2>4. CASE FailBatch(w)
    BY <2>4, FailBatchTables
  <2>5. CASE AbandonBatch(w)
    BY <1>0, <2>5 DEF AbandonBatch, tables, SameRows
  <2> QED BY <1>5, <2>1, <2>3, <2>4, <2>5 DEF Work
<1>6. CASE RecoverStuckJobs
  <2>1. \E ids : chunks' = SetStatus(chunks, ids, "pending")
    BY <1>6 DEF RecoverStuckJobs, ResetStuckProcessing
  <2>2. SameRows(chunks, chunks')
    BY <1>0, <2>1, SetStatusColumns DEF ChunkStatus
  <2> QED BY <1>1, <2>2
<1>7. CASE (\E f \in FileId : CreateUpload(f) \/ FinishComplete(f)) \/ Crash
           \/ UNCHANGED vars
  BY <1>2, <1>7 DEF CreateUpload, FinishComplete, Crash, tables, vars
<1> QED BY <1>1, <1>3, <1>4, <1>5, <1>6, <1>7 DEF Next

\* A batch is a copy of rows, taken when it was claimed.
LEMMA JobsAfterAStep ==
  ASSUME IInv, [Next]_vars, NEW w \in Worker
  PROVE  \/ jobs'[w] \in {{}, jobs[w]}
         \/ /\ ClaimBatch(w)
            /\ jobs'[w] = {ChunkJob(c) :
                 c \in SelectPendingForFile(chunks, OldestPendingFile(chunks),
                                            CLAIM_BATCH_SIZE)}
<1>0. jobs \in [Worker -> SUBSET Job]
  BY DEF IInv, TypeOK
<1>1. ASSUME NEW v \in Worker, Work(v)
      PROVE  \/ jobs'[w] \in {{}, jobs[w]}
             \/ /\ ClaimBatch(w)
                /\ jobs'[w] = {ChunkJob(c) :
                     c \in SelectPendingForFile(chunks, OldestPendingFile(chunks),
                                                CLAIM_BATCH_SIZE)}
  <2>1. CASE ClaimBatch(v)
    BY <1>0, <2>1 DEF ClaimBatch
  <2>2. ASSUME NEW empty \in SUBSET jobs[v], CompleteEmpty(v, empty)
        PROVE  jobs'[w] \in {{}, jobs[w]}
    BY <1>0, <2>2 DEF CompleteEmpty
  <2>3. CASE CompleteKept(v) \/ FailBatch(v) \/ AbandonBatch(v)
    <3>1. jobs' = [jobs EXCEPT ![v] = {}]
      BY <2>3 DEF CompleteKept, FailBatch, AbandonBatch
    <3> QED BY <1>0, <3>1
  <2> QED BY <1>1, <2>1, <2>2, <2>3 DEF Work
<1>2. CASE Crash
  BY <1>2 DEF Crash
<1>3. CASE RecoverStuckJobs \/ UNCHANGED vars
  BY <1>3 DEF RecoverStuckJobs, memory, vars
<1>4. ASSUME NEW f \in FileId, NEW ps \in Passages,
             CreateUpload(f) \/ FinishComplete(f) \/ DeleteUpload(f)
             \/ AppendChunk(f, ps) \/ BeginComplete(f, ps)
      PROVE  UNCHANGED jobs
  BY <1>4 DEF CreateUpload, FinishComplete, DeleteUpload, AppendChunk, BeginComplete, memory
<1>5. ASSUME NEW f \in FileId, CreateUpload(f) \/ FinishComplete(f) \/ DeleteUpload(f)
      PROVE  UNCHANGED jobs
  BY <1>5 DEF CreateUpload, FinishComplete, DeleteUpload, memory
<1> QED BY <1>1, <1>2, <1>3, <1>4, <1>5 DEF Next

\* No acknowledged byte is taken back.
LEMMA BytesGrow ==
  ASSUME OffsetsAndRequests, [UploadNext]_upload_vars, NEW f \in FileId
  PROVE  bytes_received[f] <= bytes_received'[f]
<1>1. bytes_received[f] \in Nat
  BY SizeAssumption DEF OffsetsAndRequests
<1>2. CASE UNCHANGED bytes_received
  BY <1>1, <1>2
<1>3. ASSUME NEW g \in FileId, NEW n \in 0..MAX_CHUNK_BYTES, PutChunk(g, n)
      PROVE  bytes_received[f] <= bytes_received'[f]
  <2>1. n \in Nat /\ bytes_received' = [bytes_received EXCEPT ![g] = bytes_received[g] + n]
    BY <1>3, SizeAssumption DEF PutChunk
  <2> QED BY <1>1, <2>1 DEF OffsetsAndRequests
<1>4. ASSUME NEW r \in Request, Serve(r) PROVE UNCHANGED bytes_received
  BY <1>4 DEF Serve, PostComplete, Delete, LookForFinal, Rename, MarkComplete, Unlink,
       Drop, columns
<1>5. ASSUME NEW w \in Worker, Index(w) PROVE UNCHANGED bytes_received
  BY <1>5 DEF Index, Claim, StartRead, LookAtFinal, LookAtPartial, Open, SettleEmpty,
       EnsureCollection, CreateCollection, Upsert, Complete, Fail, Abandon, columns
<1>6. ASSUME NEW g \in FileId, NEW n \in 0..MAX_CHUNK_BYTES, PutChunkFails(g, n)
      PROVE  UNCHANGED bytes_received
  BY <1>6 DEF PutChunkFails, columns
<1>7. CASE (\E g \in FileId : PostFile(g)) \/ Die \/ Restart \/ UNCHANGED upload_vars
  BY <1>2, <1>7 DEF PostFile, Die, Restart, columns, upload_vars
<1> QED BY <1>2, <1>3, <1>4, <1>5, <1>6, <1>7 DEF UploadNext

\* So a range that was committed still is.
LEMMA CommittedStays ==
  ASSUME OffsetsAndRequests, [UploadNext]_upload_vars, NEW f \in FileId, NEW p,
         Committed(f, p)
  PROVE  Committed(f, p)'
<1>1. bytes_received[f] \in Nat /\ bytes_received'[f] \in Nat /\ p[2] \in Nat
  <2>1. OffsetsAndRequests'
    BY OffsetsStep DEF OffsetsAndRequests, RequestsNameFiles, upload_vars
  <2> QED BY <2>1, SizeAssumption DEF OffsetsAndRequests, Committed, ByteRanges
<1>2. bytes_received[f] <= bytes_received'[f]
  BY BytesGrow
<1> QED BY <1>1, <1>2 DEF Committed

\* The passages that a chunk or /complete adds end at bytes that its transaction
\* acknowledges.
LEMMA AddedPassages ==
  ASSUME IInv, IInv', OffsetsAndRequests, PassagesInv, [UploadNext]_upload_vars,
         NEW c \in DOMAIN chunks' \ DOMAIN chunks
  PROVE  /\ chunks'[c].status = "pending"
         /\ Committed(chunks[c].file_id, chunks[c].passage)'
<1>1. chunks'[c].passage \in ByteRanges
  BY PassageAssumption DEF IInv, TypeOK, ChunkRow
<1>2. ASSUME NEW f \in FileId, NEW n \in 0..MAX_CHUNK_BYTES, PutChunk(f, n)
      PROVE  /\ chunks'[c].status = "pending"
             /\ Committed(chunks[c].file_id, chunks[c].passage)'
  <2>1. PICK keep \in 0..MAX_FILE_BYTES, ps \in Passages :
          Fed(f, n, ps, keep) /\ AppendChunk(f, ps)
    BY <1>2 DEF PutChunk
  <2>2. PICK i \in 1..Len(ps) : /\ chunks'[c].file_id = f
                                /\ chunks'[c].status = "pending"
                                /\ chunks'[c].passage = ps[i]
    BY <2>1, NewRows DEF AppendChunk
  <2>3. i \in DOMAIN ps
    BY <2>1, <2>2, PassagesAreSequences
  <2>4. ps[i][2] <= bytes_received[f] + n
    BY <2>1, <2>3 DEF Fed, CutsOf
  <2>5. bytes_received'[f] = bytes_received[f] + n
    BY <1>2 DEF PutChunk, OffsetsAndRequests
  <2> QED BY <1>1, <2>2, <2>4, <2>5 DEF Committed
<1>3. ASSUME NEW r \in Request, NEW f \in FileId, PostComplete(r, f)
      PROVE  /\ chunks'[c].status = "pending"
             /\ Committed(chunks[c].file_id, chunks[c].passage)'
  <2>1. PICK ps \in Passages : Flushed(f, ps) /\ BeginComplete(f, ps)
    BY <1>3 DEF PostComplete
  <2>2. UNCHANGED bytes_received
    BY <1>3 DEF PostComplete
  <2>3. PICK i \in 1..Len(ps) : /\ chunks'[c].file_id = f
                                /\ chunks'[c].status = "pending"
                                /\ chunks'[c].passage = ps[i]
    BY <2>1, NewRows DEF BeginComplete
  <2>4. i \in DOMAIN ps
    BY <2>1, <2>3, PassagesAreSequences
  <2>5. ps[i][2] <= bytes_received[f]
    BY <2>1, <2>4 DEF Flushed, CutsOf
  <2> QED BY <1>1, <2>2, <2>3, <2>5 DEF Committed
<1>4. ASSUME DOMAIN chunks' \subseteq DOMAIN chunks PROVE FALSE
  BY <1>4
<1>5. ASSUME NEW r \in Request, Serve(r), \A f \in FileId : ~PostComplete(r, f)
      PROVE  DOMAIN chunks' \subseteq DOMAIN chunks
  BY <1>5 DEF Serve, Delete, DeleteUpload, DeleteChunks, LookForFinal, Rename,
       MarkComplete, FinishComplete, Unlink, Drop, queue, vars
<1>6. ASSUME NEW w \in Worker, Index(w) PROVE DOMAIN chunks' \subseteq DOMAIN chunks
  BY <1>6 DEF Index, Claim, StartRead, LookAtFinal, LookAtPartial, Open, SettleEmpty,
       EnsureCollection, CreateCollection, Upsert, Complete, Fail, Abandon, queue, vars,
       ClaimBatch, CompleteEmpty, CompleteKept, CompleteBatch, FailBatch, AbandonBatch,
       tables, MarkProcessing, MarkIndexed, MarkFailed, MarkPendingRetry, SetStatus,
       SetStatusAfterAttempt
<1>7. ASSUME NEW f \in FileId, NEW n \in 0..MAX_CHUNK_BYTES, PutChunkFails(f, n)
      PROVE  UNCHANGED chunks
  BY <1>7 DEF PutChunkFails, queue, vars
<1>8. CASE (\E f \in FileId : PostFile(f)) \/ Die \/ UNCHANGED upload_vars
  <2>1. UNCHANGED chunks
    BY <1>8 DEF PostFile, CreateUpload, Die, Crash, tables, upload_vars, vars
  <2> QED BY <1>4, <2>1
<1>9. CASE Restart
  BY <1>4, <1>9 DEF Restart, RecoverStuckJobs, ResetStuckProcessing, SetStatus
<1> QED BY <1>2, <1>3, <1>4, <1>5, <1>6, <1>7, <1>8, <1>9 DEF UploadNext

\* The tail that is kept begins at an acknowledged byte.
LEMMA TailStep ==
  ASSUME OffsetsAndRequests, PassagesInv, [UploadNext]_upload_vars, NEW f \in FileId
  PROVE  tail_start'[f] <= bytes_received'[f]
<1>0. bytes_received[f] \in Nat /\ tail_start[f] \in Nat
      /\ tail_start[f] <= bytes_received[f]
  BY SizeAssumption DEF OffsetsAndRequests, PassagesInv
<1>1. CASE UNCHANGED columns
  BY <1>0, <1>1 DEF columns
<1>2. ASSUME NEW g \in FileId, NEW n \in 0..MAX_CHUNK_BYTES, PutChunk(g, n)
      PROVE  tail_start'[f] <= bytes_received'[f]
  <2>1. PICK keep \in 0..MAX_FILE_BYTES, ps \in Passages :
          Fed(g, n, ps, keep) /\ tail_start' = [tail_start EXCEPT ![g] = keep]
    BY <1>2 DEF PutChunk
  <2>2. n \in Nat /\ bytes_received' = [bytes_received EXCEPT ![g] = bytes_received[g] + n]
    BY <1>2, SizeAssumption DEF PutChunk
  <2>3. CASE f # g
    BY <1>0, <2>1, <2>2, <2>3 DEF OffsetsAndRequests
  <2>4. CASE f = g
    <3>1. tail_start'[f] = keep /\ bytes_received'[f] = bytes_received[f] + n
      BY <2>1, <2>2, <2>4 DEF OffsetsAndRequests
    <3>2. CASE ps = <<>>
      BY <1>0, <2>1, <2>2, <2>4, <3>1, <3>2 DEF Fed
    <3>3. CASE ps # <<>>
      <4>1. Len(ps) \in DOMAIN ps /\ ps[Len(ps)] \in ByteRanges
        BY <2>1, <3>3, PassagesAreSequences, PassageAssumption
      <4>2. PICK last \in ByteRanges : last = ps[Len(ps)]
        BY <4>1
      <4>3. last[2] <= bytes_received[f] + n /\ keep \in (last[1] + 1)..last[2]
        BY <2>1, <2>4, <3>3, <4>1, <4>2 DEF Fed, CutsOf
      <4>4. last[1] \in Nat /\ last[2] \in Nat
        BY <4>2, SizeAssumption DEF ByteRanges
      <4> QED BY <1>0, <2>2, <3>1, <4>3, <4>4
    <3> QED BY <3>2, <3>3
  <2> QED BY <2>3, <2>4
<1>3. ASSUME NEW r \in Request, Serve(r) PROVE tail_start'[f] <= bytes_received'[f]
  <2>1. ASSUME NEW g \in FileId, PostComplete(r, g)
        PROVE  tail_start'[f] <= bytes_received'[f]
    BY <1>0, <2>1 DEF PostComplete, OffsetsAndRequests
  <2> QED BY <1>1, <1>3, <2>1 DEF Serve, Delete, LookForFinal, Rename, MarkComplete, Unlink,
           Drop
<1>5. ASSUME NEW w \in Worker, Index(w) PROVE UNCHANGED columns
  BY <1>5 DEF Index, Claim, StartRead, LookAtFinal, LookAtPartial, Open, SettleEmpty,
       EnsureCollection, CreateCollection, Upsert, Complete, Fail, Abandon, columns
<1>6. ASSUME NEW g \in FileId, NEW n \in 0..MAX_CHUNK_BYTES, PutChunkFails(g, n)
      PROVE  UNCHANGED columns
  BY <1>6 DEF PutChunkFails
<1>7. CASE (\E g \in FileId : PostFile(g)) \/ Die \/ Restart \/ UNCHANGED upload_vars
  BY <1>1, <1>7 DEF PostFile, Die, Restart, columns, upload_vars
<1> QED BY <1>1, <1>2, <1>3, <1>5, <1>6, <1>7 DEF UploadNext

\* Every step keeps the invariant of passages.
LEMMA PassagesStep ==
  ASSUME IInv, IInv', OffsetsAndRequests, PassagesInv, [UploadNext]_upload_vars
  PROVE  PassagesInv'
<1>0. [Next]_vars
  BY StepRefines
<1>1. \A c \in DOMAIN chunks : chunks[c].file_id \in FileId
  BY DEF IInv, TypeOK, ChunkRow
<1>2. ASSUME NEW c \in DOMAIN chunks'
      PROVE  Committed(chunks[c].file_id, chunks[c].passage)'
  <2>1. CASE c \in DOMAIN chunks
    <3>1. PICK p : p = chunks[c].passage
      OBVIOUS
    <3>2. PICK f \in FileId : f = chunks[c].file_id
      BY <1>1, <2>1
    <3>3. chunks'[c].file_id = f /\ chunks'[c].passage = p
      BY <1>0, <1>2, <2>1, <3>1, <3>2, RowsAfterAStep DEF SameRow
    <3>4. Committed(f, p)
      BY <2>1, <3>1, <3>2 DEF PassagesInv
    <3>5. Committed(f, p)'
      BY <3>4, CommittedStays
    <3> QED BY <3>3, <3>5 DEF Committed
  <2> QED BY <1>2, <2>1, AddedPassages
<1>3. ASSUME NEW w \in Worker, NEW j \in jobs'[w]
      PROVE  Committed(j.file_id, j.passage)'
  <2>1. j \in jobs[w] \/ \E c \in DOMAIN chunks : j = ChunkJob(c)
    BY <1>0, <1>3, JobsAfterAStep DEF SelectPendingForFile, Rows
  <2>2. Committed(j.file_id, j.passage)
    BY <2>1 DEF PassagesInv, ChunkJob
  <2>3. j.file_id \in FileId
    BY <1>1, <2>1 DEF IInv, TypeOK, Job, ChunkJob
  <2> QED BY <2>2, <2>3, CommittedStays
<1> QED BY <1>2, <1>3, TailStep DEF PassagesInv

\* Every passage cut, stored or in the hands of a worker is of acknowledged
\* bytes.
THEOREM PassagesAreCommitted == UploadSpec => []PassagesInv
<1>1. UploadInit => PassagesInv
  <2> SUFFICES ASSUME UploadInit PROVE PassagesInv
    OBVIOUS
  <2>1. DOMAIN chunks = {} /\ \A w \in Worker : jobs[w] = {}
    BY DEF UploadInit, Init, EmptyTable
  <2>2. \A f \in FileId : tail_start[f] = 0 /\ bytes_received[f] = 0
    BY DEF UploadInit
  <2> QED BY <2>1, <2>2 DEF PassagesInv
<1>2. UploadSpec => []IInv
  BY PipelineImplementsQueue, InvariantHolds, PTL
<1>3. IInv /\ IInv' /\ OffsetsAndRequests /\ PassagesInv /\ [UploadNext]_upload_vars
        => PassagesInv'
  BY PassagesStep
<1> QED BY <1>1, <1>2, <1>3, OffsetsInvariant, PTL DEF UploadSpec

----------------------------------------------------------------------------
(* What a worker has in hand *)

\* The steps in which a worker reads its batch, and those in which it stores it.
Reading == {"read", "look", "look_partial", "open_final", "open_partial"}
Storing == {"ensure", "create", "upsert", "complete"}

\* There is a point of the passage, unless its file was deleted.
Stored(j) ==
  j.file_id \in DOMAIN files =>
    /\ j.file_id \in DOMAIN collections
    /\ j.sequence \in DOMAIN collections[j.file_id]

\* A worker with a batch completes no part of it while it reads, stores no
\* passage that it did not read, and at the end has stored the others.
InHand(w) ==
  IF jobs[w] = {} THEN ingest[w] = NoBatch
  ELSE /\ ingest[w] = [step |-> ingest[w].step, again |-> ingest[w].again,
                       texts |-> ingest[w].texts]
       /\ ingest[w].step \in Reading \cup Storing \cup {"raised"}
       /\ ingest[w].step \in Reading => emptied[w] = {}
       /\ ingest[w].step \in Storing =>
            \A j \in jobs[w] \ emptied[w] :
              j \in DOMAIN ingest[w].texts /\ ingest[w].texts[j] # <<>>
       /\ ingest[w].step = "complete" => \A j \in jobs[w] \ emptied[w] : Stored(j)

\* The invariant of the workers and their batches.
HandsInv ==
  /\ ingest = [w \in Worker |-> ingest[w]]
  /\ DOMAIN collections \subseteq used_ids
  /\ \A w \in Worker : InHand(w)

\* A worker that a step leaves alone.
SameHand(w) ==
  ingest'[w] = ingest[w] /\ jobs'[w] = jobs[w] /\ emptied'[w] = emptied[w]

\* A nonempty set of keys has a smallest one.
LEMMA SmallestKey ==
  ASSUME NEW S \in SUBSET Nat, S # {}
  PROVE  \E m \in S : \A x \in S : m <= x
<1> DEFINE R == OpToRel(<, Nat)
<1>1. PICK m \in S : \A x \in S : ~(<<x, m>> \in R)
  <2>1. IsWellFoundedOn(R, Nat)
    BY NatLessThanWellFounded
  <2> HIDE DEF R
  <2> QED BY <2>1, WFMin
<1>2. ASSUME NEW x \in S PROVE m <= x
  <2>1. ~(x < m)
    BY <1>1 DEF OpToRel
  <2> QED BY <2>1
<1> QED BY <1>2

\* A claim takes at least one row.
LEMMA ClaimTakesRows ==
  ASSUME IInv, NEW w \in Worker, ClaimBatch(w)
  PROVE  jobs'[w] # {}
<1> DEFINE pending == WithStatus(chunks, "pending")
           f == OldestPendingFile(chunks)
           ofFile == Rows(chunks, f) \cap pending
           ids == SelectPendingForFile(chunks, f, CLAIM_BATCH_SIZE)
           before(c) == {d \in ofFile : chunks[d].sequence < chunks[c].sequence}
<1>1. /\ DOMAIN chunks \subseteq Nat
      /\ \A c \in DOMAIN chunks : chunks[c] \in ChunkRow
  BY DEF IInv, TypeOK
<1>2. ofFile # {}
  <2>1. pending # {} /\ pending \in SUBSET Nat
    BY <1>1 DEF ClaimBatch, WithStatus
  <2>2. \E c \in pending : \A d \in pending : c <= d
    BY <2>1, SmallestKey
  <2>3. PICK c \in pending : f = chunks[c].file_id
    BY <2>2 DEF OldestPendingFile
  <2> QED BY <2>3 DEF Rows, WithStatus
<1>3. PICK c \in ofFile : \A d \in ofFile : chunks[c].sequence <= chunks[d].sequence
  <2> DEFINE S == {chunks[d].sequence : d \in ofFile}
  <2>1. S # {} /\ S \in SUBSET Nat
    BY <1>1, <1>2 DEF WithStatus, ChunkRow
  <2>2. PICK m \in S : \A x \in S : m <= x
    <3> HIDE DEF S
    <3> QED BY <2>1, SmallestKey
  <2> QED BY <2>2
<1>4. before(c) = {}
  <2>1. \A d \in ofFile : chunks[d].sequence \in Nat
    BY <1>1 DEF WithStatus, ChunkRow
  <2> QED BY <1>3, <2>1
<1>5. Cardinality(before(c)) < CLAIM_BATCH_SIZE
  <2>1. Cardinality({}) = 0
    BY FS_EmptySet
  <2> QED BY <1>4, <2>1, ClaimAssumption
<1>6. c \in ids
  BY <1>5 DEF SelectPendingForFile
<1>7. jobs'[w] = {ChunkJob(d) : d \in ids}
  BY DEF ClaimBatch, IInv, TypeOK
<1> HIDE DEF ids
<1> QED BY <1>6, <1>7

\* A point is only lost with its file.
LEMMA CollectionsStay ==
  ASSUME IInv, FilesInv, HandsInv, [UploadNext]_upload_vars
  PROVE  \A f \in DOMAIN collections \cap DOMAIN files' :
           f \in DOMAIN collections' /\ DOMAIN collections[f] \subseteq DOMAIN collections'[f]
<1>1. CASE UNCHANGED collections
  BY <1>1
<1>2. ASSUME NEW r \in Request, Drop(r), NEW f \in DOMAIN collections \cap DOMAIN files'
      PROVE  f \in DOMAIN collections' /\ DOMAIN collections[f] \subseteq DOMAIN collections'[f]
  <2>1. UNCHANGED files /\ f # request[r].file
    BY <1>2 DEF Drop, FilesInv, RequestInv, Gone, queue, vars
  <2> QED BY <1>2, <2>1 DEF Drop, Without
<1>3. ASSUME NEW r \in Request, Serve(r), ~Drop(r) PROVE UNCHANGED collections
  BY <1>3 DEF Serve, PostComplete, Delete, LookForFinal, Rename, MarkComplete, Unlink
<1>4. ASSUME NEW w \in Worker, CreateCollection(w) \/ Upsert(w)
      PROVE  \A f \in DOMAIN collections :
               f \in DOMAIN collections' /\ DOMAIN collections[f] \subseteq DOMAIN collections'[f]
  <2>1. CASE CreateCollection(w)
    BY <2>1 DEF CreateCollection, Put
  <2>2. CASE Upsert(w)
    BY <2>2 DEF Upsert, Put, Upserted
  <2> QED BY <1>4, <2>1, <2>2
<1>5. ASSUME NEW w \in Worker, Index(w), ~CreateCollection(w), ~Upsert(w)
      PROVE  UNCHANGED collections
  BY <1>5 DEF Index, Claim, StartRead, LookAtFinal, LookAtPartial, Open, SettleEmpty,
       EnsureCollection, Complete, Fail, Abandon
<1>6. ASSUME NEW f \in FileId, NEW n \in 0..MAX_CHUNK_BYTES,
             PutChunk(f, n) \/ PutChunkFails(f, n)
      PROVE  UNCHANGED collections
  BY <1>6 DEF PutChunk, PutChunkFails
<1>7. CASE (\E f \in FileId : PostFile(f)) \/ Die \/ Restart \/ UNCHANGED upload_vars
  BY <1>1, <1>7 DEF PostFile, Die, Restart, upload_vars
<1> QED BY <1>1, <1>2, <1>3, <1>4, <1>5, <1>6, <1>7 DEF UploadNext

\* So what is stored stays stored.
LEMMA StoredStays ==
  ASSUME IInv, OffsetsAndRequests, FilesInv, HandsInv, [UploadNext]_upload_vars,
         NEW j, j.file_id \in used_ids, Stored(j)
  PROVE  Stored(j)'
<1>1. j.file_id \in DOMAIN files' => j.file_id \in DOMAIN files
  BY StepRefines, FilesAfterAStep DEF Gone
<1> QED BY <1>1, CollectionsStay DEF Stored

\* A worker that did not move keeps what it has in hand.
LEMMA WaitingHand ==
  ASSUME IInv, BatchesOfOneFile, OffsetsAndRequests, FilesInv, HandsInv,
         [UploadNext]_upload_vars, NEW w \in Worker, SameHand(w)
  PROVE  InHand(w)'
<1>1. InHand(w)
  BY DEF HandsInv
<1>2. CASE jobs[w] = {}
  BY <1>1, <1>2 DEF SameHand, InHand
<1>3. CASE jobs[w] # {}
  <2>1. ingest[w].step = "complete" => \A j \in jobs[w] \ emptied[w] : Stored(j)'
    <3> SUFFICES ASSUME ingest[w].step = "complete", NEW j \in jobs[w] \ emptied[w]
                 PROVE  Stored(j)'
      OBVIOUS
    <3>1. Stored(j) /\ j.file_id \in used_ids
      BY <1>1, <1>3 DEF InHand, BatchesOfOneFile
    <3> QED BY <3>1, StoredStays
  <2> QED BY <1>1, <1>3, <2>1 DEF SameHand, InHand, Stored
<1> QED BY <1>2, <1>3

\* What a step of a worker writes to its own batch.
Holds(w, s, a, t) ==
  /\ ingest' = [v \in Worker |-> ingest'[v]]
  /\ ingest'[w] = [step |-> s, again |-> a, texts |-> t]
  /\ \A v \in Worker \ {w} : ingest'[v] = ingest[v]

\* A worker in the middle of a batch has one.
LEMMA BatchInHand ==
  ASSUME HandsInv, NEW w \in Worker, ingest[w].step # "idle"
  PROVE  jobs[w] # {}
BY DEF HandsInv, InHand, NoBatch

\* A worker that goes to its next step keeps the texts it read.
LEMMA MovedHand ==
  ASSUME HandsInv, NEW w \in Worker, NEW s, jobs[w] # {}, Move(w, s)
  PROVE  Holds(w, s, ingest[w].again, ingest[w].texts)
<1>1. PICK a, t, s0 : a = ingest[w].again /\ t = ingest[w].texts
                      /\ ingest[w] = [step |-> s0, again |-> a, texts |-> t]
  BY DEF HandsInv, InHand
<1>2. ingest = [v \in Worker |-> ingest[v]]
  BY DEF HandsInv
<1>3. [ingest[w] EXCEPT !.step = s] = [step |-> s, again |-> a, texts |-> t]
  BY <1>1
<1>4. ingest' = [ingest EXCEPT ![w] = [ingest[w] EXCEPT !.step = s]]
  BY <1>2 DEF Move
<1> DEFINE moved == [step |-> s, again |-> a, texts |-> t]
<1>5. ingest' = [ingest EXCEPT ![w] = moved]
  BY <1>3, <1>4
<1> HIDE DEF moved
<1>6. /\ ingest' = [v \in Worker |-> ingest'[v]] /\ ingest'[w] = moved
      /\ \A v \in Worker \ {w} : ingest'[v] = ingest[v]
  BY <1>2, <1>5
<1> QED BY <1>1, <1>6 DEF Holds, moved

\* A text is added to those that were read.
LEMMA ReadHand ==
  ASSUME HandsInv, NEW w \in Worker, NEW text, jobs[w] # {}, GotText(w, text)
  PROVE  Holds(w, "read", FALSE, Put(ingest[w].texts, NextToRead(w), text))
<1>1. PICK h, s, a, t : /\ h = ingest[w] /\ t = ingest[w].texts
                        /\ h \in [step : {s}, again : {a}, texts : {t}]
  BY DEF HandsInv, InHand
<1>2. ingest = [v \in Worker |-> ingest[v]]
  BY DEF HandsInv
<1>3. PICK read : read = Put(t, NextToRead(w), text)
  OBVIOUS
<1>4. PICK moved : moved = [h EXCEPT !.step = "read", !.again = FALSE, !.texts = read]
  OBVIOUS
<1>5. moved = [step |-> "read", again |-> FALSE, texts |-> read]
  <2>1. moved \in [step : {"read"}, again : {FALSE}, texts : {read}]
    BY <1>1, <1>4
  <2> QED BY <2>1
<1>6. ingest' = [ingest EXCEPT ![w] = moved]
  <2>1. ingest' = [ingest EXCEPT ![w] =
                     [ingest[w] EXCEPT !.step = "read", !.again = FALSE,
                        !.texts = Put(ingest[w].texts, NextToRead(w), text)]]
    BY Zenon DEF GotText
  <2>2. ingest' = [ingest EXCEPT ![w] =
                     [ingest[w] EXCEPT !.step = "read", !.again = FALSE, !.texts = read]]
    BY <1>1, <1>3, <2>1
  <2> QED BY <1>1, <1>4, <2>2
<1>7. /\ ingest' = [v \in Worker |-> ingest'[v]] /\ ingest'[w] = moved
      /\ \A v \in Worker \ {w} : ingest'[v] = ingest[v]
  BY <1>2, <1>6
<1> QED BY <1>1, <1>3, <1>5, <1>7 DEF Holds

\* A file that was gone when it was opened is looked for again.
LEMMA LookAgainHand ==
  ASSUME HandsInv, NEW w \in Worker, jobs[w] # {},
         ingest' = [ingest EXCEPT ![w] = [@ EXCEPT !.step = "look", !.again = TRUE]]
  PROVE  Holds(w, "look", TRUE, ingest[w].texts)
<1>1. PICK h, s, a, t : /\ h = ingest[w] /\ t = ingest[w].texts
                        /\ h \in [step : {s}, again : {a}, texts : {t}]
  BY DEF HandsInv, InHand
<1>2. ingest = [v \in Worker |-> ingest[v]]
  BY DEF HandsInv
<1>3. PICK moved : moved = [h EXCEPT !.step = "look", !.again = TRUE]
  OBVIOUS
<1>4. moved = [step |-> "look", again |-> TRUE, texts |-> t]
  <2>1. moved \in [step : {"look"}, again : {TRUE}, texts : {t}]
    BY <1>1, <1>3
  <2> QED BY <2>1
<1>5. ingest' = [ingest EXCEPT ![w] = moved]
  BY <1>1, <1>2, <1>3
<1>6. /\ ingest' = [v \in Worker |-> ingest'[v]] /\ ingest'[w] = moved
      /\ \A v \in Worker \ {w} : ingest'[v] = ingest[v]
  BY <1>2, <1>5
<1> QED BY <1>1, <1>4, <1>6 DEF Holds

\* A worker that is done with its batch has nothing in hand.
LEMMA EndedHand ==
  ASSUME HandsInv, NEW w \in Worker, EndBatch(w)
  PROVE  /\ ingest' = [v \in Worker |-> ingest'[v]]
         /\ ingest'[w] = NoBatch
         /\ \A v \in Worker \ {w} : ingest'[v] = ingest[v]
<1>1. ingest = [v \in Worker |-> ingest[v]]
  BY DEF HandsInv
<1>2. ingest' = [ingest EXCEPT ![w] = NoBatch]
  BY DEF EndBatch
<1> QED BY <1>1, <1>2

\* All of a batch is of one file.
LEMMA FileOfBatch ==
  ASSUME BatchesOfOneFile, NEW w \in Worker, jobs[w] # {}
  PROVE  /\ FileOf(jobs[w]) \in used_ids
         /\ \A j \in jobs[w] : j.file_id = FileOf(jobs[w])
BY DEF FileOf, BatchesOfOneFile

\* What a claim takes in hand: nothing of it was read.
LEMMA ClaimHand ==
  ASSUME IInv, HandsInv, NEW w \in Worker, Claim(w)
  PROVE  InHand(w)'
<1>1. jobs'[w] # {}
  BY ClaimTakesRows DEF Claim
<1>2. emptied'[w] = {}
  BY DEF Claim, ClaimBatch, IInv, BatchesAreWhole
<1> DEFINE start == [step |-> "read", again |-> FALSE, texts |-> EmptyTable]
<1>3. ingest'[w] = start
  BY DEF Claim, HandsInv
<1>4. /\ start.step = "read" /\ start.again = FALSE /\ start.texts = EmptyTable
  OBVIOUS
<1>5. ingest'[w] = [step |-> ingest'[w].step, again |-> ingest'[w].again,
                    texts |-> ingest'[w].texts]
  BY <1>3, <1>4
<1>6. ingest'[w].step = "read"
  BY <1>3
<1> QED BY <1>1, <1>2, <1>5, <1>6 DEF InHand, Reading, Storing

\* A step that reads on, or raises.
LEMMA ReadingHand ==
  ASSUME HandsInv, NEW w \in Worker, ingest[w].step \in Reading,
         UNCHANGED <<jobs, emptied>>,
         NEW s \in Reading \cup {"raised"}, NEW a, NEW t, Holds(w, s, a, t)
  PROVE  InHand(w)'
<1>1. jobs[w] # {}
  BY BatchInHand DEF Reading
<1>2. emptied[w] = {}
  BY <1>1 DEF HandsInv, InHand
<1>3. ingest'[w].step = s /\ ingest'[w].again = a /\ ingest'[w].texts = t
  BY DEF Holds
<1> QED BY <1>1, <1>2, <1>3 DEF Holds, InHand, Reading, Storing

\* A step that goes on to store what was read, or raises.
LEMMA StoringHand ==
  ASSUME HandsInv, NEW w \in Worker, jobs'[w] # {},
         NEW s \in Storing \cup {"raised"}, NEW a, NEW t, Holds(w, s, a, t),
         s \in Storing => \A j \in jobs'[w] \ emptied'[w] : j \in DOMAIN t /\ t[j] # <<>>,
         s = "complete" => \A j \in jobs'[w] \ emptied'[w] : Stored(j)'
  PROVE  InHand(w)'
<1>1. ingest'[w].step = s /\ ingest'[w].again = a /\ ingest'[w].texts = t
  BY DEF Holds
<1> QED BY <1>1 DEF Holds, InHand, Reading, Storing, Stored

\* A step of the reading loop.
LEMMA ReadStep ==
  ASSUME HandsInv, NEW w \in Worker,
         StartRead(w) \/ LookAtFinal(w) \/ LookAtPartial(w) \/ Open(w)
  PROVE  /\ InHand(w)' /\ UNCHANGED <<jobs, emptied, collections, used_ids>>
         /\ \E s, a, t : Holds(w, s, a, t)
<1>1. ingest[w].step \in Reading
  BY DEF StartRead, LookAtFinal, LookAtPartial, Open, Reading
<1>2. jobs[w] # {}
  BY <1>1, BatchInHand DEF Reading
<1>3. UNCHANGED <<jobs, emptied, collections, used_ids>>
  BY DEF StartRead, LookAtFinal, LookAtPartial, Open, queue, vars
<1>4. \E s \in Reading \cup {"raised"} : \E a, t : Holds(w, s, a, t)
  <2>1. \/ \E s \in Reading \cup {"raised"} : Move(w, s)
        \/ \E text : GotText(w, text)
        \/ ingest' = [ingest EXCEPT ![w] = [@ EXCEPT !.step = "look", !.again = TRUE]]
    <3>1. CASE StartRead(w)
      BY <3>1 DEF StartRead, Reading
    <3>2. CASE LookAtFinal(w)
      BY <3>2 DEF LookAtFinal, AfterFinalLook, Reading
    <3>3. CASE LookAtPartial(w)
      BY <3>3 DEF LookAtPartial, Reading
    <3>4. CASE Open(w)
      BY <3>4 DEF Open
    <3> QED BY <3>1, <3>2, <3>3, <3>4
  <2>2. ASSUME NEW s \in Reading \cup {"raised"}, Move(w, s)
        PROVE  Holds(w, s, ingest[w].again, ingest[w].texts)
    BY <1>2, <2>2, MovedHand
  <2>3. ASSUME NEW text, GotText(w, text)
        PROVE  Holds(w, "read", FALSE, Put(ingest[w].texts, NextToRead(w), text))
    BY <1>2, <2>3, ReadHand
  <2>4. CASE ingest' = [ingest EXCEPT ![w] = [@ EXCEPT !.step = "look", !.again = TRUE]]
    <3>1. Holds(w, "look", TRUE, ingest[w].texts)
      BY <1>2, <2>4, LookAgainHand
    <3> QED BY <3>1 DEF Reading
  <2>5. "read" \in Reading
    BY DEF Reading
  <2> QED BY <2>1, <2>2, <2>3, <2>4, <2>5
<1> QED BY <1>1, <1>3, <1>4, ReadingHand

\* A worker that completes its batch, fails it or gives it up.
LEMMA DoneStep ==
  ASSUME IInv, HandsInv, NEW w \in Worker, Complete(w) \/ Fail(w) \/ Abandon(w)
  PROVE  InHand(w)' /\ EndBatch(w)
<1>1. jobs' = [jobs EXCEPT ![w] = {}] /\ EndBatch(w)
  BY DEF Complete, Fail, Abandon, CompleteKept, FailBatch, AbandonBatch
<1>2. jobs'[w] = {} /\ ingest'[w] = NoBatch
  BY <1>1, EndedHand DEF IInv, TypeOK
<1> QED BY <1>1, <1>2 DEF InHand

\* The empty reads are completed: what is left was read.
LEMMA SettleHand ==
  ASSUME IInv, HandsInv, NEW w \in Worker, SettleEmpty(w)
  PROVE  InHand(w)' /\ (EndBatch(w) \/ \E s, a, t : Holds(w, s, a, t))
<1>1. jobs \in [Worker -> SUBSET Job] /\ emptied \in [Worker -> SUBSET Job]
  BY DEF IInv, TypeOK
<1>2. jobs[w] # {}
  BY BatchInHand DEF SettleEmpty
<1>3. CASE EmptyReads(w) = jobs[w]
  <2>1. EndBatch(w) /\ jobs'[w] = {}
    BY <1>1, <1>3 DEF SettleEmpty, CompleteEmpty
  <2>2. ingest'[w] = NoBatch
    BY <2>1, EndedHand
  <2> QED BY <2>1, <2>2 DEF InHand
<1>4. CASE EmptyReads(w) # jobs[w]
  <2>1. Move(w, "ensure") /\ jobs'[w] = jobs[w] /\ emptied'[w] = EmptyReads(w)
    BY <1>1, <1>4 DEF SettleEmpty, CompleteEmpty
  <2>2. Holds(w, "ensure", ingest[w].again, ingest[w].texts)
    BY <1>2, <2>1, MovedHand
  <2>3. \A j \in jobs[w] \ EmptyReads(w) :
          j \in DOMAIN ingest[w].texts /\ ingest[w].texts[j] # <<>>
    BY DEF SettleEmpty, Unread, EmptyReads
  <2>4. InHand(w)'
    BY <1>2, <2>1, <2>2, <2>3, StoringHand DEF Storing
  <2> QED BY <2>2, <2>4
<1> QED BY <1>3, <1>4

\* A collection is looked for, or created, or written to.
LEMMA StoreHand ==
  ASSUME IInv, BatchesOfOneFile, OffsetsAndRequests, FilesInv, HandsInv, NEW w \in Worker,
         EnsureCollection(w) \/ CreateCollection(w) \/ Upsert(w)
  PROVE  /\ InHand(w)' /\ UNCHANGED <<jobs, emptied, used_ids>>
         /\ \E s, a, t : Holds(w, s, a, t)
         /\ DOMAIN collections' \subseteq used_ids
<1>1. jobs[w] # {}
  BY BatchInHand DEF EnsureCollection, CreateCollection, Upsert
<1>2. UNCHANGED <<jobs, emptied, used_ids, files>>
  BY DEF EnsureCollection, CreateCollection, Upsert, queue, vars
<1>3. PICK f \in used_ids : f = FileOf(jobs[w]) /\ \A j \in jobs[w] : j.file_id = f
  BY <1>1, FileOfBatch
<1>4. DOMAIN collections' \subseteq used_ids
  BY <1>3 DEF EnsureCollection, CreateCollection, Upsert, Put, HandsInv
<1>5. PICK s \in {"create", "upsert", "complete", "raised"} : Move(w, s)
  BY DEF EnsureCollection, CreateCollection, Upsert
<1>6. Holds(w, s, ingest[w].again, ingest[w].texts)
  BY <1>1, <1>5, MovedHand
<1>7. \A j \in jobs[w] \ emptied[w] :
        j \in DOMAIN ingest[w].texts /\ ingest[w].texts[j] # <<>>
  <2>1. CASE ingest[w].step \in Storing
    BY <1>1, <2>1 DEF HandsInv, InHand
  <2>2. CASE ingest[w].step = "read" /\ Unread(w) = {} /\ EmptyReads(w) = {}
    BY <2>2 DEF Unread, EmptyReads
  <2> QED BY <2>1, <2>2 DEF EnsureCollection, CreateCollection, Upsert, Storing
<1>8. s = "complete" => \A j \in jobs[w] \ emptied[w] : Stored(j)'
  <2> SUFFICES ASSUME s = "complete", NEW j \in jobs[w] \ emptied[w] PROVE Stored(j)'
    OBVIOUS
  <2>0. ASSUME NEW q, Move(w, q) PROVE ingest'[w].step = q
    <3>1. Holds(w, q, ingest[w].again, ingest[w].texts)
      BY <1>1, <2>0, MovedHand
    <3> QED BY <3>1 DEF Holds
  <2>1. ingest'[w].step = "complete"
    BY <1>6 DEF Holds
  <2>2. ~EnsureCollection(w) /\ ~CreateCollection(w)
    <3>1. ASSUME NEW q \in {"create", "upsert", "raised"}, Move(w, q) PROVE FALSE
      BY <2>0, <2>1, <3>1
    <3> QED BY <3>1 DEF EnsureCollection, CreateCollection
  <2>3. Upsert(w) /\ f \in DOMAIN collections
    <3>1. ~Move(w, "raised")
      BY <2>0, <2>1
    <3> QED BY <1>3, <2>2, <3>1 DEF Upsert
  <2>4. collections' = Put(collections, f, Upserted(w, collections[f]))
    BY <1>3, <2>3 DEF Upsert
  <2>5. f \in DOMAIN collections' /\ collections'[f] = Upserted(w, collections[f])
    BY <2>4 DEF Put
  <2>6. j.sequence \in DOMAIN Upserted(w, collections[f])
    BY DEF Upserted, KeptSequences
  <2>7. j.file_id = f
    BY <1>3
  <2> QED BY <2>5, <2>6, <2>7 DEF Stored
<1>9. InHand(w)'
  <2>1. s \in Storing \cup {"raised"}
    BY DEF Storing
  <2> QED BY <1>1, <1>2, <1>6, <1>7, <1>8, <2>1, StoringHand
<1> QED BY <1>2, <1>4, <1>6, <1>9

\* A worker writes only to its own batch.
LEMMA OthersWait ==
  ASSUME IInv, HandsInv, NEW w \in Worker, Index(w),
         EndBatch(w) \/ Claim(w) \/ \E s, a, t : Holds(w, s, a, t)
  PROVE  /\ ingest' = [v \in Worker |-> ingest'[v]]
         /\ \A v \in Worker \ {w} : SameHand(v)
<1>1. jobs \in [Worker -> SUBSET Job] /\ emptied \in [Worker -> SUBSET Job]
  BY DEF IInv, TypeOK
<1>2. \A v \in Worker \ {w} : jobs'[v] = jobs[v] /\ emptied'[v] = emptied[v]
  BY <1>1 DEF Index, Claim, StartRead, LookAtFinal, LookAtPartial, Open, SettleEmpty,
     EnsureCollection, CreateCollection, Upsert, Complete, Fail, Abandon, ClaimBatch,
     CompleteEmpty, CompleteKept, FailBatch, AbandonBatch, queue, vars
<1>3. /\ ingest' = [v \in Worker |-> ingest'[v]]
      /\ \A v \in Worker \ {w} : ingest'[v] = ingest[v]
  BY EndedHand DEF Claim, HandsInv, Holds
<1> QED BY <1>2, <1>3 DEF SameHand

\* What a step of a worker leaves in its own hands.
LEMMA IndexHand ==
  ASSUME IInv, BatchesOfOneFile, OffsetsAndRequests, FilesInv, HandsInv, NEW w \in Worker,
         Index(w)
  PROVE  /\ InHand(w)'
         /\ EndBatch(w) \/ Claim(w) \/ \E s, a, t : Holds(w, s, a, t)
         /\ DOMAIN collections' \subseteq used_ids /\ UNCHANGED used_ids
<1>1. CASE Claim(w)
  BY <1>1, ClaimHand DEF Claim, ClaimBatch, HandsInv
<1>2. CASE StartRead(w) \/ LookAtFinal(w) \/ LookAtPartial(w) \/ Open(w)
  BY <1>2, ReadStep DEF HandsInv
<1>3. CASE SettleEmpty(w)
  BY <1>3, SettleHand DEF SettleEmpty, CompleteEmpty, HandsInv
<1>4. CASE EnsureCollection(w) \/ CreateCollection(w) \/ Upsert(w)
  <2>1. UNCHANGED used_ids
    BY <1>4, StoreHand
  <2>2. InHand(w)' /\ (\E s, a, t : Holds(w, s, a, t)) /\ DOMAIN collections' \subseteq used_ids
    BY <1>4, StoreHand
  <2> QED BY <2>1, <2>2
<1>5. CASE Complete(w) \/ Fail(w) \/ Abandon(w)
  BY <1>5, DoneStep DEF Complete, Fail, Abandon, CompleteKept, FailBatch, AbandonBatch,
     HandsInv
<1> QED BY <1>1, <1>2, <1>3, <1>4, <1>5 DEF Index

\* A step that is of no worker leaves their batches alone, unless the process
\* dies.
LEMMA NoHandMoves ==
  ASSUME HandsInv, [UploadNext]_upload_vars, \A w \in Worker : ~Index(w), ~Die
  PROVE  /\ UNCHANGED <<ingest, jobs, emptied>>
         /\ DOMAIN collections' \subseteq DOMAIN collections
<1>1. ASSUME NEW r \in Request, Serve(r)
      PROVE  /\ UNCHANGED <<ingest, jobs, emptied>>
             /\ DOMAIN collections' \subseteq DOMAIN collections
  <2>1. UNCHANGED <<ingest, jobs, emptied>>
    BY <1>1 DEF Serve, PostComplete, BeginComplete, Delete, DeleteUpload, LookForFinal,
       Rename, MarkComplete, FinishComplete, Unlink, Drop, memory, queue, vars
  <2>2. DOMAIN collections' \subseteq DOMAIN collections
    BY <1>1 DEF Serve, PostComplete, Delete, LookForFinal, Rename, MarkComplete, Unlink,
       Drop, Without
  <2> QED BY <2>1, <2>2
<1>2. ASSUME NEW f \in FileId, NEW n \in 0..MAX_CHUNK_BYTES,
             PutChunk(f, n) \/ PutChunkFails(f, n)
      PROVE  UNCHANGED <<ingest, jobs, emptied, collections>>
  BY <1>2 DEF PutChunk, AppendChunk, PutChunkFails, memory, queue, vars
<1>3. CASE (\E f \in FileId : PostFile(f)) \/ Restart \/ UNCHANGED upload_vars
  BY <1>3 DEF PostFile, CreateUpload, Restart, RecoverStuckJobs, memory, upload_vars, vars
<1> QED BY <1>1, <1>2, <1>3 DEF UploadNext

\* Every step keeps what the workers have in hand.
LEMMA HandsStep ==
  ASSUME IInv, BatchesOfOneFile, OffsetsAndRequests, FilesInv, HandsInv,
         [UploadNext]_upload_vars
  PROVE  HandsInv'
<1>1. used_ids \subseteq used_ids'
  BY StepRefines, FilesAfterAStep
<1>2. ASSUME NEW w \in Worker, Index(w) PROVE HandsInv'
  <2>1. /\ InHand(w)'
        /\ EndBatch(w) \/ Claim(w) \/ \E s, a, t : Holds(w, s, a, t)
        /\ DOMAIN collections' \subseteq used_ids
    BY <1>2, IndexHand
  <2>2. /\ ingest' = [v \in Worker |-> ingest'[v]]
        /\ \A v \in Worker \ {w} : SameHand(v)
    BY <1>2, <2>1, OthersWait
  <2>3. \A v \in Worker \ {w} : InHand(v)'
    BY <2>2, WaitingHand
  <2> QED BY <1>1, <2>1, <2>2, <2>3 DEF HandsInv
<1>3. CASE Die
  <2>1. /\ ingest' = [w \in Worker |-> NoBatch] /\ jobs' = [w \in Worker |-> {}]
        /\ UNCHANGED collections
    BY <1>3 DEF Die, Crash
  <2> QED BY <1>1, <2>1 DEF HandsInv, InHand
<1>4. CASE (\A w \in Worker : ~Index(w)) /\ ~Die
  <2>1. UNCHANGED <<ingest, jobs, emptied>> /\ DOMAIN collections' \subseteq used_ids
    BY <1>4, NoHandMoves DEF HandsInv
  <2>2. \A w \in Worker : InHand(w)'
    BY <2>1, WaitingHand DEF SameHand
  <2> QED BY <1>1, <2>1, <2>2 DEF HandsInv
<1> QED BY <1>2, <1>3, <1>4

\* Nothing is in hand at the start.
LEMMA HandsInitially == UploadInit => HandsInv
BY DEF UploadInit, Init, EmptyTable, HandsInv, InHand

\* The counters' invariant, of the pipeline.
LEMMA BatchesInvariant == UploadSpec => [](IInv /\ BatchesOfOneFile)
<1>1. CountersInv => BatchesOfOneFile
  BY DEF CountersInv
<1> QED BY <1>1, PipelineImplementsQueue, InvariantHolds, CountersInvariantHolds, PTL

\* What the workers have in hand is right throughout.
LEMMA HandsInvariant == UploadSpec => []HandsInv
<1>1. IInv /\ BatchesOfOneFile /\ OffsetsAndRequests /\ FilesInv /\ HandsInv
        /\ [UploadNext]_upload_vars => HandsInv'
  BY HandsStep
<1> QED BY <1>1, HandsInitially, BatchesInvariant, OffsetsInvariant, FilesInvariant, PTL
        DEF UploadSpec

\* Who makes a row indexed, and of what.
MakesIndexed(w, c) ==
  \/ SettleEmpty(w) /\ c \in Ids(EmptyReads(w))
  \/ Complete(w) /\ c \in Ids(jobs[w] \ emptied[w])

\* Only a worker makes a row indexed.
LEMMA IndexedByAStep ==
  ASSUME IInv, OffsetsAndRequests, [UploadNext]_upload_vars,
         NEW c \in DOMAIN chunks, c \in DOMAIN chunks',
         chunks'[c].status = "indexed", chunks[c].status # "indexed"
  PROVE  \E w \in Worker : MakesIndexed(w, c)
<1>0. chunks \in [DOMAIN chunks -> ChunkRow]
  BY DEF IInv, TypeOK
<1>1. chunks'[c] # chunks[c]
  OBVIOUS
<1>2. ASSUME NEW ids, NEW s \in {"pending", "processing"}, chunks' = SetStatus(chunks, ids, s)
      PROVE  FALSE
  BY <1>0, <1>2, SetStatusColumns DEF ChunkStatus
<1>3. ASSUME NEW f \in FileId, NEW n \in 0..MAX_CHUNK_BYTES, PutChunk(f, n) PROVE FALSE
  <2>1. PICK ps \in Passages : AppendChunk(f, ps)
    BY <1>3 DEF PutChunk
  <2> QED BY <1>1, <2>1, NewRows DEF AppendChunk
<1>4. ASSUME NEW f \in FileId, NEW n \in 0..MAX_CHUNK_BYTES, PutChunkFails(f, n)
      PROVE  FALSE
  BY <1>1, <1>4 DEF PutChunkFails, queue, vars
<1>5. ASSUME NEW r \in Request, Serve(r) PROVE FALSE
  <2>1. ASSUME NEW f \in FileId, PostComplete(r, f) PROVE FALSE
    <3>1. PICK ps \in Passages : BeginComplete(f, ps)
      BY <2>1 DEF PostComplete
    <3> QED BY <1>1, <3>1, NewRows DEF BeginComplete
  <2>2. ASSUME NEW f \in FileId, Delete(r, f) PROVE FALSE
    BY <1>1, <2>2 DEF Delete, DeleteUpload, DeleteChunks
  <2>3. CASE LookForFinal(r) \/ Rename(r) \/ MarkComplete(r) \/ Unlink(r) \/ Drop(r)
    BY <1>1, <2>3 DEF LookForFinal, Rename, MarkComplete, FinishComplete, Unlink, Drop,
       queue, vars
  <2> QED BY <1>5, <2>1, <2>2, <2>3 DEF Serve
<1>6. ASSUME NEW w \in Worker, Index(w) PROVE MakesIndexed(w, c)
  <2>1. CASE Claim(w)
    <3>1. \E ids : chunks' = SetStatus(chunks, ids, "processing")
      BY <2>1 DEF Claim, ClaimBatch, MarkProcessing
    <3> QED BY <1>2, <3>1
  <2>2. ASSUME NEW batch \in SUBSET jobs[w], CompleteBatch(batch) PROVE c \in Ids(batch)
    BY <1>1, <2>2, CompleteBatchTables
  <2>3. CASE SettleEmpty(w)
    <3>1. EmptyReads(w) \in SUBSET jobs[w] /\ CompleteBatch(EmptyReads(w))
      BY <2>3 DEF SettleEmpty, CompleteEmpty, EmptyReads
    <3> QED BY <2>2, <2>3, <3>1 DEF MakesIndexed
  <2>4. CASE Complete(w)
    BY <2>2, <2>4 DEF Complete, CompleteKept, MakesIndexed
  <2>5. CASE Fail(w)
    BY <1>1, <2>5, FailBatchTables DEF Fail
  <2>6. CASE \/ StartRead(w) \/ LookAtFinal(w) \/ LookAtPartial(w) \/ Open(w)
             \/ EnsureCollection(w) \/ CreateCollection(w) \/ Upsert(w) \/ Abandon(w)
    BY <1>1, <2>6 DEF StartRead, LookAtFinal, LookAtPartial, Open, EnsureCollection,
       CreateCollection, Upsert, Abandon, AbandonBatch, tables, queue, vars
  <2> QED BY <1>6, <2>1, <2>3, <2>4, <2>5, <2>6 DEF Index
<1>7. CASE (\E f \in FileId : PostFile(f)) \/ Die \/ UNCHANGED upload_vars
  BY <1>1, <1>7 DEF PostFile, CreateUpload, Die, Crash, tables, upload_vars, vars
<1>8. CASE Restart
  <2>1. \E ids : chunks' = SetStatus(chunks, ids, "pending")
    BY <1>8 DEF Restart, RecoverStuckJobs, ResetStuckProcessing
  <2> QED BY <1>2, <2>1
<1> QED BY <1>3, <1>4, <1>5, <1>6, <1>7, <1>8 DEF UploadNext

\* A row that a worker makes indexed was skipped, or has its point.
LEMMA MadeIndexed ==
  ASSUME IInv, BatchesOfOneFile, HandsInv, NEW w \in Worker, NEW c \in DOMAIN chunks,
         MakesIndexed(w, c)
  PROVE  \/ c \in skipped'
         \/ /\ chunks[c].file_id \in DOMAIN collections'
            /\ chunks[c].sequence \in DOMAIN collections'[chunks[c].file_id]
<1>1. PICK j \in jobs[w] : /\ j.chunk_id = c
                           /\ \/ SettleEmpty(w) /\ j \in EmptyReads(w)
                              \/ Complete(w) /\ j \notin emptied[w]
  BY DEF MakesIndexed, Ids, EmptyReads
<1>2. j = ChunkJob(c) /\ chunks[c].file_id \in DOMAIN files
  BY <1>1 DEF IInv, JobsMirrorRows, RowsHaveFiles
<1>3. j.file_id = chunks[c].file_id /\ j.sequence = chunks[c].sequence
  BY <1>2 DEF ChunkJob
<1>4. CASE SettleEmpty(w) /\ j \in EmptyReads(w)
  <2>1. FileOf(jobs[w]) = j.file_id
    BY <1>1, FileOfBatch
  <2>2. c \in Ids(EmptyReads(w))
    BY <1>1, <1>4 DEF Ids
  <2> QED BY <1>2, <1>3, <1>4, <2>1, <2>2 DEF SettleEmpty
<1>5. CASE Complete(w) /\ j \notin emptied[w]
  <2>1. Stored(j)
    BY <1>1, <1>5 DEF HandsInv, InHand, Complete
  <2>2. UNCHANGED collections
    BY <1>5 DEF Complete
  <2> QED BY <1>2, <1>3, <2>1, <2>2 DEF Stored
<1> QED BY <1>1, <1>4, <1>5

\* A row that is no longer taken for skipped has been claimed again.
LEMMA SkippedStays ==
  ASSUME IInv, IInv', [UploadNext]_upload_vars, NEW c \in skipped, c \in DOMAIN chunks',
         chunks'[c].status # "processing"
  PROVE  c \in skipped'
<1>1. ASSUME NEW w \in Worker, Claim(w) PROVE c \in skipped'
  <2>1. emptied'[w] = {}
    BY <1>1 DEF Claim, ClaimBatch, IInv, BatchesAreWhole
  <2>2. c \notin Ids(jobs'[w])
    <3> SUFFICES ASSUME NEW j \in jobs'[w], j.chunk_id = c PROVE FALSE
      BY DEF Ids
    <3>1. chunks'[c].status = IF j \in emptied'[w] THEN "indexed" ELSE "processing"
      BY DEF IInv, JobsMirrorRows
    <3> QED BY <2>1, <3>1
  <2> QED BY <1>1, <2>2 DEF Claim
<1>2. ASSUME NEW w \in Worker, Index(w), ~Claim(w) PROVE c \in skipped'
  BY <1>2 DEF Index, StartRead, LookAtFinal, LookAtPartial, Open, SettleEmpty,
     EnsureCollection, CreateCollection, Upsert, Complete, Fail, Abandon, history
<1>3. ASSUME NEW r \in Request, Serve(r) PROVE c \in skipped'
  BY <1>3 DEF Serve, PostComplete, Delete, LookForFinal, Rename, MarkComplete, Unlink, Drop,
     history
<1>4. ASSUME NEW f \in FileId, NEW n \in 0..MAX_CHUNK_BYTES,
             PutChunk(f, n) \/ PutChunkFails(f, n)
      PROVE  c \in skipped'
  BY <1>4 DEF PutChunk, PutChunkFails
<1>5. CASE (\E f \in FileId : PostFile(f)) \/ Die \/ Restart \/ UNCHANGED upload_vars
  BY <1>5 DEF PostFile, Die, Restart, history, upload_vars
<1> QED BY <1>1, <1>2, <1>3, <1>4, <1>5 DEF UploadNext

\* Every step keeps the index complete.
LEMMA SearchableStep ==
  ASSUME IInv, IInv', BatchesOfOneFile, OffsetsAndRequests, FilesInv, PassagesInv, HandsInv,
         IndexedIsSearchable, [UploadNext]_upload_vars
  PROVE  IndexedIsSearchable'
<1> SUFFICES ASSUME NEW c \in DOMAIN chunks', chunks'[c].status = "indexed", c \notin skipped'
             PROVE  /\ chunks'[c].file_id \in DOMAIN collections'
                    /\ chunks'[c].sequence \in DOMAIN collections'[chunks'[c].file_id]
  BY DEF IndexedIsSearchable, WithStatus
<1>1. c \in DOMAIN chunks
  BY AddedPassages
<1>2. SameRow(c)
  BY <1>1, StepRefines, RowsAfterAStep
<1>3. PICK f, s : f = chunks[c].file_id /\ s = chunks[c].sequence
  OBVIOUS
<1>4. chunks'[c].file_id = f /\ chunks'[c].sequence = s
  BY <1>2, <1>3 DEF SameRow
<1>5. CASE chunks[c].status = "indexed"
  <2>1. c \notin skipped
    BY SkippedStays
  <2>2. f \in DOMAIN collections /\ s \in DOMAIN collections[f]
    BY <1>1, <1>3, <1>5, <2>1 DEF IndexedIsSearchable, WithStatus
  <2>3. f \in DOMAIN files'
    BY <1>4 DEF IInv, RowsHaveFiles
  <2> QED BY <1>4, <2>2, <2>3, CollectionsStay
<1>6. CASE chunks[c].status # "indexed"
  <2>1. PICK w \in Worker : MakesIndexed(w, c)
    BY <1>1, <1>6, IndexedByAStep
  <2>2. f \in DOMAIN collections' /\ s \in DOMAIN collections'[f]
    BY <1>1, <1>3, <2>1, MadeIndexed
  <2> QED BY <1>4, <2>2
<1> QED BY <1>5, <1>6

\* A passage that the tables count as indexed has its point in Qdrant, with any
\* crash, error or deletion in between, unless it was skipped as an empty read.
THEOREM IndexIsComplete == UploadSpec => []IndexedIsSearchable
<1>1. UploadInit => IndexedIsSearchable
  BY DEF UploadInit, Init, EmptyTable, WithStatus, IndexedIsSearchable
<1>2. IInv /\ IInv' /\ BatchesOfOneFile /\ OffsetsAndRequests /\ FilesInv /\ PassagesInv
        /\ HandsInv /\ IndexedIsSearchable /\ [UploadNext]_upload_vars
        => IndexedIsSearchable'
  BY SearchableStep
<1> QED BY <1>1, <1>2, BatchesInvariant, OffsetsInvariant, FilesInvariant,
        PassagesAreCommitted, HandsInvariant, PTL DEF UploadSpec

----------------------------------------------------------------------------
(* The vectors *)

\* A text in hand is the text of its passage, or empty.
TextsOf(w) ==
  jobs[w] # {} =>
    \A j \in jobs[w] \cap DOMAIN ingest[w].texts :
      ingest[w].texts[j] \in {<<>>, Text(j.passage)}

\* The point of passage s of f is of acknowledged bytes, its vector is of their
\* text, and while the file is there so is the row.
PointIsRight(f, s, point) ==
  /\ Committed(f, point.passage)
  /\ point.text = Text(point.passage)
  /\ f \in DOMAIN files =>
       \E c \in Rows(chunks, f) :
         chunks[c].sequence = s /\ chunks[c].passage = point.passage

\* The invariant of texts and points.
VectorsInv ==
  /\ \A w \in Worker : TextsOf(w)
  /\ \A f \in DOMAIN collections : \A s \in DOMAIN collections[f] :
       PointIsRight(f, s, collections[f][s])

\* A point that was right is, as long as its file is there.
LEMMA PointStaysRight ==
  ASSUME IInv, OffsetsAndRequests, [UploadNext]_upload_vars,
         NEW f \in used_ids, NEW s, NEW point, PointIsRight(f, s, point)
  PROVE  PointIsRight(f, s, point)'
<1>1. f \in FileId
  BY DEF IInv, TypeOK
<1>2. Committed(f, point.passage)'
  BY <1>1, CommittedStays DEF PointIsRight
<1>3. ASSUME f \in DOMAIN files'
      PROVE  \E c \in Rows(chunks', f) :
               chunks'[c].sequence = s /\ chunks'[c].passage = point.passage
  <2>1. [Next]_vars
    BY StepRefines
  <2>2. f \in DOMAIN files
    BY <1>3, <2>1, FilesAfterAStep DEF Gone
  <2>3. PICK c \in Rows(chunks, f) :
          chunks[c].sequence = s /\ chunks[c].passage = point.passage
    BY <2>2 DEF PointIsRight
  <2>4. c \in DOMAIN chunks' /\ SameRow(c)
    BY <1>3, <2>1, <2>3, RowsAfterAStep DEF Rows
  <2> QED BY <2>3, <2>4 DEF Rows, SameRow
<1> QED BY <1>2, <1>3 DEF PointIsRight

\* What read_range finds of a committed passage is its text: the file on disk is
\* a beginning of the client's file, and the passage was acknowledged.
LEMMA CommittedText ==
  ASSUME OffsetsAndRequests, DiskInv, NEW f \in FileId, NEW p, Committed(f, p), NEW content,
         \/ f \in DOMAIN final /\ content = final[f]
         \/ f \in DOMAIN partial /\ content = partial[f]
  PROVE  RangeOf(content, p) = Text(p) /\ Text(p) # <<>>
<1>1. PICK n \in Nat : bytes_received[f] <= n /\ content = Bytes(0, n)
  BY DEF DiskInv, FileOnDisk, Copy
<1>2. p \in ByteRanges /\ p[2] <= bytes_received[f]
  BY DEF Committed
<1>3. p[2] \in Nat /\ bytes_received[f] \in Nat
  BY <1>2, SizeAssumption DEF ByteRanges, OffsetsAndRequests
<1>4. p[2] <= n
  BY <1>1, <1>2, <1>3
<1>5. RangeOf(Bytes(0, n), p) = Text(p) /\ Text(p) # <<>>
  BY <1>2, <1>4, RangeIsText
<1> QED BY <1>1, <1>5

\* Texts in hand stay right when a worker goes to its next step ...
LEMMA TextsKept ==
  ASSUME HandsInv, NEW w \in Worker, TextsOf(w), jobs[w] # {}, jobs'[w] = jobs[w],
         NEW s, NEW a, Holds(w, s, a, ingest[w].texts)
  PROVE  TextsOf(w)'
<1>1. ingest'[w].texts = ingest[w].texts
  BY DEF Holds
<1> QED BY <1>1 DEF TextsOf

\* ... and when it has read the next text.
LEMMA TextsRead ==
  ASSUME HandsInv, NEW w \in Worker, TextsOf(w), jobs[w] # {}, jobs'[w] = jobs[w],
         NEW text, GotText(w, text),
         NextToRead(w) \in jobs[w] => text \in {<<>>, Text(NextToRead(w).passage)}
  PROVE  TextsOf(w)'
<1>1. PICK next : next = NextToRead(w)
  OBVIOUS
<1>2. ingest'[w].texts = Put(ingest[w].texts, next, text)
  <2>1. Holds(w, "read", FALSE, Put(ingest[w].texts, NextToRead(w), text))
    BY ReadHand
  <2> QED BY <1>1, <2>1 DEF Holds
<1>3. ASSUME NEW j \in jobs[w], j \in DOMAIN ingest'[w].texts
      PROVE  ingest'[w].texts[j] \in {<<>>, Text(j.passage)}
  <2>1. CASE j = next
    BY <1>1, <1>2, <1>3, <2>1 DEF Put
  <2>2. CASE j # next
    BY <1>2, <1>3, <2>2 DEF Put, TextsOf
  <2> QED BY <2>1, <2>2
<1> QED BY <1>3 DEF TextsOf

\* Every step of a worker keeps its texts right.
LEMMA TextsStep ==
  ASSUME IInv, OffsetsAndRequests, DiskInv, PassagesInv, HandsInv, NEW w \in Worker,
         TextsOf(w), Index(w)
  PROVE  TextsOf(w)'
<1>0. jobs \in [Worker -> SUBSET Job]
  BY DEF IInv, TypeOK
<1>1. CASE Claim(w)
  <2> DEFINE start == [step |-> "read", again |-> FALSE, texts |-> EmptyTable]
  <2>1. ingest'[w] = start
    BY <1>1 DEF Claim, HandsInv
  <2>2. start.texts = EmptyTable
    OBVIOUS
  <2>3. DOMAIN ingest'[w].texts = {}
    BY <2>1, <2>2 DEF EmptyTable
  <2> QED BY <2>3 DEF TextsOf
<1>2. CASE jobs'[w] = {}
  BY <1>2 DEF TextsOf
<1>3. ASSUME NEW s, Move(w, s), jobs[w] # {}, jobs'[w] = jobs[w] PROVE TextsOf(w)'
  <2>1. Holds(w, s, ingest[w].again, ingest[w].texts)
    BY <1>3, MovedHand
  <2> QED BY <1>3, <2>1, TextsKept
<1>4. CASE StartRead(w) \/ LookAtFinal(w) \/ LookAtPartial(w)
  <2>1. jobs[w] # {}
    BY <1>4, BatchInHand DEF StartRead, LookAtFinal, LookAtPartial
  <2>2. jobs'[w] = jobs[w]
    BY <1>4 DEF StartRead, LookAtFinal, LookAtPartial, queue, vars
  <2>3. (\E s : Move(w, s)) \/ GotText(w, <<>>)
    BY <1>4 DEF StartRead, LookAtFinal, LookAtPartial
  <2> QED BY <1>3, <2>1, <2>2, <2>3, TextsRead
<1>5. CASE Open(w)
  <2>1. jobs[w] # {}
    BY <1>5, BatchInHand DEF Open
  <2>2. jobs'[w] = jobs[w]
    BY <1>5 DEF Open, queue, vars
  <2>3. PICK j : j = NextToRead(w)
    OBVIOUS
  <2>4. PICK directory \in {final, partial} : directory = Directory(ingest[w].step)
    BY DEF Directory
  <2>5. \/ /\ j.file_id \in DOMAIN directory
           /\ GotText(w, RangeOf(directory[j.file_id], j.passage))
        \/ ingest' = [ingest EXCEPT ![w] = [@ EXCEPT !.step = "look", !.again = TRUE]]
        \/ Move(w, "raised")
    BY <1>5, <2>3, <2>4 DEF Open
  <2>6. CASE /\ j.file_id \in DOMAIN directory
             /\ GotText(w, RangeOf(directory[j.file_id], j.passage))
    <3>1. ASSUME j \in jobs[w]
          PROVE  RangeOf(directory[j.file_id], j.passage) = Text(j.passage)
      <4>1. j.file_id \in FileId /\ Committed(j.file_id, j.passage)
        BY <1>0, <3>1 DEF Job, PassagesInv
      <4> QED BY <2>4, <2>6, <4>1, CommittedText
    <3> QED BY <2>1, <2>2, <2>3, <2>6, <3>1, TextsRead
  <2>7. CASE ingest' = [ingest EXCEPT ![w] = [@ EXCEPT !.step = "look", !.again = TRUE]]
    <3>1. Holds(w, "look", TRUE, ingest[w].texts)
      BY <2>1, <2>7, LookAgainHand
    <3> QED BY <2>1, <2>2, <3>1, TextsKept
  <2> QED BY <1>3, <2>1, <2>2, <2>5, <2>6, <2>7
<1>6. CASE SettleEmpty(w)
  <2>1. jobs[w] # {}
    BY <1>6, BatchInHand DEF SettleEmpty
  <2>2. EmptyReads(w) # jobs[w] => Move(w, "ensure") /\ jobs'[w] = jobs[w]
    BY <1>0, <1>6 DEF SettleEmpty, CompleteEmpty
  <2>3. EmptyReads(w) = jobs[w] => jobs'[w] = {}
    BY <1>0, <1>6 DEF SettleEmpty, CompleteEmpty
  <2> QED BY <1>2, <1>3, <2>1, <2>2, <2>3
<1>7. CASE EnsureCollection(w) \/ CreateCollection(w) \/ Upsert(w)
  <2>1. jobs[w] # {}
    BY <1>7, BatchInHand DEF EnsureCollection, CreateCollection, Upsert
  <2>2. jobs'[w] = jobs[w] /\ \E s : Move(w, s)
    BY <1>7 DEF EnsureCollection, CreateCollection, Upsert, queue, vars
  <2> QED BY <1>3, <2>1, <2>2
<1>8. CASE Complete(w) \/ Fail(w) \/ Abandon(w)
  <2>1. jobs' = [jobs EXCEPT ![w] = {}]
    BY <1>8 DEF Complete, Fail, Abandon, CompleteKept, FailBatch, AbandonBatch
  <2> QED BY <1>0, <1>2, <2>1
<1> QED BY <1>1, <1>4, <1>5, <1>6, <1>7, <1>8 DEF Index

\* What an upsert writes is right: each kept job's own text beside its own range.
LEMMA UpsertedIsRight ==
  ASSUME IInv, BatchesOfOneFile, PassagesInv, HandsInv, VectorsInv, NEW w \in Worker,
         ingest[w].step = "upsert", NEW f, f = FileOf(jobs[w]), NEW s \in KeptSequences(w)
  PROVE  PointIsRight(f, s, Point(w, s))
<1>1. jobs[w] # {}
  BY BatchInHand
<1>2. PICK j \in jobs[w] \ emptied[w] : j = KeptJob(w, s) /\ j.sequence = s
  <2>1. \E j \in jobs[w] \ emptied[w] : j.sequence = s
    BY DEF KeptSequences
  <2> QED BY <2>1 DEF KeptJob
<1>3. Point(w, s).passage = j.passage /\ Point(w, s).text = ingest[w].texts[j]
  BY <1>2 DEF Point
<1>4. ingest[w].texts[j] = Text(j.passage)
  <2>1. j \in DOMAIN ingest[w].texts /\ ingest[w].texts[j] # <<>>
    BY <1>1 DEF HandsInv, InHand, Storing
  <2> QED BY <1>1, <2>1 DEF VectorsInv, TextsOf
<1>5. j.file_id = f
  BY <1>1, FileOfBatch
<1>6. Committed(f, j.passage)
  BY <1>5 DEF PassagesInv
<1>7. ASSUME f \in DOMAIN files
      PROVE  \E c \in Rows(chunks, f) :
               chunks[c].sequence = s /\ chunks[c].passage = j.passage
  <2>1. PICK c \in DOMAIN chunks : c = j.chunk_id
    BY <1>5, <1>7 DEF BatchesOfOneFile
  <2>2. j = ChunkJob(c)
    BY <2>1 DEF IInv, JobsMirrorRows
  <2>3. chunks[c].file_id = f /\ chunks[c].sequence = s /\ chunks[c].passage = j.passage
    BY <1>2, <1>5, <2>2 DEF ChunkJob
  <2> QED BY <2>1, <2>3 DEF Rows
<1> QED BY <1>3, <1>4, <1>6, <1>7 DEF PointIsRight

\* The points after a step are those that were there, or are upserted.
LEMMA PointsAfterAStep ==
  ASSUME HandsInv, [UploadNext]_upload_vars,
         NEW f \in DOMAIN collections', NEW s \in DOMAIN collections'[f]
  PROVE  \/ /\ f \in DOMAIN collections /\ s \in DOMAIN collections[f]
            /\ collections'[f][s] = collections[f][s]
         \/ \E w \in Worker : /\ ingest[w].step = "upsert" /\ f = FileOf(jobs[w])
                              /\ s \in KeptSequences(w)
                              /\ collections'[f][s] = Point(w, s)
<1> DEFINE Old == /\ f \in DOMAIN collections /\ s \in DOMAIN collections[f]
                  /\ collections'[f][s] = collections[f][s]
<1>1. CASE UNCHANGED collections
  BY <1>1
<1>2. ASSUME NEW r \in Request, Drop(r) PROVE Old
  BY <1>2 DEF Drop, Without
<1>3. ASSUME NEW r \in Request, Serve(r), ~Drop(r) PROVE UNCHANGED collections
  BY <1>3 DEF Serve, PostComplete, Delete, LookForFinal, Rename, MarkComplete, Unlink
<1>4. ASSUME NEW w \in Worker, CreateCollection(w) PROVE Old
  <2>1. CASE UNCHANGED collections
    BY <2>1
  <2>2. CASE collections' = Put(collections, FileOf(jobs[w]), EmptyTable)
    BY <2>2 DEF Put, EmptyTable
  <2> QED BY <1>4, <2>1, <2>2 DEF CreateCollection
<1>5. ASSUME NEW w \in Worker, Upsert(w)
      PROVE  \/ Old
             \/ /\ ingest[w].step = "upsert" /\ f = FileOf(jobs[w])
                /\ s \in KeptSequences(w) /\ collections'[f][s] = Point(w, s)
  <2>1. CASE UNCHANGED collections
    BY <2>1
  <2>2. PICK g : g = FileOf(jobs[w])
    OBVIOUS
  <2>3. CASE /\ g \in DOMAIN collections
             /\ collections' = Put(collections, g, Upserted(w, collections[g]))
    <3>1. CASE f = g
      <4>1. collections'[f] = Upserted(w, collections[f]) /\ f \in DOMAIN collections
        BY <2>3, <3>1 DEF Put
      <4> QED BY <1>5, <2>2, <3>1, <4>1 DEF Upserted, Upsert
    <3>2. CASE f # g
      BY <2>3, <3>2 DEF Put
    <3> QED BY <3>1, <3>2
  <2> QED BY <1>5, <2>1, <2>2, <2>3 DEF Upsert
<1>6. ASSUME NEW w \in Worker, Index(w), ~CreateCollection(w), ~Upsert(w)
      PROVE  UNCHANGED collections
  BY <1>6 DEF Index, Claim, StartRead, LookAtFinal, LookAtPartial, Open, SettleEmpty,
       EnsureCollection, Complete, Fail, Abandon
<1>7. ASSUME NEW g \in FileId, NEW n \in 0..MAX_CHUNK_BYTES,
             PutChunk(g, n) \/ PutChunkFails(g, n)
      PROVE  UNCHANGED collections
  BY <1>7 DEF PutChunk, PutChunkFails
<1>8. CASE (\E g \in FileId : PostFile(g)) \/ Die \/ Restart \/ UNCHANGED upload_vars
  BY <1>1, <1>8 DEF PostFile, Die, Restart, upload_vars
<1> QED BY <1>1, <1>2, <1>3, <1>4, <1>5, <1>6, <1>7, <1>8 DEF UploadNext

\* Every step keeps texts and points right.
LEMMA VectorsStep ==
  ASSUME IInv, BatchesOfOneFile, OffsetsAndRequests, FilesInv, DiskInv, PassagesInv,
         HandsInv, VectorsInv, [UploadNext]_upload_vars
  PROVE  VectorsInv'
<1>1. ASSUME NEW f \in DOMAIN collections', NEW s \in DOMAIN collections'[f]
      PROVE  PointIsRight(f, s, collections[f][s])'
  <2>1. PICK point : point = collections'[f][s]
    OBVIOUS
  <2>2. f \in used_ids /\ PointIsRight(f, s, point)
    <3>1. CASE /\ f \in DOMAIN collections /\ s \in DOMAIN collections[f]
               /\ point = collections[f][s]
      BY <3>1 DEF VectorsInv, HandsInv
    <3>2. ASSUME NEW w \in Worker, ingest[w].step = "upsert", f = FileOf(jobs[w]),
                 s \in KeptSequences(w), point = Point(w, s)
          PROVE  f \in used_ids /\ PointIsRight(f, s, point)
      <4>1. jobs[w] # {}
        BY <3>2, BatchInHand
      <4>2. f \in used_ids
        BY <3>2, <4>1, FileOfBatch
      <4> QED BY <3>2, <4>2, UpsertedIsRight
    <3> QED BY <2>1, <3>1, <3>2, PointsAfterAStep
  <2>3. PointIsRight(f, s, point)'
    BY <2>2, PointStaysRight
  <2> QED BY <2>1, <2>3 DEF PointIsRight, Committed
<1>2. ASSUME NEW w \in Worker PROVE TextsOf(w)'
  <2>1. CASE SameHand(w)
    BY <2>1 DEF SameHand, VectorsInv, TextsOf
  <2>2. ASSUME NEW v \in Worker, Index(v) PROVE TextsOf(w)'
    <3>1. CASE v = w
      BY <2>2, <3>1, TextsStep DEF VectorsInv
    <3>2. CASE v # w
      <4>1. SameHand(w)
        BY <2>2, <3>2, IndexHand, OthersWait
      <4> QED BY <2>1, <4>1
    <3> QED BY <3>1, <3>2
  <2>3. CASE Die
    BY <2>3 DEF Die, Crash, TextsOf
  <2>4. CASE (\A v \in Worker : ~Index(v)) /\ ~Die
    BY <2>1, <2>4, NoHandMoves DEF SameHand
  <2> QED BY <2>2, <2>3, <2>4
<1> QED BY <1>1, <1>2 DEF VectorsInv

\* Texts and points are right throughout.
LEMMA VectorsInvariant ==
  ASSUME Whole PROVE UploadSpec => []VectorsInv
<1>1. UploadInit => VectorsInv
  BY DEF UploadInit, Init, EmptyTable, VectorsInv, TextsOf
<1>2. IInv /\ BatchesOfOneFile /\ OffsetsAndRequests /\ FilesInv /\ DiskInv /\ PassagesInv
        /\ HandsInv /\ VectorsInv /\ [UploadNext]_upload_vars => VectorsInv'
  BY VectorsStep
<1>3. UploadSpec => []DiskInv
  BY DiskInvariant
<1> QED BY <1>1, <1>2, <1>3, BatchesInvariant, OffsetsInvariant, FilesInvariant,
        PassagesAreCommitted, HandsInvariant, PTL DEF UploadSpec

\* Every vector of a living file is of the whole text of one of its passages,
\* stored under that passage's number and range: no read that raced a rename, a
\* rolled-back write or a deletion reaches the index.
THEOREM VectorsAreOfTheirPassages ==
  ASSUME Whole PROVE UploadSpec => []VectorsMatchPassages
<1>1. VectorsInv => VectorsMatchPassages
  BY DEF VectorsInv, PointIsRight, VectorsMatchPassages
<1>2. UploadSpec => []VectorsInv
  BY VectorsInvariant
<1> QED BY <1>1, <1>2, PTL

----------------------------------------------------------------------------
(* Types *)

\* A file on disk has or had a row, and a request that serves nothing has no
\* fields left.
NamesInv ==
  /\ DOMAIN partial \cup DOMAIN final \subseteq used_ids
  /\ \A r \in Request : request[r].step = "idle" => request[r] = NoRequest

\* A request that goes to its next step is not idle.
LEMMA GoesOn ==
  ASSUME RequestsNameFiles, NamesInv, NEW r \in Request, NEW s, s # "idle", NEW f,
         GoTo(r, s, f)
  PROVE  \A q \in Request : request'[q].step = "idle" => request'[q] = NoRequest
<1> DEFINE moved == [step |-> s, file |-> f]
<1>1. moved.step = s
  OBVIOUS
<1>2. request' = [request EXCEPT ![r] = moved]
  BY DEF GoTo
<1> HIDE DEF moved
<1> QED BY <1>1, <1>2 DEF NamesInv, RequestsNameFiles

\* Every step keeps the names right.
LEMMA NamesStep ==
  ASSUME IInv, OffsetsAndRequests, FilesInv, NamesInv, [UploadNext]_upload_vars
  PROVE  NamesInv'
<1> DEFINE Idle == \A q \in Request : request'[q].step = "idle" => request'[q] = NoRequest
<1>0. used_ids \subseteq used_ids' /\ DOMAIN files \subseteq used_ids
  <2>1. \A f \in used_ids : f \in used_ids'
    BY StepRefines, FilesAfterAStep
  <2> QED BY <2>1 DEF IInv, TypeOK
<1>1. ASSUME NEW f \in used_ids, NEW content, partial' = Put(partial, f, content),
             UNCHANGED final
      PROVE  DOMAIN partial' \cup DOMAIN final' \subseteq used_ids'
  BY <1>0, <1>1 DEF Put, NamesInv
<1>2. CASE \/ UNCHANGED upload_vars
           \/ \E f \in FileId : PostFile(f)
           \/ \E w \in Worker : Index(w)
           \/ Restart
  <2>1. UNCHANGED <<disk, request>>
    BY <1>2 DEF upload_vars, disk, PostFile, Restart, Index, Claim, StartRead, LookAtFinal,
       LookAtPartial, Open, SettleEmpty, EnsureCollection, CreateCollection, Upsert, Complete,
       Fail, Abandon
  <2> QED BY <1>0, <2>1 DEF NamesInv, disk
<1>3. ASSUME NEW f \in FileId, NEW n \in 0..MAX_CHUNK_BYTES,
             PutChunk(f, n) \/ PutChunkFails(f, n)
      PROVE  NamesInv'
  <2>1. f \in DOMAIN files
    BY <1>3 DEF PutChunk, PutChunkFails, AppendChunk
  <2>2. UNCHANGED <<final, request>> /\ partial' = Put(partial, f, AfterWrite(f, n))
    BY <1>3 DEF PutChunk, PutChunkFails
  <2> QED BY <1>0, <1>1, <2>1, <2>2 DEF NamesInv
<1>4. CASE Die
  <2>1. \A q \in Request : request'[q] = NoRequest
    BY <1>4 DEF Die
  <2>2. UNCHANGED disk
    BY <1>4 DEF Die
  <2> QED BY <1>0, <2>1, <2>2 DEF NamesInv, disk
<1>5. ASSUME NEW r \in Request, Serve(r) PROVE NamesInv'
  <2>1. Return(r) \/ \E s, f : s # "idle" /\ GoTo(r, s, f)
    BY <1>5 DEF Serve, PostComplete, Delete, LookForFinal, Rename, MarkComplete, Unlink, Drop
  <2>2. Idle
    <3>1. CASE Return(r)
      BY <3>1 DEF Return, NamesInv, OffsetsAndRequests, RequestsNameFiles, NoRequest
    <3> QED BY <2>1, <3>1, GoesOn DEF OffsetsAndRequests
  <2>3. DOMAIN partial' \cup DOMAIN final' \subseteq DOMAIN partial \cup DOMAIN final
    <3>1. CASE Rename(r)
      BY <3>1 DEF Rename, Put, Without, disk
    <3>2. CASE Unlink(r)
      BY <3>2 DEF Unlink, Without
    <3>3. CASE ~Rename(r) /\ ~Unlink(r)
      BY <1>5, <3>3 DEF Serve, PostComplete, Delete, LookForFinal, MarkComplete, Drop, disk
    <3> QED BY <3>1, <3>2, <3>3
  <2> QED BY <1>0, <2>2, <2>3 DEF NamesInv
<1> QED BY <1>2, <1>3, <1>4, <1>5 DEF UploadNext

\* Every variable of the upload path keeps its type.
THEOREM UploadTypes == UploadSpec => []UploadTypeOK
<1>1. UploadInit => NamesInv
  BY DEF UploadInit, NamesInv, EmptyTable
<1>2. IInv /\ OffsetsAndRequests /\ FilesInv /\ NamesInv /\ [UploadNext]_upload_vars => NamesInv'
  BY NamesStep
<1>3. IInv /\ OffsetsAndRequests /\ FilesInv /\ PassagesInv /\ HandsInv /\ NamesInv
        => UploadTypeOK
  <2> SUFFICES ASSUME IInv, OffsetsAndRequests, FilesInv, PassagesInv, HandsInv, NamesInv
               PROVE  UploadTypeOK
    OBVIOUS
  <2>1. \A w \in Worker : ingest[w] = NoBatch <=> jobs[w] = {}
    <3> SUFFICES ASSUME NEW w \in Worker, jobs[w] # {}, ingest[w] = NoBatch PROVE FALSE
      BY DEF HandsInv, InHand
    <3>1. NoBatch.step = "idle"
      BY DEF NoBatch
    <3> QED BY <3>1, BatchInHand DEF HandsInv, InHand, Reading, Storing
  <2>2. \A r \in Request : request[r] = NoRequest \/ request[r].file \in used_ids
    BY DEF NamesInv, FilesInv, RequestInv
  <2> QED BY <2>1, <2>2 DEF UploadTypeOK, OffsetsAndRequests, PassagesInv, HandsInv, NamesInv
<1>4. UploadSpec => []IInv
  BY PipelineImplementsQueue, InvariantHolds, PTL
<1> QED BY <1>1, <1>2, <1>3, <1>4, OffsetsInvariant, FilesInvariant, PassagesAreCommitted,
        HandsInvariant, PTL DEF UploadSpec
=============================================================================
