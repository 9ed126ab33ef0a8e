-------------------------- MODULE WorkerPool_proofs --------------------------
(***************************************************************************)
(* The life of the threads implements the job queue, for any number of     *)
(* threads, batches, shutdowns and restarts: so nothing that a shutdown    *)
(* interrupts is lost.  And a thread claims one batch after stop() at      *)
(* most.                                                                   *)
(***************************************************************************)
EXTENDS WorkerPool, JobQueue_proofs, WellFoundedInduction

----------------------------------------------------------------------------
(* Refinement *)

\* A round of a thread is a claim, or leaves the queue alone.
LEMMA RoundRefines ==
  ASSUME NEW w \in Worker, Round(w) \/ ClaimRaises(w) PROVE [Next]_vars
<1>1. CASE ClaimJobs(w)
  BY <1>1 DEF ClaimJobs, Work, Next
<1>2. CASE Check(w) \/ ClaimNothing(w) \/ WakeUp(w) \/ ClaimRaises(w)
  BY <1>2 DEF Check, ClaimNothing, WakeUp, ClaimRaises
<1> QED BY <1>1, <1>2 DEF Round

\* The model is none of the queue's business.
LEMMA ModelRefines ==
  ASSUME NEW w \in Worker, ReachModel(w) \/ GetModel(w) \/ LoadRaises(w)
  PROVE  UNCHANGED vars
BY DEF ReachModel, GetModel, LockModel, LoadModel, LoadRaises

\* What it does with a batch is.
LEMMA BatchRefines ==
  ASSUME NEW w \in Worker, SettleBatch(w) \/ GiveUpBatch(w) PROVE [Next]_vars
<1>1. CASE SettleBatch(w)
  BY <1>1 DEF SettleBatch, Work, Next
<1>2. CASE GiveUpBatch(w)
  BY <1>2 DEF GiveUpBatch, Work, Next
<1> QED BY <1>1, <1>2

\* And what a request does.
LEMMA RequestRefines == Upload => [Next]_vars
<1> SUFFICES ASSUME Upload PROVE [Next]_vars
  OBVIOUS
<1>1. PICK f \in FileId :
        \/ CreateUpload(f)
        \/ \E passages \in Passages : AppendChunk(f, passages)
        \/ \E passages \in Passages : BeginComplete(f, passages)
        \/ FinishComplete(f)
        \/ DeleteUpload(f)
  BY DEF Upload
<1> QED BY <1>1 DEF Next

\* Every step of the threads and of the lifespan is a step of the queue, or
\* none: an exit is a crash, a start is a recovery.
LEMMA PoolStepRefines == [PoolNext]_pool_vars => [Next]_vars
<1> SUFFICES ASSUME [PoolNext]_pool_vars PROVE [Next]_vars
  OBVIOUS
<1>1. CASE UNCHANGED pool_vars
  BY <1>1 DEF pool_vars
<1>2. CASE Upload
  BY <1>2, RequestRefines
<1>3. ASSUME NEW w \in Worker,
             \/ Round(w) \/ ClaimRaises(w)
             \/ ReachModel(w) \/ GetModel(w) \/ LoadRaises(w)
             \/ SettleBatch(w) \/ GiveUpBatch(w)
      PROVE  [Next]_vars
  BY <1>3, RoundRefines, ModelRefines, BatchRefines
<1>4. CASE Stop \/ AllJoined \/ \E w \in Worker : JoinTimesOut(w) \/ JoinRaises(w)
  BY <1>4 DEF Stop, AllJoined, JoinTimesOut, JoinRaises
<1>5. CASE Exit \/ Kill
  BY <1>5 DEF Exit, Kill, Down, Next
<1>6. CASE Start
  BY <1>6 DEF Start, Recover, Next
<1> QED BY <1>1, <1>2, <1>3, <1>4, <1>5, <1>6 DEF PoolNext, Shutdown

\* The pool implements the job queue.
THEOREM PoolImplementsQueue == PoolSpec => ImplementsQueue
<1>1. PoolInit => Init
  BY DEF PoolInit
<1> QED BY <1>1, PoolStepRefines, PTL DEF PoolSpec, ImplementsQueue, Spec

\* A shutdown in the middle of batches, timed out or broken off, loses no
\* claimed passage once the process is up again.
THEOREM PoolLosesNothing == PoolSpec => []NothingIsLost
BY PoolImplementsQueue, NoPassageIsLost, PTL DEF ImplementsQueue

\* Nor do two threads, of one generation or of two, hold the same row.
THEOREM PoolClaimsAreExclusive == PoolSpec => []ClaimsAreExclusive
BY PoolImplementsQueue, ExclusiveClaims, PTL DEF ImplementsQueue

----------------------------------------------------------------------------
(* One batch after the stop *)

\* A thread that is about to claim after stop() saw the event unset, and has
\* claimed nothing since.
LateInv ==
  /\ thread = [w \in Worker |-> thread[w]]
  /\ late_claims \in [Worker -> Nat]
  /\ lifespan = "serving" => ~stop_event
  /\ \A w \in Worker :
       /\ ~stop_event => late_claims[w] = 0
       /\ stop_event /\ thread[w] = "claiming" => late_claims[w] = 0
       /\ late_claims[w] <= 1

\* A thread that moves on without claiming, to a place that is not "claiming"
\* or with the event unset, keeps it.
LEMMA MovingOnKeeps ==
  ASSUME NEW w \in Worker, NEW s, LateInv, GoOn(w, s),
         s = "claiming" => ~stop_event,
         UNCHANGED <<lifespan, stop_event, late_claims>>
  PROVE  LateInv'
BY DEF LateInv, GoOn

\* Every step keeps it.
LEMMA LateStep == LateInv /\ [PoolNext]_pool_vars => LateInv'
<1> SUFFICES ASSUME LateInv, [PoolNext]_pool_vars PROVE LateInv'
  OBVIOUS
<1>1. CASE UNCHANGED pool_vars
  BY <1>1 DEF pool_vars, pool, LateInv
<1>2. CASE Upload
  BY <1>2 DEF Upload, pool, LateInv
<1>3. ASSUME NEW w \in Worker, Round(w) \/ ClaimRaises(w) PROVE LateInv'
  <2>1. CASE Check(w)
    <3>1. NextRound(w) = "claiming" => ~stop_event
      BY DEF NextRound
    <3>2. GoOn(w, NextRound(w)) /\ UNCHANGED <<lifespan, stop_event, late_claims>>
      BY <2>1 DEF Check
    <3> QED BY <3>1, <3>2, MovingOnKeeps
  <2>2. CASE ClaimJobs(w)
    BY <2>2 DEF ClaimJobs, GoOn, LateInv
  <2>3. CASE ClaimNothing(w) \/ WakeUp(w) \/ ClaimRaises(w)
    <3>1. PICK s \in {"waiting", "checking"} : GoOn(w, s)
      BY <2>3 DEF ClaimNothing, WakeUp, ClaimRaises, AfterException
    <3>2. UNCHANGED <<lifespan, stop_event, late_claims>>
      BY <2>3 DEF ClaimNothing, WakeUp, ClaimRaises
    <3> QED BY <3>1, <3>2, MovingOnKeeps
  <2> QED BY <1>3, <2>1, <2>2, <2>3 DEF Round
<1>4. ASSUME NEW w \in Worker,
             \/ ReachModel(w) \/ GetModel(w) \/ LoadRaises(w)
             \/ SettleBatch(w) \/ GiveUpBatch(w)
      PROVE  LateInv'
  <2>1. PICK s \in {"waiting", "checking"} \cup WithBatch : GoOn(w, s)
    <3>1. CASE ReachModel(w) \/ GetModel(w) \/ LoadRaises(w)
      BY <3>1 DEF ReachModel, GetModel, LockModel, LoadModel, LoadRaises, WithBatch
    <3>2. CASE SettleBatch(w) \/ GiveUpBatch(w)
      BY <3>2 DEF SettleBatch, GiveUpBatch, AfterException, WithBatch
    <3> QED BY <1>4, <3>1, <3>2
  <2>2. UNCHANGED <<lifespan, stop_event, late_claims>>
    BY <1>4 DEF ReachModel, GetModel, LockModel, LoadModel, LoadRaises,
                SettleBatch, GiveUpBatch
  <2>3. s # "claiming"
    BY DEF WithBatch
  <2> QED BY <2>1, <2>2, <2>3, MovingOnKeeps
<1>5. CASE Stop
  BY <1>5 DEF Stop, LateInv
<1>6. CASE AllJoined \/ \E w \in Worker : JoinTimesOut(w) \/ JoinRaises(w)
  BY <1>6 DEF AllJoined, JoinTimesOut, JoinRaises, LateInv
<1>7. CASE Exit \/ Kill
  BY <1>7 DEF Exit, Kill, Down, LateInv
<1>8. CASE Start
  BY <1>8 DEF Start, LateInv
<1> QED BY <1>1, <1>2, <1>3, <1>4, <1>5, <1>6, <1>7, <1>8 DEF PoolNext, Shutdown

\* After stop() no thread claims a second batch.
THEOREM StopIsHeard == PoolSpec => []OneBatchAfterStop
<1>1. PoolInit => LateInv
  BY DEF PoolInit, LateInv
<1>2. LateInv => OneBatchAfterStop
  BY DEF LateInv, OneBatchAfterStop
<1> QED BY <1>1, <1>2, LateStep, PTL DEF PoolSpec

----------------------------------------------------------------------------
(* Types *)

\* A nonempty set of natural numbers has a least element.
LEMMA LeastExists ==
  ASSUME NEW S \in SUBSET Nat, S # {}
  PROVE  \E m \in S : \A x \in S : m <= x
<1> DEFINE R == {p \in Nat \X Nat : p[1] < p[2]}
<1>1. IsWellFoundedOn(R, Nat)
  BY NatLessThanWellFounded DEF OpToRel
<1>2. \E m \in S : \A x \in S : <<x, m>> \notin R
  <2> HIDE DEF R
  <2> QED BY <1>1, WFMin
<1>3. PICK m \in S : \A x \in S : <<x, m>> \notin R
  BY <1>2
<1>4. ASSUME NEW x \in S PROVE m <= x
  <2>1. x \in Nat /\ m \in Nat /\ ~(x < m)
    BY <1>3
  <2> QED BY <2>1
<1> QED BY <1>4

\* A file with a pending row has one with the least sequence, which every claim
\* on that file takes.
LEMMA ClaimTakesARow ==
  ASSUME IInv, NEW f, Rows(chunks, f) \cap WithStatus(chunks, "pending") # {}
  PROVE  SelectPendingForFile(chunks, f, CLAIM_BATCH_SIZE) # {}
<1> DEFINE pending == Rows(chunks, f) \cap WithStatus(chunks, "pending")
           S == {chunks[c].sequence : c \in pending}
<1>1. \A c \in pending : c \in DOMAIN chunks /\ chunks[c].sequence \in Nat
  BY DEF Rows, IInv, TypeOK, ChunkRow
<1>2. PICK m \in S : \A x \in S : m <= x
  <2>1. S \in SUBSET Nat /\ S # {}
    BY <1>1
  <2> QED BY <2>1, LeastExists
<1>3. PICK c \in pending : chunks[c].sequence = m
  BY <1>2
<1>4. {d \in pending : chunks[d].sequence < chunks[c].sequence} = {}
  <2> SUFFICES ASSUME NEW d \in pending, chunks[d].sequence < chunks[c].sequence
               PROVE  FALSE
    OBVIOUS
  <2>1. chunks[c].sequence <= chunks[d].sequence
    BY <1>2, <1>3
  <2> QED BY <1>1, <2>1
<1>5. Cardinality({d \in pending : chunks[d].sequence < chunks[c].sequence})
        < CLAIM_BATCH_SIZE
  <2>1. 0 < CLAIM_BATCH_SIZE
    BY ClaimAssumption
  <2> QED BY <1>4, <2>1, FS_EmptySet
<1> QED BY <1>3, <1>5 DEF SelectPendingForFile

\* So a batch that was claimed is not empty.
LEMMA ClaimedBatchIsNotEmpty ==
  ASSUME IInv, NEW w \in Worker, ClaimBatch(w)
  PROVE  /\ jobs'[w] # {}
         /\ \A v \in Worker \ {w} : jobs'[v] = jobs[v]
<1> DEFINE f == OldestPendingFile(chunks)
           ids == SelectPendingForFile(chunks, f, CLAIM_BATCH_SIZE)
<1>1. jobs' = [jobs EXCEPT ![w] = {ChunkJob(c) : c \in ids}]
  BY DEF ClaimBatch
<1>2. Rows(chunks, f) \cap WithStatus(chunks, "pending") # {}
  <2> DEFINE pending == WithStatus(chunks, "pending")
  <2>1. pending \in SUBSET Nat /\ pending # {}
    BY DEF ClaimBatch, WithStatus, IInv, TypeOK
  <2>2. \E c \in pending : \A d \in pending : c <= d
    BY <2>1, LeastExists
  <2>3. PICK c \in pending : chunks[c].file_id = f
    BY <2>2 DEF OldestPendingFile
  <2> QED BY <2>3 DEF Rows, WithStatus
<1>3. ids # {}
  BY <1>2, ClaimTakesARow
<1>4. jobs = [v \in Worker |-> jobs[v]]
  BY DEF IInv, TypeOK
<1> QED BY <1>1, <1>3, <1>4

\* A step of one worker leaves the batches of the others alone.
LEMMA OtherBatchesStay ==
  ASSUME IInv, NEW w \in Worker,
         \/ \E empty \in SUBSET jobs[w] : CompleteEmpty(w, empty)
         \/ CompleteKept(w) \/ FailBatch(w) \/ AbandonBatch(w)
  PROVE  \A v \in Worker \ {w} : jobs'[v] = jobs[v]
<1>1. jobs = [v \in Worker |-> jobs[v]]
  BY DEF IInv, TypeOK
<1> QED BY <1>1 DEF CompleteEmpty, CompleteKept, FailBatch, AbandonBatch

\* The initial state has the types.
LEMMA TypesInitially == PoolInit => PoolTypeOK
<1> SUFFICES ASSUME PoolInit PROVE PoolTypeOK
  OBVIOUS
<1>1. \A w \in Worker : jobs[w] = {} /\ thread[w] = "checking"
  BY DEF PoolInit, Init
<1>2. running = TRUE
  BY DEF PoolInit, Init
<1> QED BY <1>1, <1>2 DEF PoolInit, PoolTypeOK, ThreadStates, WithBatch

\* The part of the types that is about the model.
ModelTypeOK ==
  /\ model \in {"none", "loaded"}
  /\ model_lock \subseteq Worker
  /\ loads \in Nat

\* A thread that moves on keeps them, if its place says what its batch is.
LEMMA MovingOnKeepsTypes ==
  ASSUME PoolTypeOK, NEW w \in Worker, NEW s \in ThreadStates, GoOn(w, s),
         s \in WithBatch <=> jobs'[w] # {},
         \A v \in Worker \ {w} : jobs'[v] = jobs[v],
         late_claims' \in [Worker -> Nat],
         ModelTypeOK',
         UNCHANGED <<running, lifespan, stop_event, unjoined>>
  PROVE  PoolTypeOK'
<1>1. thread' \in [Worker -> ThreadStates]
  BY DEF GoOn, PoolTypeOK
<1>2. ASSUME NEW v \in Worker PROVE thread'[v] \in WithBatch <=> jobs'[v] # {}
  <2>1. CASE v = w
    <3>1. thread'[w] = s
      BY DEF GoOn, PoolTypeOK
    <3> QED BY <2>1, <3>1
  <2>2. CASE v # w
    <3>1. thread'[v] = thread[v] /\ jobs'[v] = jobs[v]
      BY <2>2 DEF GoOn, PoolTypeOK
    <3> QED BY <3>1 DEF PoolTypeOK
  <2> QED BY <2>1, <2>2
<1>3. /\ lifespan' \in {"down", "serving", "stopping", "exiting"}
      /\ running' <=> lifespan' # "down"
      /\ stop_event' \in BOOLEAN
      /\ unjoined' \subseteq Worker
  BY DEF PoolTypeOK
<1> QED BY <1>1, <1>2, <1>3 DEF PoolTypeOK, ModelTypeOK

\* Every step of a thread keeps them.
LEMMA ThreadKeepsTypes ==
  ASSUME PoolTypeOK, IInv, NEW w \in Worker,
         \/ Round(w) \/ ClaimRaises(w)
         \/ ReachModel(w) \/ GetModel(w) \/ LoadRaises(w)
         \/ SettleBatch(w) \/ GiveUpBatch(w)
  PROVE  PoolTypeOK'
<1>1. CASE Check(w) \/ ClaimNothing(w) \/ WakeUp(w) \/ ClaimRaises(w)
  <2>1. PICK s \in {"ended", "claiming", "waiting", "checking"} : GoOn(w, s)
    BY <1>1 DEF Check, NextRound, ClaimNothing, WakeUp, ClaimRaises, AfterException
  <2>2. UNCHANGED <<jobs, running, lifespan, stop_event, unjoined, late_claims, embedder>>
    BY <1>1 DEF Check, ClaimNothing, WakeUp, ClaimRaises, vars
  <2>3. thread[w] \notin WithBatch /\ s \in ThreadStates /\ s \notin WithBatch
    BY <1>1, <2>1 DEF Check, ClaimNothing, WakeUp, ClaimRaises, ThreadStates, WithBatch
  <2>4. jobs[w] = {} /\ late_claims \in [Worker -> Nat] /\ ModelTypeOK'
    BY <2>2, <2>3 DEF PoolTypeOK, ModelTypeOK, embedder
  <2> QED BY <2>1, <2>2, <2>3, <2>4, MovingOnKeepsTypes
<1>2. CASE ClaimJobs(w)
  <2>1. ClaimBatch(w) /\ GoOn(w, "working")
    BY <1>2 DEF ClaimJobs
  <2>2. late_claims' \in [Worker -> Nat] /\ ModelTypeOK'
    BY <1>2 DEF ClaimJobs, PoolTypeOK, ModelTypeOK, embedder
  <2>3. UNCHANGED <<running, lifespan, stop_event, unjoined>>
    BY <1>2 DEF ClaimJobs, ClaimBatch
  <2>4. "working" \in ThreadStates /\ "working" \in WithBatch
    BY DEF ThreadStates, WithBatch
  <2> QED BY <2>1, <2>2, <2>3, <2>4, ClaimedBatchIsNotEmpty, MovingOnKeepsTypes
<1>3. CASE SettleBatch(w)
  <2>1. \/ \E empty \in SUBSET jobs[w] : CompleteEmpty(w, empty)
        \/ CompleteKept(w) \/ FailBatch(w)
    BY <1>3 DEF SettleBatch
  <2> DEFINE s == IF jobs'[w] = {} THEN "checking" ELSE "working"
  <2>2. s \in ThreadStates /\ (s \in WithBatch <=> jobs'[w] # {})
    BY DEF ThreadStates, WithBatch
  <2>3. GoOn(w, s)
    BY <1>3 DEF SettleBatch
  <2>4. UNCHANGED <<running, lifespan, stop_event, unjoined, late_claims, embedder>>
    BY <1>3, <2>1 DEF SettleBatch, CompleteEmpty, CompleteKept, FailBatch
  <2>5. late_claims \in [Worker -> Nat] /\ ModelTypeOK'
    BY <2>4 DEF PoolTypeOK, ModelTypeOK, embedder
  <2> HIDE DEF s
  <2> QED BY <2>1, <2>2, <2>3, <2>4, <2>5, OtherBatchesStay, MovingOnKeepsTypes
<1>4. CASE GiveUpBatch(w)
  <2>1. AbandonBatch(w) /\ GoOn(w, "waiting")
    BY <1>4 DEF GiveUpBatch, AfterException
  <2>2. UNCHANGED <<running, lifespan, stop_event, unjoined, late_claims, embedder>>
    BY <1>4, <2>1 DEF GiveUpBatch, AbandonBatch
  <2>3. jobs'[w] = {}
    BY <2>1 DEF AbandonBatch, IInv, TypeOK
  <2>4. /\ late_claims \in [Worker -> Nat] /\ ModelTypeOK'
        /\ "waiting" \in ThreadStates /\ "waiting" \notin WithBatch
    BY <2>2 DEF PoolTypeOK, ModelTypeOK, embedder, ThreadStates, WithBatch
  <2> QED BY <2>1, <2>2, <2>3, <2>4, OtherBatchesStay, MovingOnKeepsTypes
<1>5. CASE ReachModel(w) \/ GetModel(w) \/ LoadRaises(w)
  <2>1. PICK s \in WithBatch : GoOn(w, s)
    BY <1>5 DEF ReachModel, GetModel, LockModel, LoadModel, LoadRaises, WithBatch
  <2>2. UNCHANGED <<jobs, running>>
    BY <1>5, ModelRefines DEF vars
  <2>3. UNCHANGED <<lifespan, stop_event, unjoined, late_claims>>
    BY <1>5 DEF ReachModel, GetModel, LockModel, LoadModel, LoadRaises
  <2>4. jobs[w] # {}
    BY <1>5 DEF ReachModel, GetModel, LockModel, LoadModel, LoadRaises,
                WithBatch, PoolTypeOK
  <2>5. ModelTypeOK'
    BY <1>5 DEF ReachModel, GetModel, LockModel, LoadModel, LoadRaises,
                PoolTypeOK, ModelTypeOK, embedder
  <2>6. s \in ThreadStates /\ late_claims \in [Worker -> Nat]
    BY DEF ThreadStates, PoolTypeOK
  <2> QED BY <2>1, <2>2, <2>3, <2>4, <2>5, <2>6, MovingOnKeepsTypes
<1> QED BY <1>1, <1>2, <1>3, <1>4, <1>5 DEF Round

\* And every other step.
LEMMA PoolTypesStep == PoolTypeOK /\ IInv /\ [PoolNext]_pool_vars => PoolTypeOK'
<1> SUFFICES ASSUME PoolTypeOK, IInv, [PoolNext]_pool_vars PROVE PoolTypeOK'
  OBVIOUS
<1>1. CASE UNCHANGED pool_vars
  BY <1>1 DEF pool_vars, pool, embedder, vars, PoolTypeOK
<1>2. CASE Upload
  <2>1. UNCHANGED <<jobs, running>>
    BY <1>2 DEF Upload, CreateUpload, AppendChunk, BeginComplete, FinishComplete,
         DeleteUpload, memory
  <2> QED BY <1>2, <2>1 DEF Upload, pool, embedder, PoolTypeOK
<1>3. ASSUME NEW w \in Worker,
             \/ Round(w) \/ ClaimRaises(w)
             \/ ReachModel(w) \/ GetModel(w) \/ LoadRaises(w)
             \/ SettleBatch(w) \/ GiveUpBatch(w)
      PROVE  PoolTypeOK'
  BY <1>3, ThreadKeepsTypes
<1>4. CASE Stop \/ AllJoined \/ \E w \in Worker : JoinTimesOut(w) \/ JoinRaises(w)
  BY <1>4 DEF Stop, AllJoined, JoinTimesOut, JoinRaises, vars, embedder, PoolTypeOK
<1>5. CASE Exit \/ Kill
  <2>1. Down
    BY <1>5 DEF Exit, Kill
  <2> QED BY <2>1 DEF Down, Crash, PoolTypeOK, ThreadStates, WithBatch
<1>6. CASE Start
  <2>1. \A w \in Worker : jobs'[w] = {}
    BY <1>6 DEF Start, Recover, RecoverStuckJobs, memory, IInv, BatchesAreWhole
  <2> QED BY <1>6, <2>1
       DEF Start, Recover, RecoverStuckJobs, PoolTypeOK, ThreadStates, WithBatch,
           embedder
<1> QED BY <1>1, <1>2, <1>3, <1>4, <1>5, <1>6 DEF PoolNext, Shutdown

\* Every variable of the pool has its type: a thread is at work exactly while
\* it holds a batch, and the process runs exactly while the lifespan does.
THEOREM PoolTypes == PoolSpec => []PoolTypeOK
<1>1. PoolSpec => []IInv
  BY PoolImplementsQueue, InvariantHolds, PTL DEF ImplementsQueue
<1> QED BY <1>1, TypesInitially, PoolTypesStep, PTL DEF PoolSpec

----------------------------------------------------------------------------
(* One model *)

\* While a thread loads, it alone has the lock and there is no model.
LoadInv ==
  /\ thread = [w \in Worker |-> thread[w]]
  /\ model \in {"none", "loaded"}
  /\ loads = IF model = "loaded" THEN 1 ELSE 0
  /\ \A w \in Worker :
       /\ thread[w] = "loading" => model = "none" /\ model_lock = {w}
       /\ thread[w] = "embedding" => model = "loaded"

\* A thread that moves on without touching the model keeps it.
LEMMA MovingOnKeepsModel ==
  ASSUME NEW w \in Worker, NEW s, LoadInv, GoOn(w, s), UNCHANGED embedder,
         s # "loading", s = "embedding" => model = "loaded"
  PROVE  LoadInv'
BY DEF LoadInv, GoOn, embedder

\* Every step keeps it.
LEMMA LoadStep == LoadInv /\ [PoolNext]_pool_vars => LoadInv'
<1> SUFFICES ASSUME LoadInv, [PoolNext]_pool_vars PROVE LoadInv'
  OBVIOUS
<1>1. CASE UNCHANGED <<thread, embedder>>
  BY <1>1 DEF LoadInv, embedder
<1>2. ASSUME NEW w \in Worker,
             Round(w) \/ ClaimRaises(w) \/ SettleBatch(w) \/ GiveUpBatch(w)
      PROVE  LoadInv'
  <2>1. PICK s \in {"ended", "claiming", "waiting", "checking", "working"} : GoOn(w, s)
    BY <1>2 DEF Round, Check, NextRound, ClaimJobs, ClaimNothing, WakeUp, ClaimRaises,
                SettleBatch, GiveUpBatch, AfterException
  <2>2. UNCHANGED embedder
    BY <1>2 DEF Round, Check, ClaimJobs, ClaimNothing, WakeUp, ClaimRaises,
                SettleBatch, GiveUpBatch
  <2> QED BY <2>1, <2>2, MovingOnKeepsModel
<1>3. ASSUME NEW w \in Worker, ReachModel(w) PROVE LoadInv'
  <2>1. PICK s : /\ s = IF model = "loaded" THEN "embedding" ELSE "locking"
                 /\ GoOn(w, s)
    BY <1>3 DEF ReachModel
  <2>2. UNCHANGED embedder
    BY <1>3 DEF ReachModel
  <2> QED BY <2>1, <2>2, MovingOnKeepsModel
<1>4. ASSUME NEW w \in Worker, LockModel(w) PROVE LoadInv'
  <2>1. CASE Missing
    <3>1. /\ model_lock = {} /\ GoOn(w, "loading") /\ model_lock' = {w}
          /\ model = "none" /\ UNCHANGED <<model, loads>>
      BY <1>4, <2>1 DEF LockModel, Missing
    <3>2. \A v \in Worker : thread[v] # "loading"
      BY <3>1 DEF LoadInv
    <3> QED BY <3>1, <3>2 DEF LoadInv, GoOn
  <2>2. CASE ~Missing
    <3>1. GoOn(w, "embedding") /\ UNCHANGED embedder /\ model = "loaded"
      BY <1>4, <2>2 DEF LockModel, Missing, LoadInv, embedder
    <3> QED BY <3>1, MovingOnKeepsModel
  <2> QED BY <2>1, <2>2
<1>5. ASSUME NEW w \in Worker, LoadModel(w) \/ LoadRaises(w) PROVE LoadInv'
  <2>1. thread[w] = "loading" /\ model = "none" /\ loads = 0
    BY <1>5 DEF LoadModel, LoadRaises, LoadInv
  <2>2. \A v \in Worker \ {w} : thread[v] # "loading"
    BY <2>1 DEF LoadInv
  <2>3. CASE LoadModel(w)
    BY <2>1, <2>2, <2>3 DEF LoadModel, LoadInv, GoOn
  <2>4. CASE LoadRaises(w)
    BY <2>1, <2>2, <2>4 DEF LoadRaises, LoadInv, GoOn
  <2> QED BY <1>5, <2>3, <2>4
<1>6. CASE Exit \/ Kill
  BY <1>6 DEF Exit, Kill, Down, LoadInv
<1>7. CASE Start
  <2>1. thread' = [w \in Worker |-> "checking"] /\ UNCHANGED embedder
    BY <1>7 DEF Start
  <2> QED BY <2>1 DEF LoadInv, embedder
<1>8. CASE UNCHANGED pool_vars \/ Upload \/ Stop \/ AllJoined
           \/ \E w \in Worker : JoinTimesOut(w) \/ JoinRaises(w)
  BY <1>1, <1>8 DEF pool_vars, pool, Upload, Stop, AllJoined, JoinTimesOut, JoinRaises
<1> QED BY <1>2, <1>3, <1>4, <1>5, <1>6, <1>7, <1>8 DEF PoolNext, Shutdown, GetModel

\* However many threads find the model missing, a process loads it once, and no
\* thread embeds without it.
THEOREM ModelLoadsOnce == PoolSpec => []LoadedOnce
<1>1. PoolInit => LoadInv
  BY DEF PoolInit, LoadInv
<1>2. LoadInv => LoadedOnce
  BY DEF LoadInv, LoadedOnce
<1> QED BY <1>1, <1>2, LoadStep, PTL DEF PoolSpec
=============================================================================
