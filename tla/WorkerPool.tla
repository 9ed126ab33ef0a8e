------------------------------ MODULE WorkerPool ------------------------------
(***************************************************************************)
(* The life of the indexing threads: WorkerPool and IndexingWorker.run of  *)
(* app/tasks/worker.py, started and stopped by the lifespan of             *)
(* app/main.py, around the queue of module JobQueue.                       *)
(*                                                                         *)
(* A thread looks at the stop event only between two batches.  stop() sets *)
(* the event and joins the threads one after the other, each for ten       *)
(* seconds at most.  IndexingWorker keeps the event in an attribute _stop, *)
(* the name of the method with which CPython 3.11 (the image of the        *)
(* Dockerfile) marks a thread as ended: joining a thread that has ended    *)
(* calls the event and raises a TypeError; joining one that still runs     *)
(* times out and returns.                                                  *)
(***************************************************************************)
EXTENDS JobQueue

CONSTANT MaxThreadFaults   \* bound: times claim_batch, or the load of the model, raises

ASSUME ThreadFaultAssumption == MaxThreadFaults \in Nat

VARIABLES
  lifespan,      \* of the application: "down", "serving", "stopping", "exiting"
  stop_event,    \* WorkerPool._stop
  thread,        \* thread[w]: where run() of worker w is
  unjoined,      \* the workers that stop() has not joined yet
  late_claims,   \* history: batches w claimed since stop() was called
  thread_faults, \* times claim_batch, or the load of the model, has raised
  model,         \* embedder._model: "none" or "loaded"
  model_lock,    \* embedder._model_lock: the thread that holds it, if one does
  loads          \* history: loads of the model in this process

embedder == <<model, model_lock, loads>>
pool == <<lifespan, stop_event, thread, unjoined, late_claims, thread_faults, embedder>>
pool_vars == <<vars, pool>>

WithBatch == {"working", "locking", "loading", "embedding", "raised"}
ThreadStates == {"down", "checking", "claiming", "waiting", "ended"} \cup WithBatch

PoolInit ==
  /\ Init
  /\ lifespan = "serving"
  /\ stop_event = FALSE
  /\ thread = [w \in Worker |-> "checking"]
  /\ unjoined = {}
  /\ late_claims = [w \in Worker |-> 0]
  /\ thread_faults = 0
  /\ model = "none"
  /\ model_lock = {}
  /\ loads = 0

----------------------------------------------------------------------------
(* IndexingWorker.run *)

GoOn(w, s) == thread' = [thread EXCEPT ![w] = s]

CheckNothing(w) == "claiming"

\* while not self._stop.is_set()
NextRound(w) == IF stop_event THEN "ended" ELSE "claiming"

Check(w) ==
  /\ thread[w] = "checking"
  /\ GoOn(w, NextRound(w))
  /\ UNCHANGED <<vars, lifespan, stop_event, unjoined, late_claims, thread_faults, embedder>>

ClaimJobs(w) ==
  /\ thread[w] = "claiming"
  /\ ClaimBatch(w)
  /\ GoOn(w, "working")
  /\ late_claims' = [late_claims EXCEPT ![w] = IF stop_event THEN @ + 1 ELSE @]
  /\ UNCHANGED <<lifespan, stop_event, unjoined, thread_faults, embedder>>

ClaimNothing(w) ==
  /\ thread[w] = "claiming"
  /\ WithStatus(chunks, "pending") = {}
  /\ GoOn(w, "waiting")
  /\ UNCHANGED <<vars, lifespan, stop_event, unjoined, late_claims, thread_faults, embedder>>

Dies == "ended"

\* An exception that _process_one_batch lets out is logged, and the thread waits
\* as if the queue were empty.
AfterException == "waiting"

ClaimRaises(w) ==
  /\ thread[w] = "claiming"
  /\ thread_faults < MaxThreadFaults
  /\ thread_faults' = thread_faults + 1
  /\ GoOn(w, AfterException)
  /\ UNCHANGED <<vars, lifespan, stop_event, unjoined, late_claims, embedder>>

----------------------------------------------------------------------------
(* _process_one_batch, after the claim *)

\* ingest_batch embeds with one model for all threads: get_model looks whether
\* it is there, and if not again under the lock.
ReachModel(w) ==
  /\ thread[w] = "working"
  /\ GoOn(w, IF model = "loaded" THEN "embedding" ELSE "locking")
  /\ UNCHANGED <<vars, lifespan, stop_event, unjoined, late_claims, thread_faults, embedder>>

MissingBefore == TRUE
Missing == model = "none"

LockModel(w) ==
  /\ thread[w] = "locking"
  /\ model_lock = {}
  /\ IF Missing
     THEN GoOn(w, "loading") /\ model_lock' = {w}
     ELSE GoOn(w, "embedding") /\ UNCHANGED model_lock
  /\ UNCHANGED <<vars, lifespan, stop_event, unjoined, late_claims, thread_faults,
                 model, loads>>

LoadModel(w) ==
  /\ thread[w] = "loading"
  /\ model' = "loaded"
  /\ loads' = loads + 1
  /\ model_lock' = {}
  /\ GoOn(w, "embedding")
  /\ UNCHANGED <<vars, lifespan, stop_event, unjoined, late_claims, thread_faults>>

\* No weights on disk and no network, or too little memory: `with` gives the lock
\* back.
LoadRaises(w) ==
  /\ thread[w] = "loading"
  /\ thread_faults < MaxThreadFaults
  /\ thread_faults' = thread_faults + 1
  /\ model_lock' = {}
  /\ GoOn(w, "raised")
  /\ UNCHANGED <<vars, lifespan, stop_event, unjoined, late_claims, model, loads>>

GetModel(w) == LockModel(w) \/ LoadModel(w)

\* The batch is settled as in JobQueue, and then the thread turns to the next
\* without waiting: what could not be read first, the rest when it is stored.
\* An exception may come from the reads, the load, the model or Qdrant.
SettleBatch(w) ==
  /\ \/ thread[w] = "working" /\ \E empty \in SUBSET jobs[w] : CompleteEmpty(w, empty)
     \/ thread[w] = "embedding" /\ CompleteKept(w)
     \/ thread[w] \in {"working", "embedding", "raised"} /\ FailBatch(w)
  /\ GoOn(w, IF jobs'[w] = {} THEN "checking" ELSE "working")
  /\ UNCHANGED <<lifespan, stop_event, unjoined, late_claims, thread_faults, embedder>>

GiveUpBatch(w) ==
  /\ thread[w] \in {"working", "embedding", "raised"}
  /\ AbandonBatch(w)
  /\ GoOn(w, AfterException)
  /\ UNCHANGED <<lifespan, stop_event, unjoined, late_claims, thread_faults, embedder>>

\* self._stop.wait(WORKER_POLL_SECONDS), by time or by the event.
WakeUp(w) ==
  /\ thread[w] = "waiting"
  /\ GoOn(w, "checking")
  /\ UNCHANGED <<vars, lifespan, stop_event, unjoined, late_claims, thread_faults, embedder>>

Round(w) == Check(w) \/ ClaimJobs(w) \/ ClaimNothing(w) \/ WakeUp(w)

----------------------------------------------------------------------------
(* The lifespan *)

\* WorkerPool.stop: the event, and then the joins.  It ends the process, so the
\* bound on that is kept here.
Stop ==
  /\ lifespan = "serving"
  /\ crashes < MaxCrashes
  /\ lifespan' = "stopping"
  /\ stop_event' = TRUE
  /\ unjoined' = Worker
  /\ UNCHANGED <<vars, thread, late_claims, thread_faults, embedder>>

NeverJoined(w) == FALSE

\* join returns after its timeout.  The threads are alike, so the order of the
\* list is left open.
JoinTimesOut(w) ==
  /\ lifespan = "stopping"
  /\ w \in unjoined
  /\ thread[w] # "ended"
  /\ unjoined' = unjoined \ {w}
  /\ UNCHANGED <<vars, lifespan, stop_event, thread, late_claims, thread_faults, embedder>>

\* join finds the thread ended and raises, out of stop() and of the lifespan.
JoinRaises(w) ==
  /\ lifespan = "stopping"
  /\ w \in unjoined
  /\ thread[w] = "ended"
  /\ unjoined' = unjoined \ {w}
  /\ lifespan' = "exiting"
  /\ UNCHANGED <<vars, stop_event, thread, late_claims, thread_faults, embedder>>

AllJoined ==
  /\ lifespan = "stopping"
  /\ unjoined = {}
  /\ lifespan' = "exiting"
  /\ UNCHANGED <<vars, stop_event, thread, unjoined, late_claims, thread_faults, embedder>>

\* The process ends, by itself or by a kill: the threads are daemons, nothing
\* waits for them.
Down ==
  /\ Crash
  /\ lifespan' = "down"
  /\ thread' = [w \in Worker |-> "down"]
  /\ model' = "none"
  /\ model_lock' = {}
  /\ loads' = 0
  /\ UNCHANGED <<stop_event, unjoined, late_claims, thread_faults>>

Exit == lifespan = "exiting" /\ Down
Kill == lifespan # "exiting" /\ Down

StartWithoutRecovery ==
  /\ lifespan = "down"
  /\ running' = TRUE
  /\ UNCHANGED <<tables, used_ids, memory, faults>>

RecoverLate == lifespan = "down" /\ UNCHANGED vars

\* recover_stuck_jobs comes before start_workers; without Qdrant the lifespan
\* raises before either, and the container starts again.
Recover == lifespan = "down" /\ RecoverStuckJobs

Start ==
  /\ Recover
  /\ lifespan' = "serving"
  /\ stop_event' = FALSE
  /\ thread' = [w \in Worker |-> "checking"]
  /\ unjoined' = {}
  /\ late_claims' = [w \in Worker |-> 0]
  /\ UNCHANGED <<thread_faults, embedder>>

\* Requests are served between the start and the stop of the lifespan only.
Upload ==
  /\ lifespan = "serving"
  /\ \E f \in FileId :
       \/ CreateUpload(f)
       \/ \E passages \in Passages : AppendChunk(f, passages)
       \/ \E passages \in Passages : BeginComplete(f, passages)
       \/ FinishComplete(f)
       \/ DeleteUpload(f)
  /\ UNCHANGED pool

Shutdown == AllJoined \/ Exit \/ \E w \in Worker : JoinTimesOut(w) \/ JoinRaises(w)

PoolNext ==
  \/ Upload
  \/ \E w \in Worker :
       \/ Round(w) \/ ClaimRaises(w)
       \/ ReachModel(w) \/ GetModel(w) \/ LoadRaises(w)
       \/ SettleBatch(w) \/ GiveUpBatch(w)
  \/ Stop
  \/ Shutdown
  \/ Kill
  \/ Start

PoolSpec == PoolInit /\ [][PoolNext]_pool_vars

\* Threads go round, joins return, the process that has nothing left to do
\* exits, and the container is started again.  A batch may take for ever.
FairPool ==
  /\ PoolSpec
  /\ \A w \in Worker : WF_pool_vars(Round(w)) /\ WF_pool_vars(GetModel(w))
  /\ WF_pool_vars(Shutdown)
  /\ WF_pool_vars(Start)
----------------------------------------------------------------------------
(* Properties *)

\* Every variable holds a value of its type, and a thread has a batch exactly
\* while it is at work.
PoolTypeOK ==
  /\ lifespan \in {"down", "serving", "stopping", "exiting"}
  /\ running <=> lifespan # "down"
  /\ stop_event \in BOOLEAN
  /\ thread \in [Worker -> ThreadStates]
  /\ unjoined \subseteq Worker
  /\ late_claims \in [Worker -> Nat]
  /\ \A w \in Worker : thread[w] \in WithBatch <=> jobs[w] # {}
  /\ model \in {"none", "loaded"}
  /\ model_lock \subseteq Worker
  /\ loads \in Nat

\* "A worker must never die: the queue would silently stop draining and uploads
\* would appear to hang forever" (run): a worker without a batch takes up what
\* is queued, whatever was raised before, unless the server stops; and a load
\* that raises leaves nobody waiting for the lock of the model.
Idle(w) == lifespan = "serving" /\ jobs[w] = {} /\ WithStatus(chunks, "pending") # {}
Busy(w) ==
  jobs[w] # {} \/ WithStatus(chunks, "pending") = {} \/ lifespan # "serving"
WorkersGoOn ==
  \A w \in Worker :
    /\ Idle(w) ~> Busy(w)
    /\ thread[w] = "locking" ~> thread[w] # "locking"

\* "The model is loaded once and shared by every worker" (embedder.py), however
\* many of them find it missing at the same time, and it is there for the one
\* that embeds.
LoadedOnce ==
  /\ loads <= 1
  /\ \A w \in Worker : thread[w] = "embedding" => model = "loaded"

\* "Stay responsive to shutdown" (run): a thread that saw the event unset just
\* before stop() claims one more batch, and no second.
OneBatchAfterStop == \A w \in Worker : late_claims[w] <= 1

\* stop() comes back, and the process is down, however long a batch takes.
ShutdownEnds == lifespan = "stopping" ~> lifespan = "down"

\* Shutdown and restart are no more to the queue than a crash and a recovery:
\* "nothing is lost even on a hard kill" (WorkerPool.stop).
ImplementsQueue == Spec

\* "Signal shutdown and wait for workers to finish their current batch"
\* (app/tasks/worker.py:127): a worker that stop() did not wait for has no batch
\* in hand when the process exits.
StopWaitsForBatches == lifespan = "exiting" => \A w \in unjoined : jobs[w] = {}
=============================================================================
