# A TLA+ development for RAG-Semantic-Search

The program takes large text files over HTTP in chunks, cuts them into passages
while they arrive, embeds the passages in background threads and answers
semantic searches from them. This directory holds TLA+ modules of its core,
the TLC configurations that check them, and theorems that the TLA+ proof system
checks. Paths of the program below are relative to `src/`.

## 1. Inventory

### Parts, their state and their operations

| Part | State | Operations | Talks to |
|---|---|---|---|
| Tables and statements (`app/db/db.py`, `app/repositories/sql/`) | `files`, `chunks` (SQLite, WAL) | one function per statement; `transaction()` is BEGIN IMMEDIATE, so writers are serial | called by the queue and the upload service |
| Job queue (`app/tasks/job_queue.py`) | none of its own: `chunks.status` and the counters in `files` | `enqueue`, `claim_batch`, `complete_batch`, `fail_batch`, `recover_stuck_jobs` | tables |
| Indexing workers (`app/tasks/worker.py`, `app/rag/pipeline.py`) | the claimed batch, in memory | claim, read, settle empty reads, embed, store, complete or fail | queue, file storage, embedder, vector store |
| Worker pool (`app/tasks/worker.py`) | list of threads, stop event | `start`, `stop` | process lifespan |
| Embedder (`app/rag/ingestion/embedder.py`) | the model, a lock | `get_model`, encode | workers, search |
| Upload service (`app/services/upload_service.py`, `app/api/v1/upload.py`) | `upload_status`, `bytes_received`, `pending_tail` in `files` | `create_upload`, `append_chunk`, `complete_upload`, `delete_upload` | tables, limiter, text check, chunker, queue, storage, vector store |
| Upload limiter (`app/services/upload/concurrency.py`) | a semaphore | enter without waiting, exit | chunk requests |
| Text check (`app/services/upload/validators.py`) | none | `looks_like_binary` | first chunk |
| Chunker (`app/rag/ingestion/chunker.py`) | byte buffer, `absolute_offset` | `feed`, `flush` | upload service |
| Passage sizing (`app/core/config.py`) | none | `passage_size_for` | `append_chunk` |
| File storage (`app/repositories/file_storage_repository.py`) | `<id>.partial`, `<id>.dat` | `append_chunk`, `truncate_to`, `finalize`, `read_range`, `delete_all` | upload service, workers, search |
| Vector store (`app/repositories/vector_repository.py`) | one Qdrant collection per file | `_ensure_collection`, `add_vectors`, `search`, `drop` | workers, search, delete |
| Search (`app/services/search_service.py`, `app/rag/retrieval/`) | none | `search` | tables, embedder, vector store, storage |
| Process (`app/main.py`) | up or down | `lifespan`: recover, start the pool, stop it | everything |

### What is hard here

* **Interleaving.** Requests run in a thread pool and the workers beside them.
  Transactions exclude each other, but the work of a batch, a completion, a
  deletion and a search goes on between transactions, on disk and in Qdrant.
* **Copies that grow old.** A worker decides on retries from the row it read at
  the claim; `readable_path` returns a name that may be renamed before it is
  opened; a completion renames a file whose row may be gone; a search reads the text
  of hits it was given earlier.
* **Crashes and partial failures.** Bytes reach the disk before their transaction
  commits; the rename is in none; a batch may be half completed when the rest
  of it raises; `fail_batch`, a claim, the load of the model may raise themselves.
* **Retries over a network.** A chunk is sent again while its first request is still
  on its way, perhaps in another size; any answer may be lost or late.
* **Shared, counted things.** Upload slots that must come back on every path, one model
  for all threads, one stop event.
* **Counting.** A file's verdict is computed from counters kept by increments in
  transactions far apart.
* **Arithmetic of positions.** The chunker's cut, overlap and final flush meet at
  boundaries: target, limit, end of buffer, inside a character. Sizes are rounded
  quotients of the declared size.

`PROJECT.json` lists each hazard at the line where it bites.

### What makes each part correct

* Queue: no passage is claimed twice, lost, or retried more often than allowed;
  sequences are dense; counters count; verdicts are final and are given.
* Upload path: acknowledged bytes are on disk in order; a completed file is
  exactly these bytes; a file under completion takes no more chunks; a deleted
  file leaves nothing behind.
* Chunk requests: slots come back; no retry doubles or skips a byte; nothing changes
  an upload that has ended; a client that goes on gets to an end.
* Workers and vectors: what is stored under a passage is the embedding of that
  passage; a passage counted as indexed can be found.
* Pool and embedder: threads survive exceptions, share one model, hear the stop; a
  restart loses nothing.
* Chunker: the passages tile the file, no passage or held-back tail exceeds the
  limit, characters are cut in one place only (section 5), each passage brings new text but for one that the flush repeats
  (section 5), and the loop ends.
* Sizing: the index of a file takes ten thirds of its budget at most. The code claims the budget itself, and does not keep it (section 5).
* Search: a hit shows the text of its passage or is left out for a reason; what was
  indexed is found.

## 2. Modules

```
LeaseQueue                      what a queue of leases promises
   |  (refined by)
SqlTables -> JobQueue           statements as operators; the queue on them
                |  (refined by)
      +---------+---------+
 UploadPipeline       WorkerPool
      |       :  (assumes)
 SearchPath   PassageStream     what cutting a file into passages promises
                 |  (refined by)
              LineBuffer  <- PassageSizing

TextCheck -> ChunkRequests      the chunk endpoint over a network
```

Modules `*_proofs` hold the theorems, modules `MC*` the instances for TLC.

**SqlTables.** A table is a function from key to row. Each function of
`file_repository.py` and `chunk_repository.py` that writes is an operator from
table to table: an UPDATE of a missing key changes nothing, a DELETE of a file
takes its chunk rows along (ON DELETE CASCADE), keys of `chunks` are never
reused (AUTOINCREMENT), and an insert skips a taken (file, sequence) pair.

**JobQueue.** One action per transaction of `job_queue.py`, with the upload
transactions that feed it. `jobs[w]` is the batch that worker `w` holds in
memory, as copies of the rows (`ChunkJob`); `emptied[w]` is the part of it that
was completed as empty reads, after which an exception still fails the whole
batch. `AbandonBatch` is a `fail_batch` that raises: the worker's loop logs it and
goes on. `Crash` empties the memory; `RecoverStuckJobs` is the recovery of the lifespan,
before which nothing else runs. `stranded` is a history variable.

**LeaseQueue** knows neither tables nor statuses: an item is queued, held by one worker, stuck until the
next restart, or settled, until it is deleted. The instance `Lease` in JobQueue reads these sets off the
tables and the batches in memory (`Held`, `HeldRows`).

**UploadPipeline.** The same system one level down: a step is one transaction,
one call of the file system or one call of Qdrant. `/complete` is four steps
(flush and mark finalizing, look for the `.dat`, rename, mark completed), DELETE four
(rows, `.partial`, `.dat`, collection), a worker's batch one step for each look and
each open of each passage, and then settle, ensure, create, upsert,
complete. `append_chunk` is one step because it holds the write lock from its
first read to its commit; `PutChunkFails` is the same call with a commit that does
not happen. A byte is named by its offset, so "the right text" is an equation
between sequences of offsets. Every step here is a step of JobQueue or leaves its
variables alone, and that is proved.

**SearchPath** adds searches to UploadPipeline: the row, `collection_exists`, `query_points`, and for
each hit the looks and the open of `read_range` with its one retry. Which points are nearest is left open.
`CallFails`: the embedding of the query and either call of Qdrant may raise for a living file too. Such a search ends
in a step `failed` of its own, so that `raised` is left for a collection or a file that was not there.
`promised` and `was_final` record what the search could count on when it began.

**WorkerPool** composes the queue with the threads that drain it: where `run()` of each worker is, the stop
event, the joins of `stop()`, the states of the lifespan. `get_model` is in it as well, with the
look before the lock, the look under it, the load and its failure: a thread with a batch is
`working` until it needs the model, then `locking`, `loading`, `embedding`, or `raised`. A search calls `get_model` as well,
from its request thread; these threads are not in the module, but `LoadedOnce` is proved for any number of threads.
`IndexingWorker` keeps the stop event in an attribute `_stop`, the name of the method with which
CPython 3.11 marks a thread as ended, so a join of an ended thread raises (`JoinRaises`).

**PassageStream** says in three actions what the upload path needs of the
chunker: bytes arrive, a passage begins where the held-back bytes begin and
the next ones begin later and within it, and in the end nothing is held back.
`Fed` and `Flushed` of UploadPipeline allow what PassageStream allows, any number of overlapping passages per call (`CutsOf`);
beyond it, `Flushed` knows that only the last passage of a flush ends the file.

**LineBuffer** is `chunker.py` with one action per round of the loop in `_drain`.
The buffer is an interval of the file, `[offset, fed)`. `FindCut`, `SafeSplitPoint` and
`OverlapSize` are the functions of the code with their searches written as minima and maxima over
sets of positions. Two sets of sizes are in use, as in the code:
`append_chunk` feeds with `passage_size_for(total_size)`, `complete_upload` flushes
with the defaults. **PassageSizing** is `passage_size_for`, its floating-point
quotients taken as exact ones, of which only the integer parts are used.

**ChunkRequests** is the chunk endpoint with its clients and the network between them. A request
is on the network, in the handler waiting for its body with a slot taken, or an answer on its way. Once a
body is there, `append_chunk` runs without an `await` in a coroutine, so it is one step, with its refusals in their order
and with a failure after any part of the write. A client resumes where the last answer it
received, or GET /status, tells it to; it may time out while its request lives on. What the other
endpoints do in single steps is UploadPipeline's subject. **TextCheck** is `looks_like_binary` over
classes of bytes, failure by failure of the decoder, beside a definition of what it should count.

Beside some operators stands a variant with a plausible mistake in it
(`RetryableOffByOne`, `TruncateNothing`, `SlotKept`, ...). No specification uses
them. `PROJECT.json` pairs each checked property with one: with the variant in
place of the original, TLC finds the property violated, so the property does
depend on that code.

## 3. Runs

| Run | States | What it shows |
|---|---|---|
| `Queue` | 38,457 | two workers, two files, two passages, a crash, a raising `fail_batch`: exclusive claims, fresh copies, nothing lost, retry budget, dense sequences; of the file whose reads are never empty exact counters and right verdicts, of the other (`CanReadEmpty`) a counter of indexed passages that is never too small; the queue implements LeaseQueue; and with fair workers and restarts each queued passage is settled, and an upload completed with work outstanding is reported, unless a raising `fail_batch` stranded a row |
| `UploadSafety` | 742,932 | disk, requests, workers and Qdrant with orderly clients, rolled-back writes and a crash |
| `Search` | 705,462 | a search beside two requests of clients that do anything in any order and a worker, no crash: hits show their text, are left out only for a reason, one retry suffices, what was indexed is found, also when calls of Qdrant or of the embedder raise; `finalizing` keeps chunk and completion requests apart |
| `PoolShutdown` | 94,214 | two threads, an exception in a claim, a load or a `fail_batch`, a shutdown or a kill, and the start after it: one model, one batch after the stop at most, threads that go on, a process that goes down, and a queue that sees a crash and a recovery |
| `ChunkRequests` | 122,499 | two clients and one slot with two faults among time-outs, lost connections and answers, failed appends, useless chunks, deletions and restarts: slots, stored bytes, the text check, and an end for every upload |
| `LineBufferSafety` | 17,438 | files of up to 64 bytes with line breaks and multi-byte characters at the critical places, in pieces of 1, 15 and 44 bytes, with default, scaled and largest passage sizes: tiling, limits, characters, which ends may repeat, and how many vectors a file can get |

The runs that look for a counterexample are listed with the findings below.

**Bounds.** `MaxChunkId` bounds the rows ever inserted, `MaxPassages` those cut by one
call, `MaxCrashes`, `MaxDbFaults`, `MaxThreadFaults` and `MaxFaults` the faults; `MAX_FILE_BYTES` is 1 to 3.
Two rows with a claim size of two give a full batch, a partial one and two
workers on one file, the second row being added while the first is claimed; two retries give a retry and a giving up; two
files make the order of claims matter. What `Queue` checks of safety is proved for any number of rows (section 4); its bounds are kept
low for the liveness. A file of two bytes
can be sent whole, in two pieces, or with a lost piece between, and cut into one or two
passages; two request threads give the two overlapping completions or a
completion against a deletion. One crash is enough for each recovery, because
recovery forgets how often it ran. PoolShutdown has one attempt per passage, two passages and one fault of each
kind: retries are the queue's subject, and two threads with two passages can miss the model at the same time. In ChunkRequests
the first client's file is one of five that a chunk may end inside a character of, that is too large, or that
turns binary at once or later; the second client competes for the slot; a timeout and one
more fault make a retry race its original. One stray byte in two makes its samples binary where the code has one in twenty.
In LineBuffer the sizes are the defaults divided by 40 and a target of 15 is the least that `SizingAssumption` allows: the overlap must reach the start of a character, three bytes
back, and be a fifth of the target at most. One of the texts (`EarlyLines`) has its line breaks where pieces of 15 bytes cut early at almost every piece. The declared sizes lie below, just above and far above the threshold for larger passages.
The systems stop when the bounds are used up, and a
finished upload needs no further step, so deadlock is not an error in any run.

**Symmetry.** Workers and request threads are interchangeable in the
runs `UploadSafety` and `Search`, which have safety properties only: the code orders batches by row key, never by their names. The other runs use no symmetry.

**Fairness.** `FairSpec` of JobQueue is weakly fair for each worker, whose thread loops until the process ends
(`worker.py:41-57`), and for recovery: `restart: unless-stopped` in
`docker-compose.yml` brings the process back and the lifespan begins with it. Clients owe nothing: no
fairness for uploads, completions or deletions. A row whose `fail_batch` raised waits for the next restart, and nothing brings one
about while the process is well, so `QueueDrains` and `LateWorkIsReported` exempt rows that are `stranded`. `FairPool` is weakly fair for each round of a thread without a batch, for a thread that takes the lock of
the model or loads it, for the joins, which time out after ten seconds, for the exit of a process with nothing left to do, and for the start; a batch may take for ever.
In ChunkRequests the event loop runs every handler that can go on, and answers arrive or their
connection breaks. Two of its assumptions are about the world, not the code: a body arrives or its connection breaks (nothing bounds the wait for it),
and a client goes on with its upload (strong fairness for `Send`, since the requests in flight may be
all in use now and then). Useless chunks are faults and so finitely many: the limiter has no queue, and a client that sends them for ever could hold the
only slot whenever another client asks for it. In LineBuffer no fairness is needed: that each cut moves on, so that the loop of `_drain` ends, is part of `ImplementsStream`.

## 4. Proofs

All are checked for every number of files, workers, passages, retries, slots, clients, crashes
and faults, from the assumptions named in the modules (`ClaimAssumption`, `RetryAssumption`,
`ReadAssumption`, `BoundAssumption`, `SizeAssumption`, `OrderlyAssumption`,
`PassageAssumption`, `TopAssumption`, `ThreadFaultAssumption`, `SizingAssumption`, `TextsAssumption`, `TotalAssumption`,
`ChunkAssumption`, `LimiterAssumption`, `ContentsAssumption`, `SampleAssumption`), each of which TLC evaluates in the runs.

**JobQueue_proofs.** `InvariantHolds` proves `IInv`; the other theorems are its
parts. None of the parts is inductive alone. The retry budget needs that the copied
`retry_count` is the row's, hence `JobsMirrorRows`; a copy stays right only because nobody else
updates the row, hence `ClaimsAreExclusive`; a claim is exclusive only because a held row
is not pending, hence the status in `JobsMirrorRows`, and because recovery, which
makes held rows pending again, finds no batch in memory (`BatchesAreWhole`). After a deletion a copy could
match a new row: that keys continue from `last_chunk_id` and `RowsHaveFiles` excludes it. Lemmas first say what each
statement keeps of a table, then one lemma per action shows `IInv'`.
`CountersAreRight` and `VerdictsAreRight` rest on `CountersInv`, which is inductive beside `IInv`. A counter is moved by a batch in one
transaction and some of its rows perhaps in an earlier one, so the invariant is about what a batch in memory may still be
counted for: its rows belong to one file and, unless that file was deleted or can be read empty, none of them was completed
before the rest (`BatchesOfOneFile`). With it each statement moves a counter by the cardinality of the rows it moves from one status to another,
and `DenseRowsAreCounted` turns dense sequences into the number of rows, which the verdict compares with.

**LeaseQueue_proofs.** `QueueImplementsLease`: from `IInv`, each action of the queue is the action of
LeaseQueue it stands for, under the mapping of the instance `Lease`. One lemma says which rows a statement moves from one of the
sets to another, and one lemma per action puts the sets together.

**UploadPipeline_proofs.** `PipelineImplementsQueue` shows that a behaviour of the
pipeline is a behaviour of the queue, under the identity mapping. Most steps
leave the queue's variables alone; the ones that do not are queue actions with more conjuncts. The invariant
`OffsetsAndRequests` gives that offsets stay in their ranges and that a request refers to a file. With it the
queue's theorems carry over; `PipelineLosesNothing` is stated as the example. `FilesInvariant` then says what each step of a completion and of a deletion relies on:
between its two transactions a completion finds its file sealed, and a deletion that has unlinked a name does not see it come
back, because the row is gone and every step that creates a name needs the row or the other name. `FinalizingIsKept` and `DeletedBytesStayGone` follow, for any clients and with crashes.

Four more invariants say what bytes, passages and vectors are, each proved from those before it.
* `DiskInv`: each living file with acknowledged bytes has exactly one copy on disk, and the copy is a
  beginning of the client's file that reaches at least as far as `bytes_received`; it may reach further, after a write that was
  rolled back. Once there is a `.dat`, nothing is written any more, and a completion that is about to mark the file completed has one.
  `CommittedBytesStay` and `CompletedFilesAreWhole` follow.
* `PassagesInv`: no passage of a row or of a job lies beyond `bytes_received`.
* `HandsInv`: what a worker has done at each step of a batch. It completes no part while it reads, stores only
  what it read and found not empty, and after the upsert each remaining job has its point, unless its file was deleted. `IndexIsComplete` follows, with no
  assumption on clients or crashes.
* `VectorsInv`: a text in a worker's memory is that of its passage, and each point is of a row of its file as long as that is there. `CommittedText` joins
  `DiskInv` and `PassagesInv`: whichever name `read_range` opens, it finds the whole of a committed passage.

`DiskInv`, and with it the theorems on bytes and texts, has the hypothesis `Whole == Orderly \/ MaxCrashes = 0`, and `CompletedFilesAreWhole` has
`Orderly`. Both are needed. Recovery turns `finalizing` back into `uploading`, also after the rename, and `append_chunk`
then accepts a chunk that goes to a new `.partial` beside the `.dat`; TLC shows
with `Orderly = FALSE` and one crash that acknowledged bytes are then not in the file that is read, and with three bytes and a rolled-back write a vector of half a passage.
The client has to send a chunk after it called `/complete` for that. The instances of `UploadSafety` (orderly, a crash) and
`Search` (anything, no crash) are the two sides of `Whole`.

**SearchPath_proofs.** A search only reads, so every theorem of the pipeline holds beside searches (the lemma
`SearchImplementsUpload`). `OneRetrySuffices` needs `SearchInv`, which says what a search knows about where the file is:
after it saw no `.dat` once and failed to open the `.partial`, the file is a `.dat` or deleted, and stays so. It speaks of searches
that want for a collection or a file, not of those that a call of Qdrant or of the embedder ended.
`SearchMissesNothing` needs `FoundInv`: while the file lives, what was indexed when the search began stays in the collection, because
only a deletion drops it and an upsert replaces a point by one of the same number; Qdrant returns fewer than `top_k` hits only if
there are no more. `HitsAreTheirText` and `LeftOutHitsAreGone` need `ShownInv`: hits are of committed passages, so that `CommittedText` applies
to what a search opens as well, and an empty read means that the file was not a `.dat` when the search began and is one now.

**WorkerPool_proofs.** `PoolImplementsQueue` is a step-by-step simulation. `StopIsHeard` rests on `LateInv`: a thread about to claim
after the stop saw the event unset and has claimed nothing since. `PoolTypes` ties the place of each thread to the batch it holds.
`ModelLoadsOnce` rests on `LoadInv`: while a thread loads, it alone has the lock and there is no model.

**ChunkRequests_proofs.** `RequestsInvariant` proves `RInv`. The slot equation is kept because each step changes the set of
requests that await their body by one element or not at all, and the free slots accordingly. That a client never skips ahead needs more than the property:
an answer that names an offset names one the server has reached, unless the file is deleted, and then its client has stopped (`GoodRequest`, `GoodClient`).

The text check is in the same module. Its loop is a recursive function, and the induction theorems of the library are out of
reach, so two steps replace them. `DecoderExists`: the function exists. If from some place on there were no values that obey the recursion, there
would be a last such place (`LastOf`, from the well-foundedness of `<`), but what the decoder does there depends on places
behind it only. `CountedFrom`: a last place that no character reaches and from which the count is wrong is refuted in the same way, with `DecoderSteps` as the
step. So `DecoderCountsStrayBytes` and `VerdictIsRight` hold of every sample. `BinaryIsKeptOut` is then
inductive beside `RInv`: of a file of which every beginning is binary only an empty chunk passes, and an append that fails part-way was not refused before.
`OnlyCutTextIsRefused` follows from `RInv` alone: what is stray in a beginning of a text lies behind its last boundary (`StrayIsCutOff`),
because a character that is whole in the beginning is one there and no two characters share a byte.

**PassageSizing_proofs, LineBuffer_proofs.** The sizes first: rounded quotients with products of constants, which need lemmas on division and products,
since the solver's arithmetic is linear. Then two lemmas carry the chunker. `CutInBuffer`: a cut is a position in the buffer, within the limit, and at least six unless
it takes the whole buffer; without a cut the buffer is short, and at the flush empty. `OverlapInCut`: less than the passage is
carried back. The alignment searches up to three bytes to the right, so this needs an overlap of three or a cut at the
end of the buffer, where the search stops: that is why `CutInBuffer` speaks of six. `EmitPositions` turns both into what a round does to the positions,
and from there the invariant, `PassageStream` and the action properties follow by
arithmetic. `RepeatsAreOfTheFlush` is one of these: an end is repeated only from an overlap that a feed left, and `BufferMovesOn`
says how long that can be. `IndexIsBounded` counts passages: each is cut at half the target at the earliest and gives back a fifth of the target at most, so
it moves the start of the buffer by three tenths (`CutsAddUp`, part of `IInv`), and the target is at least the declared size divided by the vectors the budget allows. That minima and maxima of sets of numbers exist comes from the well-foundedness of `<`.
`NoCharacterIsCut` assumes that the files are `WellFormed` (MCLineBuffer asserts it of the texts of the run). Its invariant is that the buffer begins with a character. A cut is
behind a line break, which no continuation follows, or among four positions in a row, one of which is a boundary; the alignment of the overlap
looks at four positions as well, and when it runs into the end of the buffer, the three before it are continuations, so that the fourth is none.

**Types.** `TypeOK` of JobQueue, ChunkRequests and LineBuffer, `PoolTypeOK`, `UploadTypeOK` and `SearchTypeOK` are proved; the run `Search` checks
the types of JobQueue, UploadPipeline and SearchPath together. For the pipeline this needs `NamesInv`, that names on disk are of files that had a
row and that an idle request has no fields left. `SizesGrowWithTheFile`, that a larger file
never gets smaller passages, is a theorem only.

**Only model-checked.** Liveness (`QueueDrains`, `LateWorkIsReported`, `WorkersGoOn`, `ShutdownEnds`, `UploadsEnd`),
which is out of the prover's reach: it needs ENABLED of the fair actions. Every invariant and action property that a passing run checks is a
theorem, and so is each refinement.

## 5. Findings

Each is a run that TLC ends with a counterexample to what a comment, a schema or a docstring says.

| Run | Property | What happens |
|---|---|---|
| `QueueReporting` | `EveryUploadIsReported` | the last passage is settled before the upload is marked completed; nobody moves the file to a terminal state any more |
| `QueueProgressRange` | `ProgressIsAFraction` | a batch split by an empty read fails whole; its empty jobs count twice and progress exceeds 1 |
| `UploadRenameRead` | `EmptyReadMeansDeleted` | the two looks of `readable_path` enclose the rename: a passage of a living file is completed without a vector |
| `UploadDeleteRace` | `NoOrphanVectors` | a worker with a batch in memory creates the dropped collection again |
| `PoolStop` | `StopWaitsForBatches` | the join of a thread that has ended raises out of `stop()`; the process exits while another thread, not joined, holds a batch |
| `LineBufferRepeat` | `EndsAreDistinct` | the last feed cuts at the last byte of the file; the flush finds the overlap of that passage and emits it again, a short passage with the same end |

The passing runs state what holds nevertheless. By `HitsLeftOutAreGone` a search
leaves out the text of a living file only when the file was renamed after the search began. An orderly client (`Orderly`: it repeats what was not acknowledged and sends nothing
after `/complete`) always gets a whole file; one that goes straight to `/complete` after a chunk was rolled back gets
the rolled-back bytes in its file, since only `append_chunk` trims. `FinalizingHolds` keeps chunks out of a
file under completion for clients that send anything at any time.

Of the chunker, `OnlyTheFlushRepeats` says what `EndsAreDistinct` leaves: a feed never repeats an end. With equal sizes the flush does so in the case
of `LineBufferRepeat` and only once. With larger feed sizes it cuts the longer overlap they left into several passages of the default sizes, all of them within
the last one of the feeds. The repeat costs a vector and is a short passage of the kind that, by the comment at `chunker.py:95-99`,
scores misleadingly high; no byte is lost. `CharactersStayWhole` carries another exception that the chunker's tests do not reach: a buffer filled to `max_bytes`
exactly is cut where it ends, inside a character or not. The comment at `chunker.py:155`, "Splitting at the very end can't bisect a character", does not
hold there, since the rest of the character comes with the next chunk.

**The index budget is not kept.** `passage_size_for` picks the target "to keep each file's index inside INDEX_MEMORY_BUDGET_BYTES" (`config.py:88-91`),
and the README promises "any *one* file's quantized footprint under 1 GB regardless of its size" (`README.md:160-163`). It reckons with passages that reach the target. A chunk that ends before
the target has a break to cut at may be cut at its last line break from half the target on (`chunker.py:129-131`), and every end of a chunk allows one such cut. Chunks about as long as a
passage therefore give strides of about 0.3 of the target instead of 0.8. In `LineBufferSafety` the text `EarlyLines`, declared truly with 48 bytes and sent in pieces of 15, gets six
vectors where the budget has room for four. `IndexIsTenThirdsAtMost` is the bound that the code does keep, and `IndexIsBounded` proves it for all constants: ten thirds of the budget,
for a file that has come no further than its declared size and of which the target is below its ceiling. Beyond its declared size, which `append_chunk` allows, or at the ceiling, the index grows with the file.

`TextIsRefusedOnlyIfCut` says when a text is refused as binary: when its first chunk is so short that the bytes of the one character it cuts are too many.

## 6. Not modelled

* The contents of rows that decide nothing: names, timestamps, error texts. Read-only listings.
* Owners: `get_owned` answers 404 for a file of somebody else, as for one that is not there.
* Qdrant and the embedding model are external. Any call of them may raise (`Fail`), also after it took effect.
* `truncate_to` beyond the trimming: it opens, cuts and closes inside the write lock.
* Request threads in `get_model`: see WorkerPool.
* Memory: that a body is read whole before its size is checked has no counterpart in ChunkRequests.
* The event loop blocked by `append_chunk`, which runs in it without an `await`: only its exclusion of other chunk requests is modelled.
* The narrower ranges that UTF-8 allows after the leads E0, ED, F0 and F4, in TextCheck.
* Rounding of floating point in `passage_size_for`: quotients are exact in PassageSizing.
* Two processes on one database: the Dockerfile runs one.
* Schemas, error handlers (but for their codes), logging, the test client script: no state.

## 7. Plan

Done, in this order: `SqlTables` and `JobQueue` with the inductive invariant; `UploadPipeline` over it, with the refinement; `PassageStream` and `LineBuffer`;
`PassageSizing`, linked to LineBuffer; `SearchPath`; `WorkerPool` with the embedder; `LeaseQueue`; `TextCheck` and `ChunkRequests`; the proofs of section 4.

Left:

1. The two halves of an upload joined: that `PutChunk` of UploadPipeline and `AppendChunk` of ChunkRequests are the same step, by a mapping of clients to
   files, so that the theorems on retries carry over to the pipeline.
2. The theorems of the queue restated, where they are used, for the pipeline and the pool beyond `NothingIsLost` and `ClaimsAreExclusive`.
