--------------------------- MODULE ChunkRequests ---------------------------
(***************************************************************************)
(* PUT /files/{file_id}/chunk (upload_chunk of app/api/v1/upload.py) over a *)
(* network: the slots of the upload limiter, bodies that arrive slowly or  *)
(* not at all, answers that are lost, clients that time out and try again  *)
(* while the first request is still on its way.                            *)
(*                                                                         *)
(* upload_chunk is a coroutine and append_chunk is called in it without an *)
(* await: between the last byte of a body and the return of the slot no    *)
(* other chunk request runs.  The steps of that call on disk and database, *)
(* and what the other endpoints do meanwhile, are those of UploadPipeline; *)
(* here it is one step with all of its refusals.                           *)
(*                                                                         *)
(* A client uploads one file.  It follows the answers as README section 2  *)
(* describes: it resumes where a 200, a 409 or GET /status tells it to.    *)
(***************************************************************************)
EXTENDS TextCheck

CONSTANTS
  Client,
  Request,                  \* bound: chunk requests on their way at a time
  Nobody,                   \* no request
  Contents,                 \* the files the clients may have: functions on Client
  MAX_CONCURRENT_UPLOADS,   \* config.MAX_CONCURRENT_UPLOADS
  MAX_CHUNK_BYTES,          \* config.MAX_CHUNK_BYTES
  MAX_FILE_BYTES,           \* config.MAX_FILE_BYTES
  MaxFaults                 \* bound: timeouts, lost connections, failures, useless
                            \* chunks, deletions, crashes

ASSUME LimiterAssumption ==
  /\ IsFiniteSet(Request)
  /\ Nobody \notin Request
  /\ MAX_CONCURRENT_UPLOADS \in Nat \ {0}
  /\ MAX_CHUNK_BYTES \in Nat \ {0}
  /\ MAX_FILE_BYTES \in Nat
  /\ MaxFaults \in Nat
ASSUME ContentsAssumption == Contents \subseteq [Client -> Seq(ByteClass)]

VARIABLES
  content,    \* content[c]: the file client c has
  status,     \* files.upload_status, or "deleted" when there is no row
  received,   \* files.bytes_received
  disk,       \* the .partial: which byte of the client's file each of its bytes is
  slots,      \* _semaphore: free slots
  request,    \* request[r]: a chunk request and its answer
  resume,     \* resume[c]: the offset the client would send next
  waiting,    \* waiting[c]: the request whose answer it waits for
  stopped,    \* stopped[c]: it was refused for good, or is done
  faults      \* what went wrong so far

server == <<status, received, disk>>
clients == <<resume, waiting, stopped>>
vars == <<content, status, received, disk, slots, request, resume, waiting,
          stopped, faults>>

NoRequest == [at |-> "nowhere"]
InBody == {r \in Request : request[r].at = "body"}

Init ==
  /\ content \in Contents
  /\ status = [c \in Client |-> "pending"]
  /\ received = [c \in Client |-> 0]
  /\ disk = [c \in Client |-> <<>>]
  /\ slots = MAX_CONCURRENT_UPLOADS
  /\ request = [r \in Request |-> NoRequest]
  /\ resume = [c \in Client |-> 0]
  /\ waiting = [c \in Client |-> Nobody]
  /\ stopped = [c \in Client |-> FALSE]
  /\ faults = 0

Fault == faults < MaxFaults /\ faults' = faults + 1
----------------------------------------------------------------------------
(* The clients *)

Idle(c) == ~stopped[c] /\ waiting[c] = Nobody

\* The next `size` bytes of the file.
Put(c, r, size) ==
  /\ Idle(c)
  /\ request[r] = NoRequest
  /\ resume[c] < Len(content[c])
  /\ resume[c] + size <= Len(content[c])
  /\ request' = [request EXCEPT ![r] =
       [at |-> "network", client |-> c, offset |-> resume[c], size |-> size]]
  /\ waiting' = [waiting EXCEPT ![c] = r]
  /\ UNCHANGED <<content, server, slots, resume, stopped>>

\* A chunk of a size that the server takes, with something in it.
Send(c) ==
  /\ \E r \in Request, size \in 1..MAX_CHUNK_BYTES : Put(c, r, size)
  /\ UNCHANGED faults

\* An empty chunk, or one that exceeds the limit named at the creation.
SendUseless(c) ==
  /\ Fault
  /\ \E r \in Request, size \in 0..Len(content[c]) :
       size \notin 1..MAX_CHUNK_BYTES /\ Put(c, r, size)

\* The request it waited for is still on its way.
TimeOut(c) ==
  /\ Fault
  /\ waiting[c] # Nobody
  /\ waiting' = [waiting EXCEPT ![c] = Nobody]
  /\ UNCHANGED <<content, server, slots, request, resume, stopped>>

GetStatus(c) ==
  /\ Idle(c)
  /\ resume' = [resume EXCEPT ![c] = received[c]]
  /\ UNCHANGED <<content, server, slots, request, waiting, stopped, faults>>

\* POST /complete, once everything is acknowledged.
CompleteUpload(c) ==
  /\ Idle(c)
  /\ resume[c] = Len(content[c])
  /\ received[c] > 0
  /\ status' = [status EXCEPT ![c] = "completed"]
  /\ stopped' = [stopped EXCEPT ![c] = TRUE]
  /\ UNCHANGED <<content, received, disk, slots, request, resume, waiting, faults>>

\* DELETE, by a client that thinks better of it.
DeleteUpload(c) ==
  /\ Fault
  /\ Idle(c)
  /\ status' = [status EXCEPT ![c] = "deleted"]
  /\ received' = [received EXCEPT ![c] = 0]
  /\ disk' = [disk EXCEPT ![c] = <<>>]
  /\ resume' = [resume EXCEPT ![c] = 0]
  /\ stopped' = [stopped EXCEPT ![c] = TRUE]
  /\ UNCHANGED <<content, slots, request, waiting>>

\* An answer reaches its client, if that still waits for it.
Deliver(r) ==
  /\ request[r].at = "answer"
  /\ request' = [request EXCEPT ![r] = NoRequest]
  /\ LET c == request[r].client
     IN IF waiting[c] # r
        THEN UNCHANGED clients
        ELSE /\ waiting' = [waiting EXCEPT ![c] = Nobody]
             /\ resume' = [resume EXCEPT ![c] =
                  IF request[r].code \in {"200", "409"} THEN request[r].next ELSE @]
             /\ stopped' = [stopped EXCEPT ![c] =
                  request[r].code \in {"404", "409 done", "400", "415"}]
  /\ UNCHANGED <<content, server, slots, faults>>
----------------------------------------------------------------------------
(* The endpoint *)

SlotKept == slots

\* An exception and a disconnected client end the `with` block as well.
SlotReturned == slots + 1

Answer(r, code, next) ==
  [at |-> "answer", client |-> request[r].client, code |-> code, next |-> next]

\* `with acquire_upload_slot()`: without waiting.
TakeSlot(r) ==
  /\ request[r].at = "network"
  /\ slots > 0
  /\ slots' = slots - 1
  /\ request' = [request EXCEPT ![r].at = "body"]
  /\ UNCHANGED <<content, server, clients, faults>>

NoSlot(r) ==
  /\ request[r].at = "network"
  /\ slots = 0
  /\ request' = [request EXCEPT ![r] = Answer(r, "503", 0)]
  /\ UNCHANGED <<content, server, slots, clients, faults>>

Body(r) ==
  SubSeq(content[request[r].client],
         request[r].offset + 1, request[r].offset + request[r].size)

AnyRow(c) == TRUE
HasRow(c) == status[c] # "deleted"
MatchesOffset(r) == request[r].offset = received[request[r].client]
NewSize(r) == received[request[r].client] + request[r].size

\* The first reason append_chunk has to refuse the request, in its order.
Refusal(r) ==
  LET c == request[r].client
  IN CASE request[r].size > MAX_CHUNK_BYTES -> "413"
       [] ~HasRow(c) -> "404"
       [] status[c] = "completed" -> "409 done"
       [] ~MatchesOffset(r) -> "409"
       [] received[c] + request[r].size > MAX_FILE_BYTES -> "400"
       [] request[r].offset = 0 /\ LooksLikeBinary(Body(r)) -> "415"
       [] OTHER -> "none"

\* A 409 does not merely refuse: it tells the client where to resume.
ExpectedBehind(r) == request[r].offset + request[r].size
ExpectedAsSent(r) == request[r].offset
Expected(r) == received[request[r].client]

Refuse(r) ==
  /\ request[r].at = "body"
  /\ Refusal(r) # "none"
  /\ request' = [request EXCEPT ![r] =
       Answer(r, Refusal(r), IF Refusal(r) = "409" THEN Expected(r) ELSE 0)]
  /\ slots' = SlotReturned
  /\ UNCHANGED <<content, server, clients, faults>>

NotAligned(c) == disk[c]

\* The .partial after truncate_to(expected) and an append of the first n bytes
\* of the body: all of them, or fewer when the write fails.
Aligned(c) == SubSeq(disk[c], 1, received[c])
Written(r, n) ==
  Aligned(request[r].client) \o [i \in 1..n |-> request[r].offset + i]

AppendChunk(r) ==
  /\ request[r].at = "body"
  /\ Refusal(r) = "none"
  /\ LET c == request[r].client
     IN /\ disk' = [disk EXCEPT ![c] = Written(r, request[r].size)]
        /\ received' = [received EXCEPT ![c] = NewSize(r)]
        /\ status' = [status EXCEPT ![c] = "uploading"]
        /\ request' = [request EXCEPT ![r] = Answer(r, "200", NewSize(r))]
  /\ slots' = SlotReturned
  /\ UNCHANGED <<content, clients, faults>>

\* The lock is not had in time, the write fails part-way, or the commit does:
\* the transaction is rolled back and what was written stays.
AppendFails(r) ==
  /\ Fault
  /\ request[r].at = "body"
  /\ Refusal(r) = "none"
  /\ \/ UNCHANGED disk
     \/ \E n \in 0..request[r].size :
          disk' = [disk EXCEPT ![request[r].client] = Written(r, n)]
  /\ request' = [request EXCEPT ![r] = Answer(r, "500", 0)]
  /\ slots' = SlotReturned
  /\ UNCHANGED <<content, status, received, clients>>

\* The connection breaks: before the handler runs, while it waits for the body
\* (request.body() raises ClientDisconnect), or before the answer is through.
Disconnect(r) ==
  /\ Fault
  /\ request[r].at # "nowhere"
  /\ slots' = IF request[r].at = "body" THEN SlotReturned ELSE slots
  /\ request' = [request EXCEPT ![r] = NoRequest]
  /\ waiting' = [c \in Client |-> IF waiting[c] = r THEN Nobody ELSE waiting[c]]
  /\ UNCHANGED <<content, server, resume, stopped>>

\* The process dies and starts again: the semaphore is a new one.
Restart ==
  /\ Fault
  /\ slots' = MAX_CONCURRENT_UPLOADS
  /\ request' = [r \in Request |-> NoRequest]
  /\ waiting' = [c \in Client |-> Nobody]
  /\ UNCHANGED <<content, server, resume, stopped>>
----------------------------------------------------------------------------
Next ==
  \/ \E c \in Client :
       \/ Send(c)
       \/ SendUseless(c)
       \/ TimeOut(c)
       \/ GetStatus(c)
       \/ CompleteUpload(c)
       \/ DeleteUpload(c)
  \/ \E r \in Request :
       \/ Deliver(r)
       \/ TakeSlot(r)
       \/ NoSlot(r)
       \/ Refuse(r)
       \/ AppendChunk(r)
       \/ AppendFails(r)
       \/ Disconnect(r)
  \/ Restart

Spec == Init /\ [][Next]_vars

\* The event loop runs every handler that can go on.  That a body arrives in
\* the end, or its connection breaks, is the network's doing: nothing in the
\* code bounds the wait.  A client goes on with its upload, and sends useless
\* chunks finitely often: a client that never ceases to could take the slot
\* whenever another one asks for it, for the limiter has no queue.
FairSpec ==
  /\ Spec
  /\ \A r \in Request :
       /\ WF_vars(Deliver(r))
       /\ WF_vars(TakeSlot(r) \/ NoSlot(r))
       /\ WF_vars(Refuse(r) \/ AppendChunk(r))
  /\ \A c \in Client :
       /\ SF_vars(Send(c))
       /\ WF_vars(CompleteUpload(c))
----------------------------------------------------------------------------
(* Properties *)

Codes ==
  {"200", "404", "409", "409 done", "413", "400", "415", "500", "503"}
Sent ==
  [at : {"network", "body"}, client : Client, offset : Nat, size : Nat]
Answered == [at : {"answer"}, client : Client, code : Codes, next : Nat]

\* Every variable holds a value of its type; in particular no more bytes are
\* counted than the client has.
TypeOK ==
  /\ content \in Contents
  /\ status \in [Client -> {"pending", "uploading", "completed", "deleted"}]
  /\ DOMAIN received = Client
  /\ \A c \in Client : received[c] \in 0..Len(content[c])
  /\ DOMAIN disk = Client
  /\ \A c \in Client : disk[c] \in Seq(Nat)
  /\ slots \in 0..MAX_CONCURRENT_UPLOADS
  /\ request \in [Request -> Sent \cup Answered \cup {NoRequest}]
  /\ resume \in [Client -> Nat]
  /\ waiting \in [Client -> Request \cup {Nobody}]
  /\ stopped \in [Client -> BOOLEAN]
  /\ faults \in Nat

\* "A fixed, known number of slots" (concurrency.py): every slot is free or
\* held by one request whose body is awaited, whatever way the others ended --
\* answered, refused, failed, disconnected, or gone with the process.
SlotsAreAccounted == slots + Cardinality(InBody) = MAX_CONCURRENT_UPLOADS

\* "Concurrent chunk uploads to the same file must not corrupt it"
\* (tests/test_concurrency.py): the bytes counted as received are the first
\* bytes of the client's file, each once and in order, after any number of
\* retries that race their originals and of failed appends.
StoredIsAPrefix ==
  \A c \in Client :
    /\ received[c] <= Len(disk[c])
    /\ \A i \in 1..received[c] : disk[c][i] = i

\* No answer, however late, takes a client past what the server has: it never
\* skips bytes, and what was acknowledged is stored.
ResumesWithinStored == \A c \in Client : resume[c] <= received[c]

\* A request that outlives its upload changes nothing: no byte appears after
\* the upload was completed or deleted.
EndedStaysEnded ==
  [][\A c \in Client :
       status[c] \in {"completed", "deleted"} =>
         UNCHANGED <<status[c], received[c], disk[c]>>]_vars

\* "Rejecting before any bytes are written" (validators.py): nothing is stored
\* of a file of which every beginning is binary, by whichever retry of
\* whichever size.
NoBinaryIsStored ==
  \A c \in Client :
    (\A n \in 1..Len(content[c]) : IsBinary(SubSeq(content[c], 1, n)))
      => disk[c] = <<>>

\* "A single split multi-byte character at the very end of the sample doesn't
\* get the same verdict" (validators.py) -- unless the sample is short: a text is
\* refused only when the bytes of the character that its first chunk, or the
\* sample, ends in are more than one in OneIn.  They are 3 at most: in the
\* program a first chunk of 60 bytes is enough.
Boundaries(s) ==
  {0} \cup {i + CharLength[s[i]] - 1 : i \in {k \in 1..Len(s) : IsCharacter(s, k)}}
CutOff(s, n) ==
  n - (CHOOSE b \in Boundaries(s) :
         b <= n /\ \A d \in Boundaries(s) : d <= n => d <= b)

TextIsRefusedOnlyIfCut ==
  \A r \in InBody :
    LET text == content[request[r].client]
        n == Len(Probe(Body(r)))
    IN Refusal(r) = "415" /\ IsText(text) => CutOff(text, n) * OneIn > n

\* An upload ends: a client that goes on gets there, is refused for good, or
\* gives up, though chunk requests of others may take every slot meanwhile.
UploadsEnd == \A c \in Client : <>stopped[c]
=============================================================================
