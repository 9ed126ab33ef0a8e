------------------------ MODULE ChunkRequests_proofs ------------------------
(***************************************************************************)
(* No slot of the upload limiter leaks, and no retry, late answer or       *)
(* failed append spoils a file -- for every number of clients, requests,   *)
(* slots and faults, and whatever the clients' files are.  The text check  *)
(* counts of every sample what it means to count: no byte of a binary file *)
(* is stored, and a text is refused only for the character it is cut in.   *)
(***************************************************************************)
EXTENDS ChunkRequests, FiniteSetTheorems, SequenceTheorems, WellFoundedInduction,
        TLAPS

Ended(c) == status[c] \in {"completed", "deleted"}

\* What is on disk and counted of a client's file.
GoodFile(c) ==
  /\ status[c] \in {"pending", "uploading", "completed", "deleted"}
  /\ received[c] \in 0..Len(content[c])
  /\ disk[c] \in Seq(Nat)
  /\ received[c] <= Len(disk[c])
  /\ \A i \in 1..received[c] : disk[c][i] = i

\* What a client knows of it: nothing more, and that it has ended.
GoodClient(c) ==
  /\ resume[c] \in Nat
  /\ resume[c] <= received[c]
  /\ stopped[c] \in BOOLEAN
  /\ waiting[c] \in Request \cup {Nobody}
  /\ Ended(c) => stopped[c] /\ waiting[c] = Nobody

\* An answer that names an offset names one that the server has reached, unless
\* the file is gone; its client waits for nothing then.
GoodRequest(q) ==
  \/ q = NoRequest
  \/ /\ q \in Sent
     /\ q.offset + q.size <= Len(content[q.client])
  \/ /\ q \in Answered
     /\ q.code \in {"200", "409"} =>
          q.next <= received[q.client] \/ status[q.client] = "deleted"

FilesInv == \A c \in Client : GoodFile(c)
ClientsInv == \A c \in Client : GoodClient(c)
RequestsInv == \A r \in Request : GoodRequest(request[r])

Shapes ==
  /\ content \in Contents
  /\ DOMAIN status = Client
  /\ DOMAIN received = Client
  /\ DOMAIN disk = Client
  /\ DOMAIN resume = Client
  /\ DOMAIN waiting = Client
  /\ DOMAIN stopped = Client
  /\ DOMAIN request = Request
  /\ status = [c \in Client |-> status[c]]
  /\ resume = [c \in Client |-> resume[c]]
  /\ waiting = [c \in Client |-> waiting[c]]
  /\ stopped = [c \in Client |-> stopped[c]]
  /\ request = [r \in Request |-> request[r]]
  /\ faults \in Nat

RInv ==
  /\ Shapes
  /\ FilesInv
  /\ ClientsInv
  /\ RequestsInv
  /\ slots \in Nat
  /\ SlotsAreAccounted
----------------------------------------------------------------------------
(* Slots *)

\* A step that changes one request, and gives a slot back exactly when a body is
\* no longer awaited, accounts for all slots.
LEMMA SlotsStayAccounted ==
  ASSUME Shapes, slots \in Nat, SlotsAreAccounted,
         NEW r \in Request, NEW q,
         request' = [request EXCEPT ![r] = q],
         \/ request[r].at = "body" /\ q.at # "body" /\ slots' = slots + 1
         \/ request[r].at # "body" /\ q.at = "body" /\ slots > 0 /\ slots' = slots - 1
         \/ request[r].at # "body" /\ q.at # "body" /\ slots' = slots
  PROVE  slots' \in Nat /\ SlotsAreAccounted'
<1>1. IsFiniteSet(InBody) /\ Cardinality(InBody) \in Nat
  BY LimiterAssumption, FS_Subset, FS_CardinalityType DEF InBody
<1>2. DOMAIN request = Request
  BY DEF Shapes
<1>3. CASE request[r].at = "body" /\ q.at # "body" /\ slots' = slots + 1
  <2>1. InBody' = InBody \ {r} /\ r \in InBody
    BY <1>2, <1>3 DEF InBody
  <2>2. Cardinality(InBody') = Cardinality(InBody) - 1
    BY <1>1, <2>1, FS_RemoveElement
  <2> QED BY <1>1, <1>3, <2>2, LimiterAssumption DEF SlotsAreAccounted
<1>4. CASE request[r].at # "body" /\ q.at = "body" /\ slots > 0 /\ slots' = slots - 1
  <2>1. InBody' = InBody \cup {r} /\ r \notin InBody
    BY <1>2, <1>4 DEF InBody
  <2>2. Cardinality(InBody') = Cardinality(InBody) + 1
    BY <1>1, <2>1, FS_AddElement
  <2> QED BY <1>1, <1>4, <2>2, LimiterAssumption DEF SlotsAreAccounted
<1>5. CASE request[r].at # "body" /\ q.at # "body" /\ slots' = slots
  <2>1. InBody' = InBody
    BY <1>2, <1>5 DEF InBody
  <2> QED BY <1>5, <2>1 DEF SlotsAreAccounted
<1> QED BY <1>3, <1>4, <1>5

----------------------------------------------------------------------------
(* Requests *)

\* Nothing but a deletion takes bytes away.
NothingTakenAway ==
  \A c \in Client :
    /\ received[c] \in Nat /\ received'[c] \in Nat
    /\ received[c] <= received'[c] \/ status'[c] = "deleted"
    /\ status[c] = "deleted" => status'[c] = "deleted"

\* A request that is good stays good while nothing is taken away.
LEMMA GoodStaysGood ==
  ASSUME content' = content, NothingTakenAway, NEW q, GoodRequest(q)
  PROVE  GoodRequest(q)'
BY DEF NothingTakenAway, GoodRequest, Sent, Answered, NoRequest

\* Requests stay good when each is kept or replaced by a good one.
LEMMA RequestsStayGood ==
  ASSUME RequestsInv, content' = content, NothingTakenAway,
         \A r \in Request :
           request'[r] = request[r] \/ \E q : request'[r] = q /\ GoodRequest(q)'
  PROVE  RequestsInv'
<1>1. ASSUME NEW r \in Request PROVE GoodRequest(request[r])'
  <2>1. CASE request'[r] = request[r]
    <3>1. PICK q : q = request[r]
      OBVIOUS
    <3>2. GoodRequest(q)'
      BY GoodStaysGood, <3>1 DEF RequestsInv
    <3>3. q = request'[r]
      BY <2>1, <3>1
    <3> QED BY <3>2, <3>3 DEF GoodRequest
  <2>2. CASE \E q : request'[r] = q /\ GoodRequest(q)'
    BY <2>2 DEF GoodRequest
  <2> QED BY <2>1, <2>2
<1> QED BY <1>1 DEF RequestsInv

\* Where a request is tells what it is.
LEMMA KindOfRequest ==
  ASSUME NEW q, GoodRequest(q)
  PROVE  /\ q.at \in {"network", "body"} =>
              /\ q \in Sent
              /\ q.client \in Client /\ q.offset \in Nat /\ q.size \in Nat
              /\ q.offset + q.size <= Len(content[q.client])
         /\ q.at = "answer" =>
              /\ q.client \in Client /\ q.next \in Nat
              /\ q.code \in {"200", "409"} =>
                   q.next <= received[q.client] \/ status[q.client] = "deleted"
         /\ q.at = "nowhere" => q = NoRequest
BY DEF GoodRequest, Sent, Answered, NoRequest
----------------------------------------------------------------------------
(* Steps that leave the server alone *)

\* While the server is left alone, files stay good and nothing is taken away.
LEMMA ServerAlone ==
  ASSUME RInv, UNCHANGED <<content, server>>
  PROVE  FilesInv' /\ NothingTakenAway
BY DEF RInv, FilesInv, GoodFile, server, NothingTakenAway

\* One request is replaced by a good one.
LEMMA RequestReplaced ==
  ASSUME RInv, NEW r \in Request, NEW q,
         request' = [request EXCEPT ![r] = q],
         content' = content, NothingTakenAway, GoodRequest(q)'
  PROVE  RequestsInv'
<1>1. \A p \in Request :
        request'[p] = request[p] \/ \E z : request'[p] = z /\ GoodRequest(z)'
  BY DEF RInv, Shapes
<1> QED BY <1>1, RequestsStayGood DEF RInv

\* What a client does without a request touches no slot and no request.
LEMMA NoRequestChanges ==
  ASSUME RInv, UNCHANGED <<content, slots, request>>, NothingTakenAway
  PROVE  RequestsInv' /\ slots' \in Nat /\ SlotsAreAccounted'
<1>1. RequestsInv'
  BY RequestsStayGood DEF RInv
<1> QED BY <1>1 DEF RInv, SlotsAreAccounted, InBody

----------------------------------------------------------------------------
(* Steps of the clients *)

\* Sending a chunk (put by the client at the offset it resumes from).
LEMMA PutKeeps ==
  ASSUME RInv, NEW c \in Client, NEW r \in Request, NEW size \in Nat,
         Put(c, r, size), faults' \in Nat
  PROVE  RInv'
<1>1. PICK q : q = [at |-> "network", client |-> c, offset |-> resume[c], size |-> size]
  OBVIOUS
<1>2. /\ request' = [request EXCEPT ![r] = q]
      /\ waiting' = [waiting EXCEPT ![c] = r]
      /\ Idle(c)
      /\ request[r] = NoRequest
      /\ resume[c] + size <= Len(content[c])
      /\ UNCHANGED <<content, server, slots, resume, stopped>>
  BY <1>1 DEF Put
<1>3. Shapes'
  BY <1>2 DEF RInv, Shapes, server
<1>4. FilesInv' /\ NothingTakenAway
  BY <1>2, ServerAlone
<1>5. ClientsInv'
  BY <1>2 DEF RInv, Shapes, ClientsInv, GoodClient, Ended, Idle, server
<1>6. GoodRequest(q)'
  BY <1>1, <1>2 DEF GoodRequest, Sent, RInv, ClientsInv, GoodClient
<1>7. RequestsInv'
  BY <1>2, <1>4, <1>6, RequestReplaced
<1>8. slots' \in Nat /\ SlotsAreAccounted'
  <2>1. request[r].at # "body" /\ q.at # "body" /\ slots' = slots
    BY <1>1, <1>2 DEF NoRequest
  <2> QED BY <1>2, <2>1, SlotsStayAccounted DEF RInv
<1> QED BY <1>3, <1>4, <1>5, <1>7, <1>8 DEF RInv

\* A client that waits no longer.
LEMMA TimeOutKeeps ==
  ASSUME RInv, NEW c \in Client, TimeOut(c) PROVE RInv'
<1>1. FilesInv' /\ NothingTakenAway
  BY ServerAlone DEF TimeOut
<1>2. RequestsInv' /\ slots' \in Nat /\ SlotsAreAccounted'
  BY <1>1, NoRequestChanges DEF TimeOut
<1>3. Shapes'
  BY DEF RInv, Shapes, TimeOut, Fault, server
<1>4. ClientsInv'
  BY DEF RInv, Shapes, ClientsInv, GoodClient, Ended, TimeOut, server
<1> QED BY <1>1, <1>2, <1>3, <1>4 DEF RInv

\* GET /status: the client resumes exactly at what is stored.
LEMMA GetStatusKeeps ==
  ASSUME RInv, NEW c \in Client, GetStatus(c) PROVE RInv'
<1>1. FilesInv' /\ NothingTakenAway
  BY ServerAlone DEF GetStatus
<1>2. RequestsInv' /\ slots' \in Nat /\ SlotsAreAccounted'
  BY <1>1, NoRequestChanges DEF GetStatus
<1>3. Shapes'
  BY DEF RInv, Shapes, GetStatus, server
<1>4. ClientsInv'
  BY DEF RInv, Shapes, FilesInv, GoodFile, ClientsInv, GoodClient, Ended,
         GetStatus, server
<1> QED BY <1>1, <1>2, <1>3, <1>4 DEF RInv

\* POST /complete: no file that has ended is completed again.
LEMMA CompleteUploadKeeps ==
  ASSUME RInv, NEW c \in Client, CompleteUpload(c) PROVE RInv'
<1>1. ~Ended(c)
  BY DEF RInv, ClientsInv, GoodClient, CompleteUpload, Idle
<1>2. NothingTakenAway
  BY <1>1 DEF RInv, Shapes, FilesInv, GoodFile, NothingTakenAway, CompleteUpload,
              Ended
<1>3. RequestsInv' /\ slots' \in Nat /\ SlotsAreAccounted'
  BY <1>2, NoRequestChanges DEF CompleteUpload
<1>4. Shapes'
  BY DEF RInv, Shapes, CompleteUpload
<1>5. FilesInv'
  BY DEF RInv, Shapes, FilesInv, GoodFile, CompleteUpload
<1>6. ClientsInv'
  BY DEF RInv, Shapes, ClientsInv, GoodClient, Ended, CompleteUpload, Idle
<1> QED BY <1>3, <1>4, <1>5, <1>6 DEF RInv

\* DELETE: answers on their way may name bytes that are gone, but nobody waits.
LEMMA DeleteUploadKeeps ==
  ASSUME RInv, NEW c \in Client, DeleteUpload(c) PROVE RInv'
<1>1. NothingTakenAway
  BY DEF RInv, Shapes, FilesInv, GoodFile, NothingTakenAway, DeleteUpload
<1>2. RequestsInv' /\ slots' \in Nat /\ SlotsAreAccounted'
  BY <1>1, NoRequestChanges DEF DeleteUpload
<1>3. Shapes'
  <2>1. content' \in Contents /\ faults' \in Nat /\ UNCHANGED <<request, waiting>>
    BY DEF RInv, Shapes, DeleteUpload, Fault
  <2>2. /\ DOMAIN status' = Client /\ status' = [d \in Client |-> status'[d]]
        /\ DOMAIN received' = Client /\ DOMAIN disk' = Client
    BY DEF RInv, Shapes, DeleteUpload
  <2>3. /\ DOMAIN resume' = Client /\ resume' = [d \in Client |-> resume'[d]]
        /\ DOMAIN stopped' = Client /\ stopped' = [d \in Client |-> stopped'[d]]
    BY DEF RInv, Shapes, DeleteUpload
  <2> QED BY <2>1, <2>2, <2>3 DEF RInv, Shapes
<1>4. FilesInv'
  <2>1. content[c] \in Seq(ByteClass) /\ <<>> \in Seq(Nat) /\ Len(<<>>) = 0
    BY ContentsAssumption DEF RInv, Shapes
  <2>2. GoodFile(c)'
    BY <2>1 DEF RInv, Shapes, GoodFile, DeleteUpload
  <2>3. ASSUME NEW d \in Client, d # c PROVE GoodFile(d)'
    BY <2>3 DEF RInv, Shapes, FilesInv, GoodFile, DeleteUpload
  <2> QED BY <2>2, <2>3 DEF FilesInv
<1>5. ClientsInv'
  <2>1. GoodClient(c)'
    BY DEF RInv, Shapes, ClientsInv, GoodClient, Ended, DeleteUpload, Idle
  <2>2. ASSUME NEW d \in Client, d # c PROVE GoodClient(d)'
    BY <2>2 DEF RInv, Shapes, ClientsInv, GoodClient, Ended, DeleteUpload
  <2> QED BY <2>1, <2>2 DEF ClientsInv
<1> QED BY <1>2, <1>3, <1>4, <1>5 DEF RInv

\* An answer moves its client on only if the client still waits, and then the
\* file is there and the offset it names has been reached.
LEMMA DeliverKeeps ==
  ASSUME RInv, NEW r \in Request, Deliver(r) PROVE RInv'
<1>1. PICK q : q = request[r]
  OBVIOUS
<1>2. /\ q.client \in Client /\ q.next \in Nat
      /\ q.code \in {"200", "409"} =>
           q.next <= received[q.client] \/ status[q.client] = "deleted"
  BY <1>1, KindOfRequest DEF RInv, RequestsInv, Deliver
<1>3. request' = [request EXCEPT ![r] = NoRequest] /\ UNCHANGED <<content, server, slots, faults>>
  BY DEF Deliver
<1>4. FilesInv' /\ NothingTakenAway
  BY <1>3, ServerAlone
<1>5. RequestsInv'
  BY <1>3, <1>4, RequestReplaced DEF GoodRequest
<1>6. slots' \in Nat /\ SlotsAreAccounted'
  BY <1>3, SlotsStayAccounted DEF RInv, NoRequest, Deliver
<1>7. CASE waiting[q.client] # r
  <2>1. UNCHANGED clients
    BY <1>1, <1>7 DEF Deliver
  <2>2. Shapes' /\ ClientsInv'
    BY <1>3, <2>1 DEF RInv, Shapes, ClientsInv, GoodClient, Ended, server, clients
  <2> QED BY <1>4, <1>5, <1>6, <2>2 DEF RInv
<1>8. CASE waiting[q.client] = r
  <2>1. /\ waiting' = [waiting EXCEPT ![q.client] = Nobody]
        /\ resume' = [resume EXCEPT ![q.client] =
             IF q.code \in {"200", "409"} THEN q.next ELSE @]
        /\ stopped' = [stopped EXCEPT ![q.client] =
             q.code \in {"404", "409 done", "400", "415"}]
    BY <1>1, <1>8 DEF Deliver
  <2>2. ~Ended(q.client)
    BY <1>2, <1>8, LimiterAssumption DEF RInv, ClientsInv, GoodClient
  <2>3. Shapes'
    BY <1>3, <2>1 DEF RInv, Shapes, server
  <2>4. GoodClient(q.client)'
    <3>1. /\ resume[q.client] \in Nat /\ resume[q.client] <= received[q.client]
          /\ DOMAIN resume = Client /\ DOMAIN waiting = Client /\ DOMAIN stopped = Client
      BY <1>2 DEF RInv, Shapes, ClientsInv, GoodClient
    <3>2. resume'[q.client] \in Nat /\ resume'[q.client] <= received[q.client]
      BY <1>2, <2>1, <2>2, <3>1 DEF Ended
    <3>3. waiting'[q.client] = Nobody
      BY <1>2, <2>1, <3>1, Zenon
    <3>4. stopped'[q.client] \in BOOLEAN
      <4>1. stopped'[q.client] = (q.code \in {"404", "409 done", "400", "415"})
        BY <1>2, <2>1, <3>1, Zenon
      <4>2. (q.code \in {"404", "409 done", "400", "415"}) \in BOOLEAN
        OBVIOUS
      <4> QED BY <4>1, <4>2, Zenon
    <3> QED BY <1>3, <2>2, <3>2, <3>3, <3>4 DEF GoodClient, Ended, server
  <2>5. ASSUME NEW d \in Client, d # q.client PROVE GoodClient(d)'
    BY <1>3, <2>1, <2>5 DEF RInv, Shapes, ClientsInv, GoodClient, Ended, server
  <2> QED BY <1>4, <1>5, <1>6, <2>3, <2>4, <2>5 DEF RInv, ClientsInv
<1> QED BY <1>7, <1>8
----------------------------------------------------------------------------
(* Steps of the endpoint *)

\* A request enters the `with` block.
LEMMA TakeSlotKeeps ==
  ASSUME RInv, NEW r \in Request, TakeSlot(r) PROVE RInv'
<1>1. PICK q : q = [request[r] EXCEPT !.at = "body"]
  OBVIOUS
<1>2. /\ request' = [request EXCEPT ![r] = q]
      /\ request[r].at = "network" /\ slots > 0 /\ slots' = slots - 1
      /\ UNCHANGED <<content, server, clients, faults>>
  BY <1>1 DEF TakeSlot
<1>3. PICK z : z = request[r]
  OBVIOUS
<1>4. /\ z \in Sent /\ z.client \in Client /\ z.offset \in Nat /\ z.size \in Nat
      /\ z.offset + z.size <= Len(content[z.client])
  BY <1>2, <1>3, KindOfRequest DEF RInv, RequestsInv
<1>5. /\ q \in Sent /\ q.at = "body"
      /\ q.offset + q.size <= Len(content[q.client])
  BY <1>1, <1>3, <1>4 DEF Sent
<1>6. FilesInv' /\ NothingTakenAway
  BY <1>2, ServerAlone
<1>7. Shapes' /\ ClientsInv'
  BY <1>2 DEF RInv, Shapes, ClientsInv, GoodClient, Ended, server, clients
<1>8. RequestsInv'
  <2>1. GoodRequest(q)'
    BY <1>2, <1>5 DEF GoodRequest, Sent
  <2> QED BY <1>2, <1>6, <2>1, RequestReplaced
<1>9. slots' \in Nat /\ SlotsAreAccounted'
  BY <1>2, <1>5, SlotsStayAccounted DEF RInv
<1> QED BY <1>6, <1>7, <1>8, <1>9 DEF RInv

\* A request is answered 503.
LEMMA NoSlotKeeps ==
  ASSUME RInv, NEW r \in Request, NoSlot(r) PROVE RInv'
<1>1. PICK q : q = Answer(r, "503", 0)
  OBVIOUS
<1>2. /\ request' = [request EXCEPT ![r] = q]
      /\ request[r].at = "network"
      /\ UNCHANGED <<content, server, slots, clients, faults>>
  BY <1>1 DEF NoSlot
<1>3. request[r].client \in Client
  BY <1>2, KindOfRequest DEF RInv, RequestsInv
<1>4. q \in Answered /\ q.at = "answer" /\ q.code \notin {"200", "409"}
  BY <1>1, <1>3 DEF Answer, Answered, Codes
<1>5. FilesInv' /\ NothingTakenAway
  BY <1>2, ServerAlone
<1>6. Shapes' /\ ClientsInv'
  BY <1>2 DEF RInv, Shapes, ClientsInv, GoodClient, Ended, server, clients
<1>7. RequestsInv'
  <2>1. GoodRequest(q)'
    <3>1. GoodRequest(q)
      BY <1>4, Zenon DEF GoodRequest
    <3>2. content' = content
      BY <1>2
    <3> QED BY <1>5, <3>1, <3>2, GoodStaysGood
  <2> QED BY <1>2, <1>5, <2>1, RequestReplaced
<1>8. slots' \in Nat /\ SlotsAreAccounted'
  BY <1>2, <1>4, SlotsStayAccounted DEF RInv
<1> QED BY <1>5, <1>6, <1>7, <1>8 DEF RInv

\* The offset that a 409 names is the one the server has reached.
LEMMA RefuseKeeps ==
  ASSUME RInv, NEW r \in Request, Refuse(r) PROVE RInv'
<1>1. PICK q : q = Answer(r, Refusal(r), IF Refusal(r) = "409" THEN Expected(r) ELSE 0)
  OBVIOUS
<1>2. /\ request' = [request EXCEPT ![r] = q]
      /\ request[r].at = "body" /\ slots' = slots + 1
      /\ UNCHANGED <<content, server, clients, faults>>
  BY <1>1 DEF Refuse, SlotReturned
<1>3. request[r].client \in Client
  BY <1>2, KindOfRequest DEF RInv, RequestsInv
<1>4. Refusal(r) \in Codes \ {"200"}
  BY DEF Refuse, Refusal, Codes
<1>5. /\ q \in Answered /\ q.at = "answer"
      /\ q.code = "409" => q.next = received[q.client]
      /\ q.code # "200"
  <2>1. received[request[r].client] \in Nat
    BY <1>3 DEF RInv, FilesInv, GoodFile
  <2>2. /\ q.at = "answer" /\ q.client = request[r].client /\ q.code = Refusal(r)
        /\ q.next = IF Refusal(r) = "409" THEN received[request[r].client] ELSE 0
    BY <1>1 DEF Answer, Expected
  <2>3. q.next \in Nat
    BY <2>1, <2>2
  <2>4. q = [at |-> "answer", client |-> q.client, code |-> q.code, next |-> q.next]
    BY <1>1, <2>2 DEF Answer
  <2> QED BY <1>3, <1>4, <2>2, <2>3, <2>4 DEF Answered
<1>6. FilesInv' /\ NothingTakenAway
  BY <1>2, ServerAlone
<1>7. Shapes' /\ ClientsInv'
  BY <1>2 DEF RInv, Shapes, ClientsInv, GoodClient, Ended, server, clients
<1>8. RequestsInv'
  <2>1. received[q.client] \in Nat
    BY <1>5 DEF RInv, FilesInv, GoodFile, Answered
  <2>2. GoodRequest(q)'
    <3>1. q.code \in {"200", "409"} => q.next <= received[q.client]
      BY <1>5, <2>1
    <3>2. GoodRequest(q)
      BY <1>5, <3>1, Zenon DEF GoodRequest
    <3>3. content' = content
      BY <1>2
    <3> QED BY <1>6, <3>2, <3>3, GoodStaysGood
  <2> QED BY <1>2, <1>6, <2>2, RequestReplaced
<1>9. slots' \in Nat /\ SlotsAreAccounted'
  BY <1>2, <1>5, SlotsStayAccounted DEF RInv
<1> QED BY <1>6, <1>7, <1>8, <1>9 DEF RInv

\* The truncated and extended .partial holds the first bytes of the file.
LEMMA WrittenIsAPrefix ==
  ASSUME RInv, NEW r \in Request, NEW n \in Nat,
         request[r].at = "body", request[r].client \in Client,
         request[r].offset \in Nat,
         request[r].offset = received[request[r].client]
  PROVE  /\ Written(r, n) \in Seq(Nat)
         /\ Len(Written(r, n)) = request[r].offset + n
         /\ \A i \in 1..(request[r].offset + n) : Written(r, n)[i] = i
<1> DEFINE c == request[r].client
           k == request[r].offset
           new == [i \in 1..n |-> k + i]
<1>1. /\ k \in Nat /\ disk[c] \in Seq(Nat) /\ k <= Len(disk[c])
      /\ \A i \in 1..k : disk[c][i] = i
  BY DEF RInv, FilesInv, GoodFile
<1>2. /\ Aligned(c) = SubSeq(disk[c], 1, k)
      /\ Written(r, n) = Aligned(c) \o new
  BY DEF Aligned, Written
<1>3. /\ Aligned(c) \in Seq(Nat) /\ Len(Aligned(c)) = k
      /\ \A i \in 1..k : Aligned(c)[i] = i
  <2> HIDE DEF c, k
  <2> QED BY <1>1, <1>2
<1>4. new \in Seq(Nat) /\ Len(new) = n /\ \A i \in 1..n : new[i] = k + i
  BY <1>1
<1> HIDE DEF c, k, new
<1>5. /\ Aligned(c) \o new \in Seq(Nat)
      /\ Len(Aligned(c) \o new) = k + n
      /\ \A i \in 1..(k + n) : (Aligned(c) \o new)[i] = i
  <2>1. Aligned(c) \o new \in Seq(Nat) /\ Len(Aligned(c) \o new) = k + n
    BY <1>1, <1>3, <1>4
  <2>2. ASSUME NEW i \in 1..(k + n) PROVE (Aligned(c) \o new)[i] = i
    <3>1. CASE i <= k
      <4>1. i \in 1..k /\ (Aligned(c) \o new)[i] = Aligned(c)[i]
        BY <1>1, <1>3, <1>4, <3>1
      <4>2. Aligned(c)[i] = i
        BY <1>3, <4>1
      <4> QED BY <4>1, <4>2, Zenon
    <3>2. CASE i > k
      <4>1. i - k \in 1..n /\ (Aligned(c) \o new)[i] = new[i - k]
        BY <1>1, <1>3, <1>4, <3>2
      <4> QED BY <1>1, <1>4, <4>1
    <3>3. i <= k \/ i > k
      <4>1. k \in Nat
        BY <1>1
      <4> QED BY <4>1
    <3> QED BY <3>1, <3>2, <3>3, Zenon
  <2> QED BY <2>1, <2>2
<1> QED BY <1>2, <1>5 DEF k

\* What append_chunk has checked when it writes.
LEMMA NothingRefused ==
  ASSUME RInv, NEW r \in Request, request[r].at = "body", Refusal(r) = "none"
  PROVE  /\ request[r].client \in Client
         /\ request[r].offset \in Nat /\ request[r].size \in Nat
         /\ request[r].offset + request[r].size <= Len(content[request[r].client])
         /\ ~Ended(request[r].client)
         /\ request[r].offset = received[request[r].client]
<1>1. /\ request[r].client \in Client
      /\ request[r].offset \in Nat /\ request[r].size \in Nat
      /\ request[r].offset + request[r].size <= Len(content[request[r].client])
  BY KindOfRequest DEF RInv, RequestsInv
<1>2. /\ HasRow(request[r].client)
      /\ status[request[r].client] # "completed"
      /\ MatchesOffset(r)
  BY DEF Refusal
<1> QED BY <1>1, <1>2 DEF HasRow, MatchesOffset, Ended

\* append_chunk commits.
LEMMA AppendChunkKeeps ==
  ASSUME RInv, NEW r \in Request, AppendChunk(r) PROVE RInv'
<1>1. PICK c : c = request[r].client
  OBVIOUS
<1>2. PICK k : k = NewSize(r)
  OBVIOUS
<1>3. PICK q : q = Answer(r, "200", k)
  OBVIOUS
<1>4. PICK written : written = Written(r, request[r].size)
  OBVIOUS
<1>5. /\ disk' = [disk EXCEPT ![c] = written]
      /\ received' = [received EXCEPT ![c] = k]
      /\ status' = [status EXCEPT ![c] = "uploading"]
      /\ request' = [request EXCEPT ![r] = q]
      /\ request[r].at = "body" /\ slots' = slots + 1
      /\ UNCHANGED <<content, clients, faults>>
  BY <1>1, <1>2, <1>3, <1>4 DEF AppendChunk, SlotReturned
<1>6. /\ c \in Client /\ ~Ended(c)
      /\ request[r].offset \in Nat /\ request[r].size \in Nat
      /\ request[r].offset + request[r].size <= Len(content[c])
      /\ request[r].offset = received[c]
  BY <1>1, NothingRefused DEF AppendChunk
<1>7. k \in Nat /\ received[c] <= k /\ k <= Len(content[c])
  BY <1>1, <1>2, <1>6 DEF NewSize
<1>8. /\ written \in Seq(Nat) /\ Len(written) = k
      /\ \A i \in 1..k : written[i] = i
  BY <1>1, <1>2, <1>4, <1>5, <1>6, WrittenIsAPrefix DEF NewSize
<1>9. Shapes'
  BY <1>5 DEF RInv, Shapes, clients
<1>10. NothingTakenAway
  <2>1. \A d \in Client : received[d] \in Nat
    BY DEF RInv, FilesInv, GoodFile
  <2>2. DOMAIN received = Client /\ DOMAIN status = Client /\ status[c] # "deleted"
    BY <1>6 DEF RInv, Shapes, Ended
  <2> QED BY <1>5, <1>6, <1>7, <2>1, <2>2 DEF NothingTakenAway
<1>11. FilesInv'
  <2>1. GoodFile(c)'
    <3>1. Len(content[c]) \in Nat
      BY <1>6, ContentsAssumption DEF RInv, Shapes
    <3>2. status'[c] = "uploading" /\ received'[c] = k /\ disk'[c] = written /\ content' = content
      BY <1>5, <1>6 DEF RInv, Shapes
    <3> QED BY <1>7, <1>8, <3>1, <3>2 DEF GoodFile
  <2>2. ASSUME NEW d \in Client, d # c PROVE GoodFile(d)'
    BY <1>5, <2>2 DEF RInv, Shapes, FilesInv, GoodFile
  <2> QED BY <2>1, <2>2 DEF FilesInv
<1>12. ClientsInv'
  <2>1. GoodClient(c)'
    <3>1. /\ GoodClient(c) /\ status'[c] = "uploading" /\ received'[c] = k
          /\ received[c] \in Nat /\ UNCHANGED <<resume, waiting, stopped>>
      BY <1>5, <1>6 DEF RInv, Shapes, ClientsInv, FilesInv, GoodFile, clients
    <3> QED BY <1>7, <3>1 DEF GoodClient, Ended
  <2>2. ASSUME NEW d \in Client, d # c PROVE GoodClient(d)'
    BY <1>5, <2>2 DEF RInv, Shapes, ClientsInv, GoodClient, Ended, clients
  <2> QED BY <2>1, <2>2 DEF ClientsInv
<1>13. RequestsInv'
  <2>1. /\ q \in Answered /\ q.client = c /\ q.next = k
    BY <1>1, <1>3, <1>6, <1>7 DEF Answer, Answered, Codes
  <2>2. received'[c] = k
    BY <1>5, <1>6 DEF RInv, Shapes
  <2>3. GoodRequest(q)'
    <3>1. q.next <= received'[q.client]
      BY <1>7, <2>1, <2>2
    <3> QED BY <2>1, <3>1, Zenon DEF GoodRequest
  <2>4. content' = content /\ request' = [request EXCEPT ![r] = q]
    BY <1>5
  <2> QED BY <1>10, <2>3, <2>4, RequestReplaced
<1>14. slots' \in Nat /\ SlotsAreAccounted'
  <2>1. q.at = "answer"
    BY <1>3 DEF Answer
  <2> QED BY <1>5, <2>1, SlotsStayAccounted DEF RInv
<1> QED BY <1>9, <1>11, <1>12, <1>13, <1>14 DEF RInv

\* append_chunk is rolled back; its bytes may stay behind those counted.
LEMMA AppendFailsKeeps ==
  ASSUME RInv, NEW r \in Request, AppendFails(r) PROVE RInv'
<1>1. PICK c : c = request[r].client
  OBVIOUS
<1>2. PICK q : q = Answer(r, "500", 0)
  OBVIOUS
<1>3. /\ request' = [request EXCEPT ![r] = q]
      /\ request[r].at = "body" /\ slots' = slots + 1
      /\ faults' = faults + 1
      /\ UNCHANGED <<content, status, received, clients>>
  BY <1>2 DEF AppendFails, Fault, SlotReturned
<1>4. /\ c \in Client
      /\ request[r].offset \in Nat /\ request[r].size \in Nat
      /\ request[r].offset = received[c]
  BY <1>1, NothingRefused DEF AppendFails
<1>5. Shapes'
  <2>1. DOMAIN disk' = Client
    BY DEF AppendFails, RInv, Shapes
  <2> QED BY <1>3, <2>1 DEF RInv, Shapes, clients
<1>6. NothingTakenAway
  BY <1>3 DEF RInv, FilesInv, GoodFile, NothingTakenAway
<1>7. FilesInv'
  <2>1. CASE UNCHANGED disk
    BY <1>3, <2>1 DEF RInv, FilesInv, GoodFile
  <2>2. ASSUME NEW n \in 0..request[r].size, disk' = [disk EXCEPT ![c] = Written(r, n)]
        PROVE  FilesInv'
    <3>1. PICK written : written = Written(r, n)
      OBVIOUS
    <3>2. n \in Nat
      BY <1>4
    <3>3. /\ written \in Seq(Nat) /\ received[c] \in Nat
          /\ Len(written) = received[c] + n
          /\ \A i \in 1..(received[c] + n) : written[i] = i
      BY <1>1, <1>3, <1>4, <3>1, <3>2, WrittenIsAPrefix
    <3>4. GoodFile(c)'
      <4>1. disk'[c] = written
        BY <1>4, <2>2, <3>1 DEF RInv, Shapes
      <4>2. GoodFile(c)
        BY <1>4 DEF RInv, FilesInv
      <4> QED BY <1>3, <3>2, <3>3, <4>1, <4>2 DEF GoodFile
    <3>5. ASSUME NEW d \in Client, d # c PROVE GoodFile(d)'
      BY <1>3, <2>2, <3>5 DEF RInv, Shapes, FilesInv, GoodFile
    <3> QED BY <3>4, <3>5 DEF FilesInv
  <2> QED BY <1>1, <2>1, <2>2 DEF AppendFails
<1>8. ClientsInv'
  BY <1>3 DEF RInv, ClientsInv, GoodClient, Ended, clients
<1>9. RequestsInv'
  <2>1. q \in Answered /\ q.at = "answer" /\ q.code \notin {"200", "409"}
    BY <1>1, <1>2, <1>4 DEF Answer, Answered, Codes
  <2>2. GoodRequest(q)
    BY <2>1, Zenon DEF GoodRequest
  <2>3. content' = content
    BY <1>3
  <2>4. GoodRequest(q)'
    BY <1>6, <2>2, <2>3, GoodStaysGood
  <2> QED BY <1>3, <1>6, <2>4, RequestReplaced
<1>10. slots' \in Nat /\ SlotsAreAccounted'
  <2>1. q.at = "answer"
    BY <1>2 DEF Answer
  <2> QED BY <1>3, <2>1, SlotsStayAccounted DEF RInv
<1> QED BY <1>5, <1>7, <1>8, <1>9, <1>10 DEF RInv

\* A connection breaks, and with a body awaited the slot comes back.
LEMMA DisconnectKeeps ==
  ASSUME RInv, NEW r \in Request, Disconnect(r) PROVE RInv'
<1>1. /\ request' = [request EXCEPT ![r] = NoRequest]
      /\ slots' = IF request[r].at = "body" THEN slots + 1 ELSE slots
      /\ waiting' = [c \in Client |-> IF waiting[c] = r THEN Nobody ELSE waiting[c]]
      /\ faults' = faults + 1
      /\ UNCHANGED <<content, server, resume, stopped>>
  BY DEF Disconnect, Fault, SlotReturned
<1>2. FilesInv' /\ NothingTakenAway
  BY <1>1, ServerAlone
<1>3. Shapes'
  BY <1>1 DEF RInv, Shapes, server
<1>4. ClientsInv'
  BY <1>1, LimiterAssumption DEF RInv, ClientsInv, GoodClient, Ended, server
<1>5. RequestsInv'
  BY <1>1, <1>2, RequestReplaced DEF GoodRequest
<1>6. slots' \in Nat /\ SlotsAreAccounted'
  BY <1>1, SlotsStayAccounted DEF RInv, NoRequest
<1> QED BY <1>2, <1>3, <1>4, <1>5, <1>6 DEF RInv

\* A new process has a new semaphore, and awaits no body.
LEMMA RestartKeeps ==
  ASSUME RInv, Restart PROVE RInv'
<1>1. /\ slots' = MAX_CONCURRENT_UPLOADS
      /\ request' = [r \in Request |-> NoRequest]
      /\ waiting' = [c \in Client |-> Nobody]
      /\ faults' = faults + 1
      /\ UNCHANGED <<content, server, resume, stopped>>
  BY DEF Restart, Fault
<1>2. FilesInv' /\ NothingTakenAway
  BY <1>1, ServerAlone
<1>3. Shapes'
  BY <1>1 DEF RInv, Shapes, server
<1>4. ClientsInv'
  BY <1>1 DEF RInv, ClientsInv, GoodClient, Ended, server
<1>5. RequestsInv'
  BY <1>1 DEF RequestsInv, GoodRequest
<1>6. slots' \in Nat /\ SlotsAreAccounted'
  <2>1. InBody' = {}
    BY <1>1 DEF InBody, NoRequest
  <2> QED BY <1>1, <2>1, FS_EmptySet, LimiterAssumption DEF SlotsAreAccounted
<1> QED BY <1>2, <1>3, <1>4, <1>5, <1>6 DEF RInv

----------------------------------------------------------------------------
(* What follows *)

\* Before the first request the invariant holds.
LEMMA RInvInitially == Init => RInv
<1> SUFFICES ASSUME Init PROVE RInv
  OBVIOUS
<1>1. Shapes
  BY DEF Init, Shapes
<1>2. FilesInv
  <2>1. \A c \in Client : content[c] \in Seq(ByteClass)
    BY ContentsAssumption DEF Init
  <2>2. <<>> \in Seq(Nat) /\ Len(<<>>) = 0
    OBVIOUS
  <2> QED BY <2>1, <2>2 DEF Init, FilesInv, GoodFile
<1>3. ClientsInv
  BY DEF Init, ClientsInv, GoodClient, Ended
<1>4. RequestsInv
  BY DEF Init, RequestsInv, GoodRequest
<1>5. slots \in Nat /\ SlotsAreAccounted
  <2>1. InBody = {}
    BY DEF Init, InBody, NoRequest
  <2> QED BY <2>1, FS_EmptySet, LimiterAssumption DEF Init, SlotsAreAccounted
<1> QED BY <1>1, <1>2, <1>3, <1>4, <1>5 DEF RInv

\* Every step keeps the invariant.
LEMMA RInvStep == RInv /\ [Next]_vars => RInv'
<1> SUFFICES ASSUME RInv, [Next]_vars PROVE RInv'
  OBVIOUS
<1>1. ASSUME NEW c \in Client, Send(c) \/ SendUseless(c) PROVE RInv'
  <2>1. ASSUME Send(c) PROVE RInv'
    <3>1. PICK r \in Request, size \in 1..MAX_CHUNK_BYTES : Put(c, r, size)
      BY <2>1 DEF Send
    <3>2. size \in Nat /\ faults' \in Nat
      BY <2>1, LimiterAssumption DEF Send, RInv, Shapes
    <3> QED BY <3>1, <3>2, PutKeeps
  <2>2. ASSUME SendUseless(c) PROVE RInv'
    <3>1. PICK r \in Request, size \in 0..Len(content[c]) : Put(c, r, size)
      BY <2>2 DEF SendUseless
    <3>2. size \in Nat /\ faults' \in Nat
      BY <2>2 DEF SendUseless, Fault, RInv, Shapes
    <3> QED BY <3>1, <3>2, PutKeeps
  <2> QED BY <1>1, <2>1, <2>2
<1>2. ASSUME NEW c \in Client,
             TimeOut(c) \/ GetStatus(c) \/ CompleteUpload(c) \/ DeleteUpload(c)
      PROVE  RInv'
  BY <1>2, TimeOutKeeps, GetStatusKeeps, CompleteUploadKeeps, DeleteUploadKeeps
<1>3. ASSUME NEW r \in Request,
             \/ Deliver(r) \/ TakeSlot(r) \/ NoSlot(r) \/ Refuse(r)
             \/ AppendChunk(r) \/ AppendFails(r) \/ Disconnect(r)
      PROVE  RInv'
  BY <1>3, DeliverKeeps, TakeSlotKeeps, NoSlotKeeps, RefuseKeeps,
     AppendChunkKeeps, AppendFailsKeeps, DisconnectKeeps
<1>4. CASE UNCHANGED vars
  <2>1. UNCHANGED <<content, server, slots, request, clients, faults>>
    BY <1>4 DEF vars, server, clients
  <2>2. FilesInv' /\ NothingTakenAway
    BY <2>1, ServerAlone
  <2>3. RequestsInv' /\ slots' \in Nat /\ SlotsAreAccounted'
    BY <2>1, <2>2, NoRequestChanges
  <2>4. Shapes' /\ ClientsInv'
    BY <2>1 DEF RInv, Shapes, ClientsInv, GoodClient, Ended, server, clients
  <2> QED BY <2>2, <2>3, <2>4 DEF RInv
<1> QED BY <1>1, <1>2, <1>3, <1>4, RestartKeeps DEF Next

\* The invariant holds in every reachable state.
THEOREM RequestsInvariant == Spec => []RInv
BY RInvInitially, RInvStep, PTL DEF Spec

\* Every variable holds a value of its type.
THEOREM RequestTypes == Spec => []TypeOK
<1>1. RInv => TypeOK
  <2> SUFFICES ASSUME RInv PROVE TypeOK
    OBVIOUS
  <2>1. slots \in 0..MAX_CONCURRENT_UPLOADS
    <3>1. Cardinality(InBody) \in Nat
      BY LimiterAssumption, FS_Subset, FS_CardinalityType DEF InBody
    <3> QED BY <3>1, LimiterAssumption DEF RInv, SlotsAreAccounted
  <2>2. request \in [Request -> Sent \cup Answered \cup {NoRequest}]
    <3>1. \A r \in Request : request[r] \in Sent \cup Answered \cup {NoRequest}
      BY DEF RInv, RequestsInv, GoodRequest
    <3> QED BY <3>1 DEF RInv, Shapes
  <2>3. status \in [Client -> {"pending", "uploading", "completed", "deleted"}]
    BY DEF RInv, Shapes, FilesInv, GoodFile
  <2>4. /\ resume \in [Client -> Nat]
        /\ waiting \in [Client -> Request \cup {Nobody}]
    BY DEF RInv, Shapes, ClientsInv, GoodClient
  <2>5. stopped \in [Client -> BOOLEAN]
    BY Zenon DEF RInv, Shapes, ClientsInv, GoodClient
  <2> QED BY <2>1, <2>2, <2>3, <2>4, <2>5
          DEF RInv, Shapes, FilesInv, GoodFile, TypeOK
<1> QED BY <1>1, RequestsInvariant, PTL

\* Every slot of the limiter is free or held by a request whose body is awaited.
THEOREM NoSlotLeaks == Spec => []SlotsAreAccounted
<1>1. RInv => SlotsAreAccounted
  BY DEF RInv
<1> QED BY <1>1, RequestsInvariant, PTL

\* What the server counts of a file is on disk, each byte once and in order.
THEOREM RetriesCorruptNothing == Spec => []StoredIsAPrefix
<1>1. RInv => StoredIsAPrefix
  BY DEF RInv, FilesInv, GoodFile, StoredIsAPrefix
<1> QED BY <1>1, RequestsInvariant, PTL

\* No client skips a byte, whichever answers were lost or late.
THEOREM NobodySkipsAhead == Spec => []ResumesWithinStored
<1>1. RInv => ResumesWithinStored
  BY DEF RInv, ClientsInv, GoodClient, ResumesWithinStored
<1> QED BY <1>1, RequestsInvariant, PTL

\* A request that comes after the end of an upload changes nothing of it.
THEOREM LateRequestsChangeNothing == Spec => EndedStaysEnded
<1>1. RInv /\ [Next]_vars =>
        [\A c \in Client :
           status[c] \in {"completed", "deleted"} =>
             UNCHANGED <<status[c], received[c], disk[c]>>]_vars
  <2> SUFFICES ASSUME RInv, Next, NEW c \in Client, Ended(c)
               PROVE  UNCHANGED <<status[c], received[c], disk[c]>>
    BY DEF Ended
  <2>1. ASSUME UNCHANGED server PROVE UNCHANGED <<status[c], received[c], disk[c]>>
    BY <2>1 DEF server
  <2>2. ASSUME NEW d \in Client,
               \/ Send(d) \/ SendUseless(d) \/ TimeOut(d) \/ GetStatus(d)
        PROVE  UNCHANGED server
    BY <2>2 DEF Send, SendUseless, Put, TimeOut, GetStatus
  <2>3. ASSUME NEW d \in Client, CompleteUpload(d) \/ DeleteUpload(d)
        PROVE  UNCHANGED <<status[c], received[c], disk[c]>>
    <3>1. c # d
      BY <2>3 DEF RInv, ClientsInv, GoodClient, CompleteUpload, DeleteUpload, Idle
    <3> QED BY <2>3, <3>1 DEF RInv, Shapes, CompleteUpload, DeleteUpload
  <2>4. ASSUME NEW r \in Request,
               Deliver(r) \/ TakeSlot(r) \/ NoSlot(r) \/ Refuse(r) \/ Disconnect(r)
        PROVE  UNCHANGED server
    BY <2>4 DEF Deliver, TakeSlot, NoSlot, Refuse, Disconnect
  <2>5. ASSUME NEW r \in Request, AppendChunk(r) \/ AppendFails(r)
        PROVE  UNCHANGED <<status[c], received[c], disk[c]>>
    <3>1. c # request[r].client
      BY <2>5, NothingRefused DEF AppendChunk, AppendFails
    <3> QED BY <2>5, <3>1 DEF RInv, Shapes, AppendChunk, AppendFails
  <2>6. CASE Restart
    BY <2>1, <2>6 DEF Restart
  <2> QED BY <2>1, <2>2, <2>3, <2>4, <2>5, <2>6 DEF Next
<1> QED BY <1>1, RequestsInvariant, PTL DEF Spec, EndedStaysEnded

----------------------------------------------------------------------------
(* The decoder *)

\* One turn of the decoder's recursion, and a function that obeys it.
DecoderStep(g, s, i) ==
  IF i > Len(s) THEN 0
  ELSE g[i + Accepted(s, i)] + (IF IsCharacter(s, i) THEN 0 ELSE Accepted(s, i))
Decodes(g, s) == g = [i \in 1..(Len(s) + 4) |-> DecoderStep(g, s, i)]

\* A property that fails somewhere up to n fails at a last place.
LEMMA LastOf ==
  ASSUME NEW n \in Nat, NEW S \in SUBSET (1..n), S # {}
  PROVE  \E m \in S : \A x \in S : x <= m
<1> DEFINE back == {n - x : x \in S}
           R == OpToRel(<, Nat)
<1>1. back \in SUBSET Nat /\ back # {}
  <2>1. \A x \in S : n - x \in Nat
    OBVIOUS
  <2> QED BY <2>1
<1>2. PICK k \in back : \A x \in back : ~(<<x, k>> \in R)
  <2>1. IsWellFoundedOn(R, Nat)
    BY NatLessThanWellFounded
  <2> HIDE DEF R, back
  <2> QED BY <1>1, <2>1, WFMin
<1>3. PICK m \in S : k = n - m
  OBVIOUS
<1>4. ASSUME NEW x \in S PROVE x <= m
  <2>1. n - x \in back /\ n - x \in Nat /\ k \in Nat
    BY <1>1
  <2>2. ~(n - x < k)
    BY <1>2, <2>1 DEF OpToRel
  <2> QED BY <1>3, <2>2
<1> QED BY <1>4

\* A decoder takes at least one byte, and as many as the character has and the
\* bytes that follow allow.
LEMMA AcceptedBytes ==
  ASSUME NEW s \in Seq(ByteClass), NEW i \in 1..Len(s)
  PROVE  /\ Accepted(s, i) \in 1..CharLength[s[i]]
         /\ CharLength[s[i]] \in 1..4
         /\ i + Accepted(s, i) - 1 <= Len(s)
         /\ \A k \in 1..(Accepted(s, i) - 1) : s[i + k] = "cont"
         /\ \A m \in 1..CharLength[s[i]] :
              /\ i + m - 1 <= Len(s)
              /\ \A k \in 1..(m - 1) : s[i + k] = "cont"
              => m <= Accepted(s, i)
<1> DEFINE starts == {n \in 1..CharLength[s[i]] :
                        /\ i + n - 1 <= Len(s)
                        /\ \A k \in 1..(n - 1) : s[i + k] = "cont"}
<1>1. Len(s) \in Nat /\ s[i] \in ByteClass
  BY ElementOfSeq, LenProperties
<1>2. CharLength[s[i]] \in 1..4
  BY <1>1 DEF CharLength
<1>3. 1 \in starts
  BY <1>1, <1>2
<1>4. starts \in SUBSET (1..4)
  BY <1>2
<1>5. \E n \in starts : \A m \in starts : m <= n
  <2> HIDE DEF starts
  <2> QED BY <1>3, <1>4, LastOf
<1>6. Accepted(s, i) = CHOOSE n \in starts : \A m \in starts : m <= n
  BY DEF Accepted
<1>7. Accepted(s, i) \in starts /\ \A m \in starts : m <= Accepted(s, i)
  <2> HIDE DEF starts
  <2> QED BY <1>5, <1>6
<1> QED BY <1>2, <1>7

\* There is such a function: what it is at i depends on what follows only.
LEMMA DecoderExists ==
  ASSUME NEW s \in Seq(ByteClass)
  PROVE  \E g : Decodes(g, s)
<1> DEFINE L == Len(s)
           From(g, m) == /\ DOMAIN g = 1..(L + 4)
                         /\ g = [i \in 1..(L + 4) |-> g[i]]
                         /\ \A i \in m..(L + 4) : g[i] = DecoderStep(g, s, i)
           failing == {m \in 1..(L + 1) : ~\E g : From(g, m)}
<1>0. L \in Nat
  BY LenProperties
<1>1. ASSUME failing # {} PROVE FALSE
  <2>1. PICK m \in failing : \A x \in failing : x <= m
    <3>1. failing \in SUBSET (1..(L + 1)) /\ L + 1 \in Nat
      BY <1>0
    <3> HIDE DEF failing, L
    <3> QED BY <1>1, <3>1, LastOf
  <2>2. m \in 1..(L + 1) /\ ~\E g : From(g, m)
    OBVIOUS
  <2>3. CASE m = L + 1
    <3> DEFINE zero == [i \in 1..(L + 4) |-> 0]
    <3>1. \A i \in m..(L + 4) : DecoderStep(zero, s, i) = 0 /\ zero[i] = 0
      BY <1>0, <2>3 DEF DecoderStep
    <3>2. From(zero, m)
      BY <3>1
    <3> QED BY <2>2, <3>2
  <2>4. CASE m # L + 1
    <3>1. m \in 1..L /\ m + 1 \in 1..(L + 1) /\ m + 1 \notin failing
      BY <1>0, <2>1, <2>2, <2>4
    <3>2. PICK h : From(h, m + 1)
      BY <3>1
    <3>3. PICK v : v = DecoderStep(h, s, m)
      OBVIOUS
    <3>4. PICK g : g = [i \in 1..(L + 4) |-> IF i = m THEN v ELSE h[i]]
      OBVIOUS
    <3>5. ASSUME NEW i \in m..L
          PROVE  i + Accepted(s, i) \in (m + 1)..(L + 4)
      <4>1. i \in 1..Len(s)
        BY <1>0, <3>1
      <4>2. PICK n, most : /\ n = Accepted(s, i)
                           /\ n \in 1..most /\ most \in 1..4 /\ i + n - 1 <= L
        BY <4>1, AcceptedBytes
      <4> QED BY <1>0, <3>1, <4>2
    <3>6. ASSUME NEW i \in m..(L + 4) PROVE DecoderStep(g, s, i) = DecoderStep(h, s, i)
      <4>1. CASE i > L
        BY <4>1 DEF DecoderStep
      <4>2. CASE i <= L
        <5>1. i + Accepted(s, i) \in (m + 1)..(L + 4)
          BY <1>0, <3>1, <3>5, <4>2
        <5>2. g[i + Accepted(s, i)] = h[i + Accepted(s, i)]
          BY <1>0, <3>1, <3>4, <5>1
        <5> QED BY <5>2 DEF DecoderStep
      <4> QED BY <1>0, <3>1, <4>1, <4>2
    <3>7. ASSUME NEW i \in m..(L + 4) PROVE g[i] = DecoderStep(g, s, i)
      <4>1. CASE i = m
        <5>1. m \in 1..(L + 4) /\ m \in m..(L + 4)
          BY <1>0, <3>1
        <5>2. g[m] = v /\ DecoderStep(g, s, m) = DecoderStep(h, s, m)
          BY <3>4, <3>6, <5>1
        <5> QED BY <3>3, <4>1, <5>2
      <4>2. CASE i # m
        <5>1. i \in (m + 1)..(L + 4)
          BY <1>0, <3>1, <4>2
        <5>2. g[i] = h[i] /\ h[i] = DecoderStep(h, s, i)
          BY <1>0, <3>1, <3>2, <3>4, <5>1
        <5> QED BY <3>6, <5>2
      <4> QED BY <4>1, <4>2
    <3>8. From(g, m)
      BY <3>4, <3>7
    <3> QED BY <2>2, <3>8
  <2> QED BY <2>3, <2>4
<1>2. PICK g : From(g, 1)
  <2>1. failing = {}
    BY <1>1
  <2>2. 1 \in 1..(L + 1)
    BY <1>0
  <2> QED BY <2>1, <2>2
<1>3. Decodes(g, s)
  BY <1>2 DEF Decodes
<1> QED BY <1>3

\* So the count of the code obeys it.
LEMMA DecoderCounts ==
  ASSUME NEW s \in Seq(ByteClass)
  PROVE  \E g : InvalidBytes(s) = g[1] /\ Decodes(g, s)
<1>1. InvalidBytes(s) = (CHOOSE g : Decodes(g, s))[1]
  BY DEF InvalidBytes, Decodes, DecoderStep
<1>2. Decodes(CHOOSE g : Decodes(g, s), s)
  BY DecoderExists
<1> QED BY <1>1, <1>2

\* A place that no character before it reaches, and the stray bytes from there.
Reached(s, i) == \E q \in 1..(i - 1) : IsCharacter(s, q) /\ q + CharLength[s[q]] > i
StrayFrom(s, i) == {p \in Stray(s) : p >= i}

\* Behind what the decoder takes at such a place there is another one, and what
\* it takes is one character or stray bytes.
LEMMA DecoderSteps ==
  ASSUME NEW s \in Seq(ByteClass), NEW i \in 1..Len(s), ~Reached(s, i),
         NEW n, n = Accepted(s, i)
  PROVE  /\ n \in Nat /\ n > 0 /\ i + n <= Len(s) + 1
         /\ ~Reached(s, i + n)
         /\ StrayFrom(s, i) = StrayFrom(s, i + n)
              \cup (IF IsCharacter(s, i) THEN {} ELSE i..(i + n - 1))
<1>0. Len(s) \in Nat
  BY LenProperties
<1>1. PICK most : /\ n \in 1..most /\ most \in 1..4 /\ i + n - 1 <= Len(s)
                  /\ \A k \in 1..(n - 1) : s[i + k] = "cont"
  BY AcceptedBytes
<1>2. n \in Nat /\ n > 0 /\ i + n <= Len(s) + 1
  BY <1>0, <1>1
<1>3. ASSUME NEW q \in (i + 1)..(i + n - 1) PROVE ~IsCharacter(s, q)
  <2>1. q - i \in 1..(n - 1) /\ i + (q - i) = q
    BY <1>0, <1>2
  <2>2. s[q] = "cont"
    BY <1>1, <2>1
  <2> QED BY <2>2 DEF IsCharacter
<1>4. ASSUME NEW q \in 1..Len(s) PROVE CharLength[s[q]] \in 1..4
  BY AcceptedBytes
<1>5. ASSUME NEW q \in 1..(i - 1), IsCharacter(s, q) PROVE q + CharLength[s[q]] <= i
  <2>1. CharLength[s[q]] \in 1..4
    BY <1>0, <1>4
  <2> QED BY <2>1, <1>5 DEF Reached
<1>6. IsCharacter(s, i) => CharLength[s[i]] = n
  BY DEF IsCharacter
<1>7. ASSUME NEW q \in 1..(i + n - 1), IsCharacter(s, q), q + CharLength[s[q]] > i
      PROVE  q = i /\ q + CharLength[s[q]] = i + n
  <2>1. q \in 1..Len(s) /\ CharLength[s[q]] \in 1..4
    BY <1>0, <1>2, <1>4
  <2>2. CASE q < i
    <3>1. q + CharLength[s[q]] <= i
      BY <1>5, <1>7, <2>2
    <3> QED BY <1>7, <2>1, <3>1
  <2>3. CASE q > i
    BY <1>2, <1>3, <1>7, <2>3
  <2>4. CASE q = i
    BY <1>6, <1>7, <2>4
  <2> QED BY <2>1, <2>2, <2>3, <2>4
<1>8. ~Reached(s, i + n)
  <2>1. ASSUME NEW q \in 1..((i + n) - 1), IsCharacter(s, q) PROVE q + CharLength[s[q]] <= i + n
    <3>1. q \in 1..Len(s) /\ CharLength[s[q]] \in 1..4
      BY <1>0, <1>2, <1>4
    <3>2. q \in 1..(i + n - 1)
      BY <1>2, <2>1
    <3>3. q + CharLength[s[q]] > i => q + CharLength[s[q]] = i + n
      BY <1>7, <2>1, <3>2
    <3> QED BY <1>2, <3>1, <3>3
  <2>2. ASSUME NEW q \in 1..((i + n) - 1), IsCharacter(s, q), q + CharLength[s[q]] > i + n
        PROVE  FALSE
    <3>1. q \in 1..Len(s) /\ CharLength[s[q]] \in 1..4
      BY <1>0, <1>2, <1>4
    <3> QED BY <1>2, <2>1, <2>2, <3>1
  <2> QED BY <2>2 DEF Reached
<1>9. ASSUME NEW p \in i..(i + n - 1)
      PROVE  p \in Stray(s) <=> ~IsCharacter(s, i)
  <2>1. p \in 1..Len(s)
    BY <1>0, <1>2
  <2>2. ASSUME NEW q \in 1..p, IsCharacter(s, q), q + CharLength[s[q]] > p
        PROVE  IsCharacter(s, i)
    <3>1. q \in 1..(i + n - 1) /\ CharLength[s[q]] \in 1..4
      BY <1>0, <1>2, <1>4
    <3>2. q + CharLength[s[q]] > i
      BY <2>2, <3>1
    <3> QED BY <1>7, <2>2, <3>1, <3>2
  <2>3. ASSUME IsCharacter(s, i)
        PROVE  \E q \in 1..p : IsCharacter(s, q) /\ q + CharLength[s[q]] > p
    <3>1. i \in 1..p /\ i + CharLength[s[i]] > p
      BY <1>2, <1>6, <2>3
    <3> QED BY <2>3, <3>1
  <2> QED BY <2>1, <2>2, <2>3 DEF Stray
<1>10. ASSUME NEW p
       PROVE  p \in StrayFrom(s, i) <=>
                \/ p \in StrayFrom(s, i + n)
                \/ ~IsCharacter(s, i) /\ p \in i..(i + n - 1)
  <2>1. p \in StrayFrom(s, i) => p \in 1..Len(s)
    BY DEF StrayFrom, Stray
  <2>2. p \in StrayFrom(s, i + n) => p \in 1..Len(s)
    BY DEF StrayFrom, Stray
  <2>3. CASE p \in i..(i + n - 1)
    BY <1>2, <1>9, <2>3 DEF StrayFrom
  <2>4. CASE p \in 1..Len(s) /\ p \notin i..(i + n - 1)
    BY <1>0, <1>2, <2>4 DEF StrayFrom
  <2>5. p \in i..(i + n - 1) => p \in 1..Len(s)
    BY <1>0, <1>2
  <2> QED BY <2>1, <2>2, <2>3, <2>4, <2>5
<1> QED BY <1>2, <1>8, <1>10

\* Up to four bytes are as many as their interval is long.
LEMMA TakenBytes ==
  ASSUME NEW i \in Nat, NEW n \in Nat, n > 0
  PROVE  IsFiniteSet(i..(i + n - 1)) /\ Cardinality(i..(i + n - 1)) = n
<1>1. PICK b \in Int : b = i + n - 1
  OBVIOUS
<1>2. IsFiniteSet(i..b) /\ Cardinality(i..b) = IF i > b THEN 0 ELSE b - i + 1
  BY FS_Interval
<1> QED BY <1>1, <1>2

\* From any such place on, the code counts the stray bytes.
LEMMA CountedFrom ==
  ASSUME NEW s \in Seq(ByteClass), NEW g, Decodes(g, s), NEW i \in 1..(Len(s) + 1),
         ~Reached(s, i)
  PROVE  g[i] = Cardinality(StrayFrom(s, i))
<1> DEFINE L == Len(s)
           Right(j) == g[j] = Cardinality(StrayFrom(s, j))
           wrong == {j \in 1..(L + 1) : ~Reached(s, j) /\ ~Right(j)}
<1>0. L \in Nat
  BY LenProperties
<1>1. \A j \in 1..(L + 1) : g[j] = DecoderStep(g, s, j)
  BY <1>0 DEF Decodes
<1>2. \A j \in 1..(L + 1) : IsFiniteSet(StrayFrom(s, j))
  <2>1. IsFiniteSet(1..L)
    BY <1>0, FS_Interval
  <2>2. \A j : StrayFrom(s, j) \in SUBSET (1..L)
    BY DEF StrayFrom, Stray
  <2> QED BY <2>1, <2>2, FS_Subset
<1>3. ASSUME wrong # {} PROVE FALSE
  <2>1. PICK m \in wrong : \A x \in wrong : x <= m
    <3>1. wrong \in SUBSET (1..(L + 1)) /\ L + 1 \in Nat
      BY <1>0
    <3> HIDE DEF wrong, L
    <3> QED BY <1>3, <3>1, LastOf
  <2>2. m \in 1..(L + 1) /\ ~Reached(s, m) /\ ~Right(m)
    OBVIOUS
  <2>3. CASE m = L + 1
    <3>1. g[m] = 0
      BY <1>0, <1>1, <2>2, <2>3 DEF DecoderStep
    <3>2. StrayFrom(s, m) = {}
      BY <1>0, <2>3 DEF StrayFrom, Stray
    <3> QED BY <2>2, <3>1, <3>2, FS_EmptySet
  <2>4. CASE m # L + 1
    <3>1. m \in 1..Len(s)
      BY <1>0, <2>2, <2>4
    <3>2. PICK n, j : n = Accepted(s, m) /\ j = m + n
      OBVIOUS
    <3>3. /\ n \in Nat /\ n > 0 /\ j <= L + 1
          /\ ~Reached(s, j)
          /\ StrayFrom(s, m) = StrayFrom(s, j)
               \cup (IF IsCharacter(s, m) THEN {} ELSE m..(m + n - 1))
      BY <2>2, <3>1, <3>2, DecoderSteps
    <3>4. j \in 1..(L + 1) /\ j > m
      BY <1>0, <3>1, <3>2, <3>3
    <3>5. Right(j)
      <4>1. j \notin wrong
        BY <1>0, <2>1, <2>2, <3>4
      <4> QED BY <3>3, <3>4, <4>1
    <3>6. g[m] = g[j] + (IF IsCharacter(s, m) THEN 0 ELSE n)
      BY <1>0, <1>1, <2>2, <3>1, <3>2 DEF DecoderStep
    <3>7. Cardinality(StrayFrom(s, j)) \in Nat
      BY <1>2, <3>4, FS_CardinalityType
    <3>8. CASE IsCharacter(s, m)
      <4>1. StrayFrom(s, m) = StrayFrom(s, j)
        BY <3>3, <3>8
      <4> QED BY <2>2, <3>5, <3>6, <3>7, <3>8, <4>1
    <3>9. CASE ~IsCharacter(s, m)
      <4>1. StrayFrom(s, m) = StrayFrom(s, j) \cup (m..(m + n - 1))
        BY <3>3, <3>9
      <4>2. StrayFrom(s, j) \cap (m..(m + n - 1)) = {}
        BY <3>1, <3>2, <3>3 DEF StrayFrom, Stray
      <4>3. IsFiniteSet(m..(m + n - 1)) /\ Cardinality(m..(m + n - 1)) = n
        BY <3>1, <3>3, TakenBytes
      <4>4. Cardinality(StrayFrom(s, m)) = Cardinality(StrayFrom(s, j)) + n - 0
        <5>1. IsFiniteSet(StrayFrom(s, j))
          BY <1>2, <3>4
        <5>2. Cardinality(StrayFrom(s, j) \cup (m..(m + n - 1)))
                = Cardinality(StrayFrom(s, j)) + Cardinality(m..(m + n - 1))
                    - Cardinality(StrayFrom(s, j) \cap (m..(m + n - 1)))
          BY <4>3, <5>1, FS_Union
        <5> QED BY <4>1, <4>2, <4>3, <5>2, FS_EmptySet
      <4>5. Cardinality(StrayFrom(s, m)) = Cardinality(StrayFrom(s, j)) + n
        BY <3>3, <3>7, <4>4
      <4> QED BY <2>2, <3>5, <3>6, <3>9, <4>5
    <3> QED BY <3>8, <3>9
  <2> QED BY <2>3, <2>4
<1>4. wrong = {}
  BY <1>3
<1> QED BY <1>4

\* looks_like_binary counts, of any sample whatever, exactly the bytes that
\* belong to no complete character, though it decodes the rest of the sample
\* anew behind each failure.
THEOREM DecoderCountsStrayBytes ==
  \A s \in Seq(ByteClass) : InvalidBytes(s) = Cardinality(Stray(s))
<1> SUFFICES ASSUME NEW s \in Seq(ByteClass) PROVE InvalidBytes(s) = Cardinality(Stray(s))
  OBVIOUS
<1>1. PICK g : InvalidBytes(s) = g[1] /\ Decodes(g, s)
  BY DecoderCounts
<1>2. 1 \in 1..(Len(s) + 1) /\ ~Reached(s, 1)
  <2>1. Len(s) \in Nat
    BY LenProperties
  <2> QED BY <2>1 DEF Reached
<1>3. StrayFrom(s, 1) = Stray(s)
  BY DEF StrayFrom, Stray
<1> QED BY <1>1, <1>2, <1>3, CountedFrom

----------------------------------------------------------------------------
(* Binary files *)

\* The sample is a beginning of what is handed over, and all of it if that is
\* not longer.
LEMMA ProbeIsABeginning ==
  ASSUME NEW s \in Seq(ByteClass)
  PROVE  /\ Probe(s) \in Seq(ByteClass)
         /\ Len(Probe(s)) \in Nat /\ Len(Probe(s)) <= Len(s)
         /\ s # <<>> => Len(Probe(s)) > 0
         /\ \A i \in 1..Len(Probe(s)) : Probe(s)[i] = s[i]
<1>1. PICK m : m = IF Len(s) < SAMPLE_BYTES THEN Len(s) ELSE SAMPLE_BYTES
  OBVIOUS
<1>2. Len(s) \in Nat /\ m \in Nat /\ m <= Len(s) /\ (Len(s) # 0 => m > 0)
  BY <1>1, LenProperties, SampleAssumption
<1>3. Probe(s) = SubSeq(s, 1, m)
  BY <1>1 DEF Probe
<1>4. s # <<>> => Len(s) # 0
  BY EmptySeq
<1>5. /\ SubSeq(s, 1, m) \in Seq(ByteClass)
      /\ Len(SubSeq(s, 1, m)) = m
      /\ \A i \in 1..m : SubSeq(s, 1, m)[i] = s[i]
  BY <1>2
<1> QED BY <1>2, <1>3, <1>4, <1>5

\* Whatever the sample, the code's verdict is the one a reader would give.
THEOREM VerdictIsRight ==
  \A s \in Seq(ByteClass) : LooksLikeBinary(s) <=> s # <<>> /\ IsBinary(s)
<1> SUFFICES ASSUME NEW s \in Seq(ByteClass)
             PROVE  LooksLikeBinary(s) <=> s # <<>> /\ IsBinary(s)
  OBVIOUS
<1>1. InvalidBytes(Probe(s)) = Cardinality(Stray(Probe(s)))
  BY ProbeIsABeginning, DecoderCountsStrayBytes
<1>2. \A i \in 1..Len(Probe(s)) : Probe(s)[i] = s[i]
  BY ProbeIsABeginning
<1> QED BY <1>1, <1>2, Zenon DEF LooksLikeBinary, IsBinary

\* What the endpoint hands to it: a beginning of the client's file.
LEMMA BodyIsABeginning ==
  ASSUME RInv, NEW r \in Request, request[r].at = "body", request[r].offset = 0
  PROVE  /\ request[r].client \in Client
         /\ content[request[r].client] \in Seq(ByteClass)
         /\ request[r].size \in 0..Len(content[request[r].client])
         /\ Body(r) = SubSeq(content[request[r].client], 1, request[r].size)
         /\ Body(r) \in Seq(ByteClass)
         /\ Len(Body(r)) = request[r].size
         /\ \A i \in 1..request[r].size : Body(r)[i] = content[request[r].client][i]
<1>1. PICK c, size : c = request[r].client /\ size = request[r].size
  OBVIOUS
<1>2. c \in Client /\ size \in Nat /\ 0 + size <= Len(content[c])
  BY <1>1, KindOfRequest DEF RInv, RequestsInv
<1>3. content[c] \in Seq(ByteClass) /\ Len(content[c]) \in Nat
  BY <1>2, ContentsAssumption DEF RInv, Shapes
<1>4. Body(r) = SubSeq(content[c], 1, size)
  BY <1>1, <1>2 DEF Body
<1>5. /\ SubSeq(content[c], 1, size) \in Seq(ByteClass)
      /\ Len(SubSeq(content[c], 1, size)) = size
      /\ \A i \in 1..size : SubSeq(content[c], 1, size)[i] = content[c][i]
  BY <1>2, <1>3
<1> QED BY <1>1, <1>2, <1>3, <1>4, <1>5

\* Every beginning of the client's file is binary.
Hopeless(c) == \A n \in 1..Len(content[c]) : IsBinary(SubSeq(content[c], 1, n))

\* Of such a file at most an empty chunk is accepted.
LEMMA HopelessIsRefused ==
  ASSUME RInv, NoBinaryIsStored, NEW r \in Request, request[r].at = "body",
         Refusal(r) = "none", Hopeless(request[r].client)
  PROVE  /\ disk[request[r].client] = <<>>
         /\ received[request[r].client] = 0
         /\ request[r].size = 0
<1>1. PICK c, size : c = request[r].client /\ size = request[r].size
  OBVIOUS
<1>2. c \in Client /\ request[r].offset = received[c]
  BY <1>1, NothingRefused
<1>3. disk[c] = <<>>
  BY <1>1, <1>2, Zenon DEF NoBinaryIsStored, Hopeless
<1>4. received[c] = 0
  BY <1>2, <1>3 DEF RInv, FilesInv, GoodFile
<1>5. /\ Body(r) = SubSeq(content[c], 1, size) /\ Body(r) \in Seq(ByteClass)
      /\ Len(Body(r)) = size
      /\ size \in 0..Len(content[c])
  BY <1>1, <1>2, <1>4, BodyIsABeginning
<1>6. ~LooksLikeBinary(Body(r))
  BY <1>2, <1>4 DEF Refusal
<1>7. ASSUME size # 0 PROVE FALSE
  <2>1. size \in 1..Len(content[c])
    BY <1>1, <1>2, <1>5, <1>7, KindOfRequest DEF RInv, RequestsInv
  <2>2. IsBinary(Body(r))
    BY <1>1, <1>5, <2>1 DEF Hopeless
  <2>3. Body(r) # <<>>
    BY <1>5, <1>7
  <2> QED BY <1>5, <1>6, <2>2, <2>3, VerdictIsRight
<1> QED BY <1>1, <1>3, <1>4, <1>7

\* No step stores anything of it.
LEMMA NoBinaryStep ==
  ASSUME RInv, NoBinaryIsStored, [Next]_vars
  PROVE  NoBinaryIsStored'
<1> SUFFICES ASSUME NEW c \in Client, Hopeless(c)' PROVE disk'[c] = <<>>
  BY Zenon DEF NoBinaryIsStored, Hopeless
<1>0. content' = content
  BY DEF Next, Send, SendUseless, Put, TimeOut, GetStatus, CompleteUpload,
         DeleteUpload, Deliver, TakeSlot, NoSlot, Refuse, AppendChunk, AppendFails,
         Disconnect, Restart, vars
<1>1. Hopeless(c) /\ disk[c] = <<>>
  <2>1. Hopeless(c)
    BY <1>0, Zenon DEF Hopeless
  <2> QED BY <2>1, Zenon DEF NoBinaryIsStored, Hopeless
<1>2. ASSUME UNCHANGED disk PROVE disk'[c] = <<>>
  BY <1>1, <1>2
<1>3. ASSUME NEW d \in Client,
             \/ Send(d) \/ SendUseless(d) \/ TimeOut(d) \/ GetStatus(d)
             \/ CompleteUpload(d)
      PROVE  UNCHANGED disk
  BY <1>3 DEF Send, SendUseless, Put, TimeOut, GetStatus, CompleteUpload, server
<1>4. ASSUME NEW d \in Client, DeleteUpload(d) PROVE disk'[c] = <<>>
  BY <1>1, <1>4 DEF DeleteUpload, RInv, Shapes
<1>5. ASSUME NEW r \in Request,
             Deliver(r) \/ TakeSlot(r) \/ NoSlot(r) \/ Refuse(r) \/ Disconnect(r)
      PROVE  UNCHANGED disk
  BY <1>5 DEF Deliver, TakeSlot, NoSlot, Refuse, Disconnect, server
<1>6. ASSUME NEW r \in Request, request[r].at = "body", Refusal(r) = "none",
             NEW n \in 0..request[r].size,
             disk' = [disk EXCEPT ![request[r].client] = Written(r, n)]
      PROVE  disk'[c] = <<>>
  <2>1. CASE c # request[r].client
    BY <1>1, <1>6, <2>1
  <2>2. CASE c = request[r].client
    <3>1. disk[c] = <<>> /\ received[c] = 0 /\ n = 0
      BY <1>1, <1>6, <2>2, HopelessIsRefused
    <3>2. Written(r, n) = <<>>
      BY <2>2, <3>1 DEF Written, Aligned
    <3> QED BY <1>6, <2>2, <3>2 DEF RInv, Shapes
  <2> QED BY <2>1, <2>2
<1>7. ASSUME NEW r \in Request, AppendChunk(r) PROVE disk'[c] = <<>>
  <2>1. request[r].size \in 0..request[r].size
    BY <1>7, KindOfRequest DEF RInv, RequestsInv, AppendChunk
  <2> QED BY <1>6, <1>7, <2>1 DEF AppendChunk
<1>8. ASSUME NEW r \in Request, AppendFails(r) PROVE disk'[c] = <<>>
  BY <1>2, <1>6, <1>8 DEF AppendFails
<1>9. CASE Restart
  BY <1>2, <1>9 DEF Restart, server
<1>10. CASE UNCHANGED vars
  BY <1>2, <1>10 DEF vars, server
<1> QED BY <1>2, <1>3, <1>4, <1>5, <1>7, <1>8, <1>9, <1>10 DEF Next

\* "Rejecting before any bytes are written": by no retry, of no size, and by no
\* append that fails part-way does a byte of a binary file get to the disk.
THEOREM BinaryIsKeptOut == Spec => []NoBinaryIsStored
<1>1. Init => NoBinaryIsStored
  BY Zenon DEF Init, NoBinaryIsStored
<1>2. RInv /\ NoBinaryIsStored /\ [Next]_vars => NoBinaryIsStored'
  BY NoBinaryStep
<1> QED BY <1>1, <1>2, RequestsInvariant, PTL DEF Spec
----------------------------------------------------------------------------
(* Texts that are cut *)

\* A character is its lead and the continuations that it asks for, all there.
LEMMA CharacterBytes ==
  ASSUME NEW s \in Seq(ByteClass), NEW i \in 1..Len(s), IsCharacter(s, i)
  PROVE  /\ CharLength[s[i]] \in 1..4
         /\ i + CharLength[s[i]] - 1 <= Len(s)
         /\ \A k \in 1..(CharLength[s[i]] - 1) : s[i + k] = "cont"
         /\ s[i] # "cont"
BY AcceptedBytes DEF IsCharacter

\* Two characters share no byte.
LEMMA CharactersAreApart ==
  ASSUME NEW s \in Seq(ByteClass), NEW i \in 1..Len(s), NEW j \in 1..Len(s),
         IsCharacter(s, i), IsCharacter(s, j), i < j
  PROVE  i + CharLength[s[i]] <= j
<1>1. PICK n : n = CharLength[s[i]]
  OBVIOUS
<1>2. n \in 1..4 /\ (\A k \in 1..(n - 1) : s[i + k] = "cont") /\ s[j] # "cont"
  BY <1>1, CharacterBytes
<1>3. ASSUME i + n > j PROVE FALSE
  <2>1. j - i \in 1..(n - 1) /\ i + (j - i) = j
    BY <1>2, <1>3
  <2> QED BY <1>2, <2>1
<1> QED BY <1>1, <1>2, <1>3

\* A character that is whole in a beginning is one there.
LEMMA WholeInABeginning ==
  ASSUME NEW s \in Seq(ByteClass), NEW p \in Seq(ByteClass), Len(p) <= Len(s),
         \A i \in 1..Len(p) : p[i] = s[i],
         NEW q \in 1..Len(p), IsCharacter(s, q), q + CharLength[s[q]] - 1 <= Len(p)
  PROVE  IsCharacter(p, q)
<1>1. PICK n : n = CharLength[s[q]]
  OBVIOUS
<1>0. Len(s) \in Nat /\ Len(p) \in Nat
  BY LenProperties
<1>2. /\ n \in 1..4 /\ q + n - 1 <= Len(p)
      /\ \A k \in 1..(n - 1) : s[q + k] = "cont"
  BY <1>0, <1>1, CharacterBytes
<1>3. p[q] = s[q]
  OBVIOUS
<1>4. \A k \in 1..(n - 1) : p[q + k] = "cont"
  <2> TAKE k \in 1..(n - 1)
  <2>1. q + k \in 1..Len(p)
    BY <1>0, <1>2
  <2> QED BY <1>2, <2>1
<1>5. Accepted(p, q) \in 1..n /\ n <= Accepted(p, q)
  <2>1. n \in 1..CharLength[p[q]] /\ CharLength[p[q]] = n
    BY <1>1, <1>2, <1>3
  <2> QED BY <1>2, <1>4, <2>1, AcceptedBytes
<1>6. Accepted(p, q) = CharLength[p[q]]
  BY <1>1, <1>2, <1>3, <1>5
<1> QED BY <1>3, <1>6 DEF IsCharacter

\* There is a last boundary up to n.
LEMMA LastBoundary ==
  ASSUME NEW s \in Seq(ByteClass), NEW n \in Nat
  PROVE  \E b \in Boundaries(s) : b <= n /\ \A d \in Boundaries(s) : d <= n => d <= b
<1> DEFINE upTo == {d \in Boundaries(s) : d >= 1 /\ d <= n}
<1>1. \A d \in Boundaries(s) : d \in Nat
  <2>1. \A k \in 1..Len(s) : IsCharacter(s, k) => k + CharLength[s[k]] - 1 \in Nat
    BY LenProperties, CharacterBytes
  <2> QED BY <2>1 DEF Boundaries
<1>2. CASE upTo = {}
  <2>1. 0 \in Boundaries(s)
    BY DEF Boundaries
  <2> QED BY <1>1, <1>2, <2>1
<1>3. CASE upTo # {}
  <2>1. upTo \in SUBSET (1..n)
    BY <1>1
  <2>2. PICK b \in upTo : \A d \in upTo : d <= b
    <3> HIDE DEF upTo
    <3> QED BY <1>3, <2>1, LastOf
  <2> QED BY <1>1, <2>2
<1> QED BY <1>2, <1>3

\* What is stray in a beginning of a text belongs to the character that it ends in.
LEMMA StrayIsCutOff ==
  ASSUME NEW s \in Seq(ByteClass), IsText(s),
         NEW p \in Seq(ByteClass), Len(p) <= Len(s),
         \A i \in 1..Len(p) : p[i] = s[i]
  PROVE  CutOff(s, Len(p)) \in Nat /\ Cardinality(Stray(p)) <= CutOff(s, Len(p))
<1>1. PICK n : n = Len(p)
  OBVIOUS
<1>2. n \in Nat /\ Len(s) \in Nat /\ n <= Len(s)
  BY <1>1, LenProperties
<1>3. PICK b : b = CHOOSE c \in Boundaries(s) :
                     c <= n /\ \A d \in Boundaries(s) : d <= n => d <= c
  OBVIOUS
<1>4. b \in Boundaries(s) /\ b <= n
  BY <1>2, <1>3, LastBoundary
<1>5. CutOff(s, n) = n - b
  BY <1>3 DEF CutOff
<1>6. b \in Nat
  <2>1. \A k \in 1..Len(s) : IsCharacter(s, k) => k + CharLength[s[k]] - 1 \in Nat
    BY <1>2, CharacterBytes
  <2> QED BY <1>4, <2>1 DEF Boundaries
<1>7. ASSUME NEW x \in Stray(p), x <= b PROVE FALSE
  <2>1. x \in 1..n /\ x \in 1..Len(s)
    BY <1>1, <1>2 DEF Stray
  <2>2. PICK q \in 1..x : IsCharacter(s, q) /\ q + CharLength[s[q]] > x
    BY <2>1 DEF IsText, Stray
  <2>3. PICK i \in 1..Len(s) : IsCharacter(s, i) /\ b = i + CharLength[s[i]] - 1
    BY <1>4, <1>7, <2>1 DEF Boundaries
  <2>4. PICK m \in 1..4, w \in 1..4 : m = CharLength[s[i]] /\ w = CharLength[s[q]]
    BY <1>2, <2>1, <2>2, <2>3, CharacterBytes
  <2>5. q \in Nat /\ x \in Nat /\ q <= x /\ i \in Nat
    BY <1>2, <2>1, <2>2, <2>3
  <2>6. b = i + m - 1
    BY <2>3, <2>4
  <2>7. q + w <= b + 1
    <3>1. CASE q = i
      BY <2>3, <2>4, <3>1
    <3>2. CASE q < i
      <4>1. q + w <= i
        BY <1>2, <2>1, <2>2, <2>3, <2>4, <3>2, CharactersAreApart
      <4> QED BY <1>6, <2>5, <2>6, <4>1
    <3>3. CASE i < q
      <4>1. i + m <= q
        BY <1>2, <2>1, <2>2, <2>3, <2>4, <3>3, CharactersAreApart
      <4> QED BY <1>6, <1>7, <2>5, <2>6, <4>1
    <3> QED BY <1>2, <2>1, <2>2, <2>3, <3>1, <3>2, <3>3
  <2>8. q \in 1..n /\ q + w - 1 <= n
    BY <1>2, <1>4, <1>6, <2>1, <2>2, <2>4, <2>7
  <2>9. IsCharacter(p, q) /\ p[q] = s[q]
    BY <1>1, <2>2, <2>4, <2>8, WholeInABeginning
  <2> QED BY <1>7, <2>2, <2>9 DEF Stray
<1>8. Stray(p) \subseteq (b + 1)..n
  BY <1>1, <1>2, <1>6, <1>7 DEF Stray
<1>9. IsFiniteSet((b + 1)..n) /\ Cardinality((b + 1)..n) = n - b
  <2>1. PICK a \in Int, e \in Int : a = b + 1 /\ e = n
    BY <1>2, <1>6
  <2>2. IsFiniteSet(a..e) /\ Cardinality(a..e) = IF a > e THEN 0 ELSE e - a + 1
    BY FS_Interval
  <2> QED BY <1>2, <1>4, <1>6, <2>1, <2>2
<1>10. Cardinality(Stray(p)) <= n - b
  BY <1>8, <1>9, FS_Subset
<1> QED BY <1>1, <1>2, <1>4, <1>5, <1>6, <1>10

\* More of them make more than one in OneIn.
LEMMA MoreIsMore ==
  ASSUME NEW x \in Nat, NEW y \in Nat, x <= y, NEW n \in Nat, x * OneIn > n
  PROVE  y * OneIn > n
<1>1. PICK k \in Nat : k = OneIn
  BY SampleAssumption
<1>2. PICK d \in Nat : y = x + d
  <2>1. y - x \in Nat /\ y = x + (y - x)
    OBVIOUS
  <2> QED BY <2>1
<1>3. (x + d) * k = x * k + d * k
  OBVIOUS
<1>4. d * k \in Nat /\ x * k \in Nat
  OBVIOUS
<1> QED BY <1>1, <1>2, <1>3, <1>4

\* A text is refused for nothing but the character that its first chunk, or the
\* sample, ends in.
THEOREM OnlyCutTextIsRefused == Spec => []TextIsRefusedOnlyIfCut
<1>1. RInv => TextIsRefusedOnlyIfCut
  <2> SUFFICES ASSUME RInv, NEW r \in InBody, Refusal(r) = "415",
                      IsText(content[request[r].client])
               PROVE  CutOff(content[request[r].client], Len(Probe(Body(r)))) * OneIn
                        > Len(Probe(Body(r)))
    BY Zenon DEF TextIsRefusedOnlyIfCut
  <2>1. PICK text, p : text = content[request[r].client] /\ p = Probe(Body(r))
    OBVIOUS
  <2>2. r \in Request /\ request[r].at = "body"
    BY DEF InBody
  <2>3. request[r].offset = 0 /\ LooksLikeBinary(Body(r))
    BY DEF Refusal
  <2>4. /\ text \in Seq(ByteClass) /\ Body(r) \in Seq(ByteClass)
        /\ Len(Body(r)) \in Nat /\ Len(Body(r)) <= Len(text) /\ Len(text) \in Nat
        /\ \A i \in 1..Len(Body(r)) : Body(r)[i] = text[i]
    BY <2>1, <2>2, <2>3, BodyIsABeginning, LenProperties
  <2>5. /\ p \in Seq(ByteClass) /\ Len(p) \in Nat /\ Len(p) <= Len(Body(r))
        /\ \A i \in 1..Len(p) : p[i] = Body(r)[i]
    BY <2>1, <2>4, ProbeIsABeginning
  <2>6. Len(p) <= Len(text) /\ \A i \in 1..Len(p) : p[i] = text[i]
    BY <2>4, <2>5
  <2>7. \A i \in 1..Len(p) : p[i] # "nul"
    BY <2>1, <2>4, <2>5, <2>6 DEF IsText
  <2>8. Cardinality(Stray(p)) * OneIn > Len(p)
    <3>1. InvalidBytes(p) * OneIn > Len(p)
      BY <2>1, <2>3, <2>7, Zenon DEF LooksLikeBinary
    <3> QED BY <2>5, <3>1, DecoderCountsStrayBytes
  <2>9. CutOff(text, Len(p)) \in Nat /\ Cardinality(Stray(p)) <= CutOff(text, Len(p))
    BY <2>1, <2>4, <2>5, <2>6, StrayIsCutOff
  <2>10. Cardinality(Stray(p)) \in Nat
    <3>1. IsFiniteSet(1..Len(p)) /\ Stray(p) \subseteq 1..Len(p)
      BY <2>5, FS_Interval DEF Stray
    <3> QED BY <3>1, FS_Subset, FS_CardinalityType
  <2> QED BY <2>1, <2>5, <2>8, <2>9, <2>10, MoreIsMore
<1> QED BY <1>1, RequestsInvariant, PTL
=============================================================================
