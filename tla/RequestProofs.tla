--------------------------- MODULE RequestProofs ---------------------------
(***************************************************************************)
(* Proofs about RequestDaemon, for every set of requesters, strangers,     *)
(* jobs, contents and faults, and every value of the bounds.               *)
(***************************************************************************)
EXTENDS RequestDaemon, FiniteSetTheorems, TLAPS

LEMMA RequestTypes ==
    ASSUME NEW n \in Attempts, job[n[1]] \in Jobs
    PROVE  /\ Request(n) \in Messages
           /\ Request(n).type = "credential-request"
           /\ Request(n).agent = n[2] /\ Request(n).nonce = n
<1>1. job[n[1]] \in JobSet
  BY RequestAssumption
<1>2. job[n[1]].pw \in Passphrases
  BY <1>1 DEF JobSet
<1>3. n[2] \in Agents
  BY DEF Attempts
<1> QED
  BY <1>2, <1>3 DEF Request, Messages

(* Whoever is named in a request has a job. *)
LEMMA AskedHasJob ==
    ASSUME RequestersInv, NEW n \in Attempts, result[n] # "none"
    PROVE  job[n[1]] \in Jobs
<1>1. n[1] \in Requesters /\ n[2] \in Agents /\ n = <<n[1], n[2]>>
  BY DEF Attempts
<1>2. reqPc[n[1]] # "idle"
  BY <1>1 DEF RequestersInv, Progress
<1> QED
  BY <1>1, <1>2 DEF RequestersInv, Progress

LEMMA RequestFaithful ==
    ASSUME RequestersInv, NEW n \in Attempts, result[n] # "none"
    PROVE  Request(n) \in Messages /\ Faithful(Request(n))
BY AskedHasJob, RequestTypes DEF Faithful

LEMMA RecordedFaithful ==
    ASSUME TypeOK, RequestersInv, RepliesInv, NEW m \in Recorded
    PROVE  m \in Messages \cup {Nothing, Garbage} /\ Faithful(m)
<1>1. CASE \E n \in Attempts : result[n] # "none" /\ m = Request(n)
  BY <1>1, RequestFaithful
<1>2. CASE \E c \in Connections : m = resp[c]
  BY <1>2 DEF RepliesInv, TypeOK
<1> QED
  BY <1>1, <1>2 DEF Recorded

LEMMA DeliveredFaithful ==
    ASSUME IInv, pc = "reading", NEW m \in Delivered(serving)
    PROVE  m \in Messages \cup {Nothing, Garbage} /\ Faithful(m)
<1> USE DEF IInv
<1>1. CASE m = Garbage
  BY <1>1, RequestAssumption DEF Faithful
<1>2. CASE m \in Recorded
  BY <1>2, RecordedFaithful
<1>3. CASE m = Request(serving) /\ serving \notin Strangers
  <2>1. serving \in Attempts /\ result[serving] # "none"
    BY <1>3 DEF DaemonInv, Connections, Known
  <2> QED
    BY <1>3, <2>1, RequestFaithful
<1> QED
  BY <1>1, <1>2, <1>3 DEF Delivered

LEMMA StoredTypes ==
    ASSUME NEW a \in Agents, NEW d \in Documents
    PROVE  /\ Stored(a, d) \in Documents
           /\ Usable(a, d) => Usable(a, Stored(a, d))
<1>1. CASE a = "claude" /\ ~KeychainService
  <2>1. Stored(a, d) = [id |-> d.id, form |-> "object", shape |-> d.shape, exp |-> d.exp,
                        due |-> d.due]
    BY <1>1 DEF Stored, Documents
  <2> QED
    BY <1>1, <2>1 DEF Documents, Forms, Usable, Parses, Shaped
<1>2. CASE ~(a = "claude" /\ ~KeychainService)
  BY <1>2 DEF Stored
<1> QED
  BY <1>1, <1>2

(* What is imported is a document, made for this very request. *)
LEMMA GoodReplyGives ==
    ASSUME TypeOK, RepliesInv, NEW r \in Requesters, GoodReply(r)
    PROVE  /\ AnswerTo(r).content \in Documents
           /\ AnswerTo(r).content \in seen[Current(r)] \ Failures
           /\ Usable(trying[r], AnswerTo(r).content)
<1> PICK m : m = AnswerTo(r)
  OBVIOUS
<1>1. Current(r) \in Attempts /\ Current(r) \in Connections
  BY DEF Current, TypeOK, Attempts, Connections
<1>2. m \in Messages /\ m.type = "credential-response" /\ m.nonce = Current(r)
      /\ m.content \notin Failures
  BY <1>1 DEF GoodReply, Answers, Decrypts, AnswerTo, TypeOK
<1>3. m.content \in seen[Current(r)]
  BY <1>1, <1>2 DEF AnswerTo, RepliesInv, Faithful
<1>4. seen[Current(r)] \subseteq Contents \cup Failures
  BY <1>1 DEF TypeOK
<1>5. m.content \in Documents
  BY <1>2, <1>3, <1>4, RequestAssumption
<1>6. Importable(trying[r], m.content, ForceWrite(r))
  BY DEF GoodReply
<1> QED
  BY <1>2, <1>3, <1>5, <1>6 DEF Importable, Usable, ValidateBlob
---------------------------------------------------------------------------
LEMMA AttemptEndTypes ==
    ASSUME TypeOK, NEW r \in Requesters, NEW o \in {"imported", "refused", "failed"},
           AttemptEnds(r, o), store' \in [Requesters -> [Agents -> Documents]]
    PROVE  TypeOK'
<1>1. Current(r) \in Attempts /\ Current(r) \in Connections
  BY DEF Current, TypeOK, Attempts, Connections
<1>2. ExitStatus(r, o) \in {"success", "failure"}
  BY DEF ExitStatus
<1>3. UNCHANGED <<job, todo, trying, conn, left, flight, resp, daemonVars, server, now>>
  BY DEF AttemptEnds
<1>4. /\ result' \in [Attempts -> {"none", "asked", "imported", "refused", "failed"}]
      /\ eof' \in [Connections -> BOOLEAN]
      /\ forced' \in [Requesters -> BOOLEAN]
      /\ payload' \in [Requesters -> Documents \cup {Nothing}]
      /\ spare' \in [Requesters -> Nat]
  BY <1>1 DEF AttemptEnds, TypeOK
<1>5. /\ reqPc' \in [Requesters -> {"idle", "choosing", "connecting", "sending", "reading",
                                    "importing", "done"}]
      /\ exit' \in [Requesters -> {"none", "success", "failure", "interrupted"}]
  BY <1>2 DEF AttemptEnds, TypeOK
<1> QED
  BY <1>3, <1>4, <1>5 DEF TypeOK, daemonVars

LEMMA WriteStoreTypes ==
    ASSUME TypeOK, RequestersInv, NEW r \in Requesters, reqPc[r] = "importing", WriteStore(r)
    PROVE  /\ payload[r] \in Documents /\ Usable(trying[r], payload[r])
           /\ store' \in [Requesters -> [Agents -> Documents]]
<1>1. /\ payload[r] \in seen[Current(r)] \ Failures /\ Usable(trying[r], payload[r])
      /\ trying[r] \in Agents /\ Current(r) \in Attempts
  BY DEF RequestersInv, Imports, TypeOK, Current, Attempts
<1>2. seen[Current(r)] \subseteq Contents \cup Failures
  BY <1>1 DEF TypeOK
<1>3. payload[r] \in Documents
  BY <1>1, <1>2, RequestAssumption
<1>4. Stored(trying[r], payload[r]) \in Documents
  BY <1>1, <1>3, StoredTypes
<1> QED
  BY <1>1, <1>3, <1>4 DEF WriteStore, TypeOK

LEMMA AttemptFailTypes ==
    ASSUME TypeOK, NEW r \in Requesters, NEW o \in {"refused", "failed"}, AttemptFails(r, o)
    PROVE  TypeOK'
<1>1. store' \in [Requesters -> [Agents -> Documents]] /\ AttemptEnds(r, o)
  BY DEF AttemptFails, TypeOK
<1> QED
  BY <1>1, AttemptEndTypes

LEMMA EnqueueTypes ==
    ASSUME TypeOK, NEW c \in Connections, Enqueue(c)
    PROVE  /\ queue' \in Seq(Connections)
           /\ conn' \in [Connections -> {"none", "queued", "open", "closed", "reset"}]
BY DEF Enqueue, TypeOK

LEMMA RequesterTypes ==
    ASSUME TypeOK, RequestersInv, RepliesInv, NEW r \in Requesters, RequesterStep(r)
    PROVE  TypeOK'
<1>1. Current(r) \in Attempts /\ Current(r) \in Connections
  BY DEF Current, TypeOK, Attempts, Connections
<1>2. CASE Begin(r)
  <2>1. PICK a \in Agents : /\ trying' = [trying EXCEPT ![r] = a]
                            /\ todo' = [todo EXCEPT ![r] = @ \ {a}]
                            /\ result' = [result EXCEPT ![<<r, a>>] = "asked"]
    BY <1>2 DEF Begin, Agents
  <2>2. spare' \in [Requesters -> Nat]
    BY <1>2, RequestAssumption DEF Begin, TypeOK
  <2> QED
    BY <1>2, <2>1, <2>2 DEF Begin, TypeOK, Attempts, connVars, daemonVars
<1>3. CASE Connect(r)
  <2>1. Enqueue(Current(r))
    BY <1>3 DEF Connect
  <2>2. /\ queue' \in Seq(Connections)
        /\ conn' \in [Connections -> {"none", "queued", "open", "closed", "reset"}]
    BY <1>1, <2>1, EnqueueTypes
  <2>3. spare' \in [Requesters -> Nat]
    BY <1>3, RequestAssumption DEF Connect, TypeOK
  <2>4. reqPc' \in [Requesters -> {"idle", "choosing", "connecting", "sending", "reading",
                                   "importing", "done"}]
    BY <1>3 DEF Connect, TypeOK
  <2> QED
    BY <1>3, <2>1, <2>2, <2>3, <2>4 DEF Connect, Enqueue, TypeOK
<1>4. CASE SendRequest(r)
  BY <1>1, <1>4 DEF SendRequest, TypeOK, daemonVars
<1>5. CASE ExchangeFails(r) \/ ReplyTimesOut(r) \/ BadReply(r) \/ ErrorReply(r)
           \/ InvalidReply(r) \/ WriteFails(r)
  BY <1>5, AttemptFailTypes
     DEF ExchangeFails, ReplyTimesOut, BadReply, ErrorReply, InvalidReply, WriteFails
<1>6. CASE GoodReply(r)
  <2>1. AnswerTo(r).content \in Documents
    BY <1>6, GoodReplyGives
  <2>2. ForceWrite(r) \in BOOLEAN
    <3>1. reqPc[r] # "idle"
      BY <1>6 DEF GoodReply, Replied
    <3>2. job[r] \in JobSet
      BY <3>1, RequestAssumption DEF RequestersInv, Progress
    <3> QED
      BY <3>2 DEF ForceWrite, JobSet
  <2> QED
    BY <1>6, <2>1, <2>2 DEF GoodReply, TypeOK, connVars, daemonVars
<1>7. CASE Write(r) \/ WriteTimesOut(r)
  <2>1. reqPc[r] = "importing" /\ WriteStore(r)
        /\ \E o \in {"imported", "failed"} : AttemptEnds(r, o)
    BY <1>7 DEF Write, WriteTimesOut
  <2> QED
    BY <2>1, WriteStoreTypes, AttemptEndTypes
<1> QED
  BY <1>2, <1>3, <1>4, <1>5, <1>6, <1>7 DEF RequesterStep

LEMMA InterruptedTypes ==
    ASSUME TypeOK, NEW r \in Requesters, Interrupted(r)
    PROVE  TypeOK'
<1>1. Current(r) \in Attempts /\ Current(r) \in Connections
  BY DEF Current, TypeOK, Attempts, Connections
<1>2. /\ result' \in [Attempts -> {"none", "asked", "imported", "refused", "failed"}]
      /\ eof' \in [Connections -> BOOLEAN]
  BY <1>1 DEF Interrupted, TypeOK
<1> QED
  BY <1>2 DEF Interrupted, TypeOK, daemonVars

LEMMA StrangerTypes ==
    ASSUME TypeOK, NEW c \in Strangers, StrangerStep(c)
    PROVE  TypeOK'
<1>1. c \in Connections
  BY DEF Connections
<1>2. CASE \E size \in Sizes : StrangerConnects(c, size)
  <2>1. PICK size \in Sizes : StrangerConnects(c, size)
    BY <1>2
  <2>2. Enqueue(c) /\ left' \in [Connections -> Nat]
    BY <1>1, <2>1, RequestAssumption DEF StrangerConnects, TypeOK
  <2>3. /\ queue' \in Seq(Connections)
        /\ conn' \in [Connections -> {"none", "queued", "open", "closed", "reset"}]
    BY <1>1, <2>2, EnqueueTypes
  <2> QED
    BY <2>1, <2>2, <2>3 DEF StrangerConnects, Enqueue, TypeOK, requesterVars
<1>3. CASE StrangerSends(c)
  BY <1>1, <1>3 DEF StrangerSends, TypeOK, requesterVars, daemonVars
<1>4. CASE StrangerCloses(c)
  BY <1>1, <1>4 DEF StrangerCloses, TypeOK, requesterVars, daemonVars
<1> QED
  BY <1>2, <1>3, <1>4 DEF StrangerStep

LEMMA NetworkTypes ==
    ASSUME TypeOK, RequestersInv, RepliesInv, NEW c \in Connections,
           CorruptReply(c) \/ Misdeliver(c)
    PROVE  TypeOK'
<1>1. PICK m \in Recorded \cup {Garbage} : resp' = [resp EXCEPT ![c] = m]
  BY DEF CorruptReply, Misdeliver
<1>2. m \in Messages \cup {Nothing, Garbage}
  BY <1>1, RecordedFaithful
<1> QED
  BY <1>1, <1>2 DEF CorruptReply, Misdeliver, TypeOK, requesterVars, daemonVars
LEMMA ResponseTypes ==
    ASSUME TypeOK, IsRequest(heard)
    PROVE  /\ Response \in Messages /\ Response.type = "credential-response"
           /\ heard \in Messages
           /\ Response.agent = heard.agent /\ Response.nonce = heard.nonce
           /\ Response.content = answer
<1>1. heard \in Messages
  BY DEF IsRequest, Decrypts, TypeOK
<1>2. heard.agent \in Agents /\ heard.nonce \in Attempts
  BY <1>1 DEF Messages
<1> QED
  BY <1>1, <1>2, RequestAssumption DEF Response, Messages, TypeOK

LEMMA CloseTypes ==
    ASSUME TypeOK, NEW reply \in Messages \cup {Nothing, Garbage}, Close(reply)
    PROVE  TypeOK'
BY DEF Close, Idle, TypeOK, requesterVars

LEMMA StopsTypes ==
    ASSUME TypeOK, NEW why \in {"interrupt", "error"}, Stops(why)
    PROVE  TypeOK'
<1>1. conn' \in [Connections -> {"none", "queued", "open", "closed", "reset"}]
  <2> DEFINE after(c) == IF conn[c] = "queued" \/ (conn[c] = "open" /\ flight[c] > 0) THEN "reset"
                         ELSE IF conn[c] = "open" THEN "closed" ELSE conn[c]
  <2>1. \A c \in Connections : after(c) \in {"none", "queued", "open", "closed", "reset"}
    BY DEF TypeOK
  <2>2. conn' = [c \in Connections |-> after(c)]
    BY DEF Stops
  <2> HIDE DEF after
  <2> QED
    BY <2>1, <2>2
<1>2. queue' \in Seq(Connections)
  BY DEF Stops
<1> QED
  BY <1>1, <1>2 DEF Stops, Idle, TypeOK, requesterVars

LEMMA DaemonTypes ==
    ASSUME IInv, DaemonStep \/ ReadFails
    PROVE  TypeOK'
<1> USE DEF IInv
<1>1. CASE Accept
  <2>1. Head(queue) \in Connections /\ Tail(queue) \in Seq(Connections)
    BY <1>1 DEF Accept, TypeOK
  <2> QED
    BY <1>1, <2>1, RequestAssumption DEF Accept, TypeOK, requesterVars
<1>2. CASE ReadBlock
  <2>1. serving \in Connections /\ flight[serving] \in Nat /\ flight[serving] > 0
    BY <1>2 DEF ReadBlock, DaemonInv, TypeOK
  <2> QED
    BY <1>2, <2>1 DEF ReadBlock, TypeOK, requesterVars
<1>3. CASE ReadTooMuch \/ ReadTimesOut \/ ReadFails \/ RejectRequest \/ TooLate \/ SendFails
  BY <1>3, CloseTypes
     DEF ReadTooMuch, ReadTimesOut, ReadFails, RejectRequest, TooLate, SendFails, Hangup
<1>4. CASE ReadEof
  <2>1. heard' \in Messages \cup {Nothing, Garbage}
    BY <1>4, DeliveredFaithful DEF ReadEof
  <2> QED
    BY <1>4, <2>1 DEF ReadEof, TypeOK, requesterVars, connVars
<1>5. CASE ReadStore
  <2>1. heard.agent \in Agents /\ heard.nonce \in Attempts
    BY <1>5, ResponseTypes DEF ReadStore, Messages
  <2>2. PICK content \in {server[heard.agent]} \cup Failures :
           /\ answer' = content
           /\ seen' = [seen EXCEPT ![heard.nonce] = @ \cup {content}]
    BY <1>5 DEF ReadStore
  <2>3. content \in Contents \cup Failures
    BY <2>1, <2>2 DEF TypeOK
  <2>4. seen' \in [Attempts -> SUBSET (Contents \cup Failures)]
    BY <2>1, <2>2, <2>3 DEF TypeOK
  <2> QED
    BY <1>5, <2>2, <2>3, <2>4 DEF ReadStore, TypeOK, requesterVars, connVars
<1>6. CASE SendResponse
  BY <1>6, CloseTypes, ResponseTypes DEF SendResponse, DaemonInv
<1> QED
  BY <1>1, <1>2, <1>3, <1>4, <1>5, <1>6 DEF DaemonStep

LEMMA TypeStep ==
    ASSUME IInv, [Next]_vars
    PROVE  TypeOK'
<1> USE DEF IInv
<1>1. ASSUME NEW r \in Requesters, NEW j \in Jobs, Start(r, j)
      PROVE  TypeOK'
  <2>1. j.agents \in SUBSET Agents
    BY RequestAssumption DEF JobSet
  <2> QED
    BY <1>1, <2>1 DEF Start, TypeOK, connVars, daemonVars
<1>2. ASSUME NEW r \in Requesters, RequesterStep(r) \/ Interrupted(r)
      PROVE  TypeOK'
  BY <1>2, RequesterTypes, InterruptedTypes
<1>3. ASSUME NEW c \in Strangers, StrangerStep(c)
      PROVE  TypeOK'
  BY <1>3, StrangerTypes
<1>4. CASE DaemonStep \/ ReadFails
  BY <1>4, DaemonTypes
<1>5. CASE Serve
  BY <1>5 DEF Serve, TypeOK, requesterVars, connVars
<1>6. CASE DaemonInterrupted \/ AcceptFails
  BY <1>6, StopsTypes DEF DaemonInterrupted, AcceptFails
<1>7. ASSUME NEW c \in Connections, CorruptReply(c) \/ Misdeliver(c)
      PROVE  TypeOK'
  BY <1>7, NetworkTypes
<1>8. CASE OwnerWrites
  BY <1>8 DEF OwnerWrites, TypeOK, requesterVars, connVars, daemonVars
<1>9. CASE Tick
  <2>1. /\ \A r \in Requesters : Less(spare[r]) \in Nat
        /\ Less(budget) \in Nat
    BY DEF Less, TypeOK
  <2>2. spare' \in [Requesters -> Nat]
    BY <1>9, <2>1 DEF Tick
  <2> QED
    BY <1>9, <2>1, <2>2 DEF Tick, TypeOK, connVars
<1>10. CASE TimeOfDay
  BY <1>10 DEF TimeOfDay, TypeOK, requesterVars, connVars, daemonVars
<1>11. CASE UNCHANGED vars
  BY <1>11 DEF vars, TypeOK, requesterVars, connVars, daemonVars
<1> QED
  BY <1>1, <1>2, <1>3, <1>4, <1>5, <1>6, <1>7, <1>8, <1>9, <1>10, <1>11 DEF Next
---------------------------------------------------------------------------
(* The rest of IInv, action by action. *)

Safe == RequestersInv /\ RepliesInv /\ DaemonInv

LEMMA JobAgents ==
    ASSUME NEW j \in Jobs
    PROVE  j.agents \subseteq Agents /\ j.agents # {}
<1>1. j \in JobSet
  BY RequestAssumption
<1> QED
  BY <1>1 DEF JobSet

KnownQueue == \A i \in 1..Len(queue) : Known(queue[i])

(* A requester that does not move keeps what holds of it. *)
LEMMA StaysPut ==
    ASSUME NEW q \in Requesters, Progress(q) /\ Exits(q) /\ Imports(q),
           reqPc'[q] = reqPc[q], job'[q] = job[q], todo'[q] = todo[q], trying'[q] = trying[q],
           payload'[q] = payload[q], forced'[q] = forced[q], exit'[q] = exit[q],
           todo[q] \subseteq Agents, trying[q] \in Agents,
           \A a \in Agents : result'[<<q, a>>] = result[<<q, a>>],
           \A n \in Attempts : seen[n] \subseteq seen'[n]
    PROVE  Progress(q)' /\ Exits(q)' /\ Imports(q)'
<1>1. reqPc[q] # "idle" => job[q].agents \subseteq Agents
  BY JobAgents DEF Progress
<1>2. Progress(q)'
  BY <1>1 DEF Progress, Attempting, Told, Current
<1>3. Exits(q)'
  BY <1>1 DEF Exits, Told
<1>4. Imports(q)'
  BY DEF Imports, Current, ForceWrite, Attempts
<1> QED
  BY <1>2, <1>3, <1>4

(* What is on the wire and in the daemon stays faithful while requests are  *)
(* made and stores are read.                                                *)
LEMMA StaysFaithful ==
    ASSUME IInv, UNCHANGED <<resp, heard, pc, serving, budget, held, answer>>,
           \A n \in Attempts : /\ result[n] # "none" => result'[n] # "none"
                               /\ seen[n] \subseteq seen'[n],
           KnownQueue'
    PROVE  RepliesInv' /\ DaemonInv'
<1> USE DEF IInv
<1>1. \A m : Faithful(m) => Faithful(m)'
  BY DEF Faithful, Messages
<1>2. Known(serving) => Known(serving)'
  BY DEF Known
<1>3. RepliesInv'
  BY <1>1 DEF RepliesInv
<1>4. Faithful(heard)'
  BY <1>1 DEF DaemonInv
<1>5. pc = "answering" => answer \in seen'[heard.nonce]
  <2>1. CASE pc = "answering"
    <3>1. heard.nonce \in Attempts /\ answer \in seen[heard.nonce]
      BY <2>1, ResponseTypes DEF DaemonInv, Messages
    <3> QED
      BY <3>1
  <2> QED
    BY <2>1
<1> QED
  BY <1>2, <1>3, <1>4, <1>5 DEF DaemonInv, IsRequest, KnownQueue

LEMMA SameQueue ==
    ASSUME IInv, UNCHANGED queue,
           \A n \in Attempts : result[n] # "none" => result'[n] # "none"
    PROVE  KnownQueue'
BY DEF IInv, DaemonInv, KnownQueue, Known

LEMMA AttemptEndSafe ==
    ASSUME IInv, NEW r \in Requesters, Attempting(r),
           NEW o \in {"imported", "refused", "failed"}, AttemptEnds(r, o)
    PROVE  Safe'
<1> USE DEF IInv
<1>1. /\ UNCHANGED <<job, todo, trying, resp, heard, pc, serving, budget, held, answer, queue, seen>>
      /\ result' = [result EXCEPT ![Current(r)] = o]
      /\ Current(r) = <<r, trying[r]>> /\ Current(r) \in Attempts /\ trying[r] \in Agents
  BY DEF AttemptEnds, daemonVars, Current, TypeOK, Attempts
<1>2. ASSUME NEW q \in Requesters, q # r
      PROVE  Progress(q)' /\ Exits(q)' /\ Imports(q)'
  <2>1. /\ reqPc'[q] = reqPc[q] /\ payload'[q] = payload[q] /\ forced'[q] = forced[q]
        /\ exit'[q] = exit[q]
    BY <1>2 DEF AttemptEnds, TypeOK
  <2>2. \A a \in Agents : result'[<<q, a>>] = result[<<q, a>>]
    BY <1>1, <1>2 DEF TypeOK, Attempts
  <2>3. todo[q] \subseteq Agents /\ trying[q] \in Agents
    BY DEF TypeOK
  <2> QED
    BY <1>1, <2>1, <2>2, <2>3, StaysPut DEF RequestersInv
<1>3. /\ job[r] \in Jobs /\ job[r].agents \subseteq Agents
      /\ todo[r] \subseteq job[r].agents /\ trying[r] \in job[r].agents \ todo[r]
      /\ \A a \in todo[r] : result[<<r, a>>] = "none"
      /\ \A a \in job[r].agents \ todo[r] : a = trying[r] \/ Told(<<r, a>>)
  BY JobAgents DEF RequestersInv, Progress, Attempting
<1>4. /\ result'[<<r, trying[r]>>] = o
      /\ \A a \in Agents \ {trying[r]} : result'[<<r, a>>] = result[<<r, a>>]
  BY <1>1 DEF TypeOK, Attempts
<1>5. \A a \in job[r].agents \ todo[r] : Told(<<r, a>>)'
  BY <1>3, <1>4 DEF Told
<1>6. ASSUME todo[r] # {}
      PROVE  Progress(r)' /\ Exits(r)' /\ Imports(r)'
  <2>1. reqPc'[r] = "choosing" /\ exit'[r] = exit[r] /\ exit[r] = "none"
    BY <1>6 DEF AttemptEnds, TypeOK, Attempting, RequestersInv, Exits
  <2>2. Progress(r)'
    BY <1>1, <1>3, <1>4, <1>5, <1>6, <2>1 DEF Progress, Attempting
  <2>3. Exits(r)' /\ Imports(r)'
    BY <2>1 DEF Exits, Imports
  <2> QED
    BY <2>2, <2>3
<1>7. ASSUME todo[r] = {}
      PROVE  Progress(r)' /\ Exits(r)' /\ Imports(r)'
  <2>1. reqPc'[r] = "done" /\ exit'[r] = ExitStatus(r, o)
    BY <1>7 DEF AttemptEnds, TypeOK
  <2>2. Progress(r)' /\ Imports(r)'
    BY <1>1, <1>3, <2>1 DEF Progress, Attempting, Imports
  <2>3. ExitStatus(r, o) = "success" <=> \A a \in job[r].agents : result'[<<r, a>>] = "imported"
    BY <1>3, <1>4 DEF ExitStatus
  <2>4. Exits(r)'
    BY <1>1, <1>5, <1>7, <2>1, <2>3 DEF Exits, ExitStatus
  <2> QED
    BY <2>2, <2>4
<1>8. RequestersInv'
  BY <1>2, <1>6, <1>7 DEF RequestersInv
<1>9. RepliesInv' /\ DaemonInv'
  <2>1. \A n \in Attempts : result[n] # "none" => result'[n] # "none"
    BY <1>1 DEF TypeOK
  <2>2. KnownQueue'
    BY <1>1, <2>1, SameQueue
  <2> QED
    BY <1>1, <2>1, <2>2, StaysFaithful
<1> QED
  BY <1>8, <1>9 DEF Safe
(* The next request is for an agent that is still to do. *)
LEMMA BeginAsks ==
    ASSUME IInv, NEW r \in Requesters, Begin(r)
    PROVE  \E a \in todo[r] : /\ trying' = [trying EXCEPT ![r] = a]
                               /\ todo' = [todo EXCEPT ![r] = @ \ {a}]
                               /\ result' = [result EXCEPT ![<<r, a>>] = "asked"]
<1>1. todo[r] # {} /\ todo[r] \subseteq {"claude", "codex"}
  BY DEF Begin, IInv, RequestersInv, Progress, TypeOK, Agents
<1>2. CASE "claude" \in todo[r]
  BY <1>2 DEF Begin
<1>3. CASE "claude" \notin todo[r]
  BY <1>1, <1>3 DEF Begin
<1> QED
  BY <1>2, <1>3

(* A requester moves on within an attempt, or makes its next request. *)
LEMMA MoveSafe ==
    ASSUME IInv, NEW r \in Requesters, Begin(r) \/ Connect(r) \/ SendRequest(r) \/ GoodReply(r)
    PROVE  Safe'
<1> USE DEF IInv
<1>1. /\ UNCHANGED <<job, exit, resp, heard, pc, serving, budget, held, answer, seen>>
      /\ \A q \in Requesters \ {r} : /\ reqPc'[q] = reqPc[q] /\ todo'[q] = todo[q]
                                     /\ trying'[q] = trying[q] /\ payload'[q] = payload[q]
                                     /\ forced'[q] = forced[q]
  BY DEF Begin, Connect, Enqueue, SendRequest, GoodReply, TypeOK, connVars, daemonVars
<1>2. CASE Begin(r)
  <2>1. PICK a \in todo[r] : /\ trying' = [trying EXCEPT ![r] = a]
                             /\ todo' = [todo EXCEPT ![r] = @ \ {a}]
                             /\ result' = [result EXCEPT ![<<r, a>>] = "asked"]
    BY <1>2, BeginAsks
  <2>2. /\ reqPc[r] = "choosing" /\ reqPc'[r] = "connecting" /\ UNCHANGED queue
        /\ trying'[r] = a /\ todo'[r] = todo[r] \ {a} /\ a \in Agents /\ <<r, a>> \in Attempts
    BY <1>2, <2>1 DEF Begin, TypeOK, daemonVars, Attempts
  <2>3. /\ job[r] \in Jobs /\ job[r].agents \subseteq Agents /\ todo[r] \subseteq job[r].agents
        /\ \A b \in todo[r] : result[<<r, b>>] = "none"
        /\ \A b \in job[r].agents \ todo[r] : Told(<<r, b>>)
        /\ exit[r] = "none"
    BY <2>2, JobAgents DEF RequestersInv, Progress, Exits, Attempting
  <2>4. /\ result'[<<r, a>>] = "asked"
        /\ \A q \in Requesters, b \in Agents :
               <<q, b>> # <<r, a>> => result'[<<q, b>>] = result[<<q, b>>]
    BY <2>1, <2>2 DEF TypeOK, Attempts
  <2>5. Progress(r)'
    <3>1. \A b \in todo'[r] : result'[<<r, b>>] = "none"
      BY <2>2, <2>3, <2>4
    <3>2. \A b \in job[r].agents \ todo'[r] : b = a \/ Told(<<r, b>>)'
      BY <2>2, <2>3, <2>4 DEF Told
    <3> QED
      BY <1>1, <2>2, <2>3, <2>4, <3>1, <3>2 DEF Progress, Attempting, Current
  <2>6. Exits(r)' /\ Imports(r)'
    BY <1>1, <2>2, <2>3 DEF Exits, Imports
  <2>7. ASSUME NEW q \in Requesters, q # r
        PROVE  Progress(q)' /\ Exits(q)' /\ Imports(q)'
    BY <1>1, <2>4, <2>7, StaysPut DEF RequestersInv, TypeOK
  <2>8. \A n \in Attempts : result[n] # "none" => result'[n] # "none"
    BY <2>1 DEF TypeOK
  <2>9. KnownQueue'
    BY <2>2, <2>8, SameQueue
  <2> QED
    BY <1>1, <2>5, <2>6, <2>7, <2>8, <2>9, StaysFaithful DEF Safe, RequestersInv
<1>3. CASE Connect(r) \/ SendRequest(r) \/ GoodReply(r)
  <2>1. /\ UNCHANGED <<result, todo, trying>>
        /\ Attempting(r) /\ Attempting(r)' /\ reqPc[r] # "importing"
    BY <1>3 DEF Connect, SendRequest, GoodReply, Replied, Attempting, TypeOK
  <2>2. Progress(r)' /\ Exits(r)'
    BY <1>1, <2>1 DEF RequestersInv, Progress, Exits, Attempting, Told, Current
  <2>3. Imports(r)'
    <3>1. CASE GoodReply(r)
      <4>1. /\ payload'[r] = AnswerTo(r).content /\ forced'[r] = ForceWrite(r)
            /\ UNCHANGED <<trying, job, seen>>
        BY <3>1 DEF GoodReply, TypeOK, daemonVars
      <4> QED
        BY <3>1, <4>1, GoodReplyGives DEF Imports, Current, ForceWrite
    <3>2. CASE Connect(r) \/ SendRequest(r)
      BY <3>2 DEF Connect, SendRequest, Imports, TypeOK
    <3> QED
      BY <1>3, <3>1, <3>2
  <2>4. ASSUME NEW q \in Requesters, q # r
        PROVE  Progress(q)' /\ Exits(q)' /\ Imports(q)'
    BY <1>1, <2>1, <2>4, StaysPut DEF RequestersInv, TypeOK
  <2>5. KnownQueue'
    <3>1. CASE Connect(r)
      <4>1. queue' = Append(queue, Current(r)) /\ Known(Current(r))'
        BY <2>1, <3>1 DEF Connect, Enqueue, Known, RequestersInv, Progress, Current
      <4>2. queue \in Seq(Connections) /\ Current(r) \in Connections
        BY DEF TypeOK, Current, Connections, Attempts
      <4>3. KnownQueue /\ UNCHANGED <<result, trying>>
        BY <2>1 DEF DaemonInv, KnownQueue
      <4> QED
        BY <4>1, <4>2, <4>3 DEF KnownQueue, Known, Current
    <3>2. CASE SendRequest(r) \/ GoodReply(r)
      BY <2>1, <3>2, SameQueue DEF SendRequest, GoodReply, daemonVars
    <3> QED
      BY <1>3, <3>1, <3>2
  <2> QED
    BY <1>1, <2>1, <2>2, <2>3, <2>4, <2>5, StaysFaithful DEF Safe, RequestersInv
<1> QED
  BY <1>2, <1>3

LEMMA EndsSafe ==
    ASSUME IInv, NEW r \in Requesters,
           \/ ExchangeFails(r) \/ ReplyTimesOut(r) \/ BadReply(r) \/ ErrorReply(r)
           \/ InvalidReply(r) \/ Write(r) \/ WriteFails(r) \/ WriteTimesOut(r)
    PROVE  /\ Attempting(r)
           /\ \E o \in {"imported", "refused", "failed"} : AttemptEnds(r, o)
           /\ Safe'
<1>1. /\ Attempting(r)
      /\ \E o \in {"imported", "refused", "failed"} : AttemptEnds(r, o)
  BY DEF ExchangeFails, ReplyTimesOut, BadReply, ErrorReply, InvalidReply, Write, WriteFails,
         WriteTimesOut, AttemptFails, Replied, Attempting
<1> QED
  BY <1>1, AttemptEndSafe

LEMMA InterruptedSafe ==
    ASSUME IInv, NEW r \in Requesters, Interrupted(r)
    PROVE  Safe'
<1> USE DEF IInv
<1>1. /\ UNCHANGED <<job, todo, trying, resp, heard, pc, serving, budget, held, answer, queue, seen>>
      /\ result' = result \/ result' = [result EXCEPT ![Current(r)] = "failed"]
      /\ Current(r) = <<r, trying[r]>> /\ Current(r) \in Attempts /\ trying[r] \in Agents
  BY DEF Interrupted, daemonVars, Current, TypeOK, Attempts
<1>2. /\ \A n \in Attempts : result[n] # "none" => result'[n] # "none"
      /\ \A q \in Requesters, a \in Agents : q # r => result'[<<q, a>>] = result[<<q, a>>]
  <2>1. CASE result' = result
    BY <2>1
  <2>2. CASE result' = [result EXCEPT ![<<r, trying[r]>>] = "failed"]
    BY <1>1, <2>2 DEF TypeOK, Attempts
  <2> QED
    BY <1>1, <2>1, <2>2
<1>3. reqPc[r] # "idle" /\ reqPc'[r] = "done" /\ exit'[r] = "interrupted"
  BY DEF Interrupted, TypeOK
<1>4. Progress(r)' /\ Exits(r)' /\ Imports(r)'
  BY <1>1, <1>3 DEF RequestersInv, Progress, Exits, Imports, Attempting
<1>5. ASSUME NEW q \in Requesters, q # r
      PROVE  Progress(q)' /\ Exits(q)' /\ Imports(q)'
  <2>1. /\ reqPc'[q] = reqPc[q] /\ payload'[q] = payload[q] /\ forced'[q] = forced[q]
        /\ exit'[q] = exit[q]
    BY <1>5 DEF Interrupted, TypeOK
  <2> QED
    BY <1>1, <1>2, <1>5, <2>1, StaysPut DEF RequestersInv, TypeOK
<1>6. KnownQueue'
  BY <1>1, <1>2, SameQueue
<1> QED
  BY <1>1, <1>2, <1>4, <1>5, <1>6, StaysFaithful DEF Safe, RequestersInv

LEMMA StartSafe ==
    ASSUME IInv, NEW r \in Requesters, NEW j \in Jobs, Start(r, j)
    PROVE  Safe'
<1> USE DEF IInv
<1>1. /\ UNCHANGED <<trying, payload, forced, result, exit, resp, heard, pc, serving, budget, held,
                     answer, queue, seen>>
      /\ reqPc[r] = "idle" /\ reqPc'[r] = "choosing" /\ job'[r] = j /\ todo'[r] = j.agents
      /\ \A q \in Requesters \ {r} : reqPc'[q] = reqPc[q] /\ job'[q] = job[q] /\ todo'[q] = todo[q]
  BY DEF Start, connVars, daemonVars, TypeOK
<1>2. Progress(r)' /\ Exits(r)' /\ Imports(r)'
  BY <1>1, JobAgents DEF RequestersInv, Progress, Exits, Imports, Attempting
<1>3. ASSUME NEW q \in Requesters, q # r
      PROVE  Progress(q)' /\ Exits(q)' /\ Imports(q)'
  BY <1>1, <1>3, StaysPut DEF RequestersInv, TypeOK
<1>4. KnownQueue'
  BY <1>1, SameQueue
<1> QED
  BY <1>1, <1>2, <1>3, <1>4, StaysFaithful DEF Safe, RequestersInv
(* The requesters keep what holds of them while the rest of the world goes  *)
(* on and more is read.                                                     *)
LEMMA RequestersStay ==
    ASSUME IInv, UNCHANGED <<reqPc, job, todo, trying, payload, forced, result, exit>>,
           \A n \in Attempts : seen[n] \subseteq seen'[n]
    PROVE  RequestersInv'
BY StaysPut DEF IInv, RequestersInv, TypeOK

LEMMA CloseSafe ==
    ASSUME IInv, pc \in {"reading", "deciding", "answering"},
           NEW reply \in Messages \cup {Nothing, Garbage}, Faithful(reply), Close(reply)
    PROVE  Safe'
<1> USE DEF IInv
<1>1. /\ UNCHANGED <<reqPc, job, todo, trying, payload, forced, result, exit, seen, queue>>
      /\ pc' = "accepting" /\ heard' = Nothing
      /\ resp' = [resp EXCEPT ![serving] = reply]
  BY DEF Close, Idle, requesterVars
<1>2. RequestersInv'
  BY <1>1, RequestersStay
<1>3. \A m : Faithful(m) => Faithful(m)'
  BY <1>1 DEF Faithful
<1>4. \A c \in Connections : resp'[c] = reply \/ resp'[c] = resp[c]
  BY <1>1 DEF TypeOK
<1>5. RepliesInv'
  BY <1>3, <1>4 DEF RepliesInv
<1>6. DaemonInv'
  BY <1>1, RequestAssumption DEF DaemonInv, Known, Faithful
<1> QED
  BY <1>2, <1>5, <1>6 DEF Safe

LEMMA StopsSafe ==
    ASSUME IInv, NEW why, Stops(why)
    PROVE  Safe'
<1> USE DEF IInv
<1>1. /\ UNCHANGED <<reqPc, job, todo, trying, payload, forced, result, exit, seen, resp>>
      /\ pc' = "stopped" /\ heard' = Nothing /\ queue' = <<>>
  BY DEF Stops, Idle, requesterVars
<1>2. RequestersInv' /\ RepliesInv'
  BY <1>1, RequestersStay DEF RepliesInv, Faithful
<1>3. DaemonInv'
  BY <1>1, RequestAssumption DEF DaemonInv, Faithful
<1> QED
  BY <1>2, <1>3 DEF Safe

LEMMA DaemonSafe ==
    ASSUME IInv, DaemonStep \/ ReadFails \/ Serve \/ DaemonInterrupted \/ AcceptFails
    PROVE  Safe'
<1> USE DEF IInv
<1>1. CASE Accept
  <2>1. /\ UNCHANGED <<reqPc, job, todo, trying, payload, forced, result, exit, seen, resp, heard>>
        /\ pc' = "reading" /\ serving' = Head(queue) /\ queue' = Tail(queue)
        /\ queue # <<>> /\ queue \in Seq(Connections)
        /\ budget' = ExchangeTimeout /\ held' = 0
    BY <1>1 DEF Accept, requesterVars, TypeOK
  <2>2. RequestersInv' /\ RepliesInv'
    BY <2>1, RequestersStay DEF RepliesInv, Faithful
  <2>3. Head(queue) = queue[1] /\ 1 \in 1..Len(queue) /\ Head(queue) \in Connections
    BY <2>1
  <2>4. \A i \in 1..Len(queue') : i + 1 \in 1..Len(queue) /\ queue'[i] = queue[i + 1]
    BY <2>1
  <2>5. Known(serving)' /\ KnownQueue'
    BY <2>1, <2>3, <2>4 DEF DaemonInv, Known, KnownQueue
  <2>6. DaemonInv'
    BY <2>1, <2>3, <2>5, RequestAssumption DEF DaemonInv, Faithful, KnownQueue
  <2> QED
    BY <2>2, <2>6 DEF Safe
<1>2. CASE ReadBlock \/ Serve
  <2>1. /\ UNCHANGED <<reqPc, job, todo, trying, payload, forced, result, exit, seen, resp, heard,
                       serving, budget, held, answer, queue>>
        /\ pc' = pc \/ pc' = "accepting"
    BY <1>2 DEF ReadBlock, Serve, requesterVars, connVars
  <2>2. RequestersInv' /\ RepliesInv'
    BY <2>1, RequestersStay DEF RepliesInv, Faithful
  <2>3. DaemonInv'
    BY <2>1 DEF DaemonInv, Faithful, Known, IsRequest
  <2> QED
    BY <2>2, <2>3 DEF Safe
<1>3. CASE ReadTooMuch \/ ReadTimesOut \/ ReadFails \/ RejectRequest \/ TooLate \/ SendFails
  <2>1. \E reply \in {Nothing, Garbage} :
            pc \in {"reading", "deciding", "answering"} /\ Faithful(reply) /\ Close(reply)
    BY <1>3, RequestAssumption
       DEF ReadTooMuch, ReadTimesOut, ReadFails, RejectRequest, TooLate, SendFails, Hangup, Faithful
  <2> QED
    BY <2>1, CloseSafe
<1>4. CASE ReadEof
  <2>1. PICK m \in Delivered(serving) : heard' = m
    BY <1>4 DEF ReadEof
  <2>2. /\ UNCHANGED <<reqPc, job, todo, trying, payload, forced, result, exit, seen, resp, serving,
                       budget, held, queue>>
        /\ pc = "reading" /\ pc' = "deciding"
    BY <1>4 DEF ReadEof, requesterVars, connVars
  <2>3. Faithful(m)
    BY <2>2, DeliveredFaithful
  <2>4. Faithful(heard)'
    BY <2>1, <2>2, <2>3 DEF Faithful
  <2>5. RequestersInv' /\ RepliesInv'
    BY <2>2, RequestersStay DEF RepliesInv, Faithful
  <2>6. DaemonInv'
    BY <2>2, <2>4 DEF DaemonInv, Known
  <2> QED
    BY <2>5, <2>6 DEF Safe
<1>5. CASE ReadStore
  <2>1. heard.nonce \in Attempts
    BY <1>5, ResponseTypes DEF ReadStore, Messages
  <2>2. /\ UNCHANGED <<reqPc, job, todo, trying, payload, forced, result, exit, resp, heard, serving,
                       budget, held, queue>>
        /\ pc = "deciding" /\ pc' = "answering" /\ IsRequest(heard)
        /\ \E content : answer' = content
                        /\ seen' = [seen EXCEPT ![heard.nonce] = @ \cup {content}]
    BY <1>5 DEF ReadStore, requesterVars, connVars
  <2>3. /\ \A n \in Attempts : seen[n] \subseteq seen'[n]
        /\ answer' \in seen'[heard.nonce]
    BY <2>1, <2>2 DEF TypeOK
  <2>4. RequestersInv'
    BY <2>2, <2>3, RequestersStay
  <2>5. \A m : Faithful(m) => Faithful(m)'
    BY <2>2, <2>3 DEF Faithful, Messages
  <2>6. RepliesInv'
    BY <2>2, <2>5 DEF RepliesInv
  <2>7. Faithful(heard)'
    BY <2>2, <2>5 DEF DaemonInv
  <2>8. DaemonInv'
    BY <2>2, <2>3, <2>7 DEF DaemonInv, Known, IsRequest
  <2> QED
    BY <2>4, <2>6, <2>8 DEF Safe
<1>6. CASE SendResponse
  <2>1. pc = "answering" /\ IsRequest(heard) /\ answer \in seen[heard.nonce] /\ Faithful(heard)
    BY <1>6 DEF SendResponse, DaemonInv
  <2>2. /\ Response \in Messages /\ heard \in Messages
        /\ Response.agent = heard.agent /\ Response.nonce = heard.nonce /\ Response.content = answer
    BY <2>1, ResponseTypes
  <2>3. Faithful(Response)
    BY <2>1, <2>2 DEF Faithful
  <2> QED
    BY <1>6, <2>1, <2>2, <2>3, CloseSafe DEF SendResponse
<1>7. CASE DaemonInterrupted \/ AcceptFails
  BY <1>7, StopsSafe DEF DaemonInterrupted, AcceptFails
<1> QED
  BY <1>1, <1>2, <1>3, <1>4, <1>5, <1>6, <1>7 DEF DaemonStep

LEMMA NetworkSafe ==
    ASSUME IInv, NEW c \in Connections, CorruptReply(c) \/ Misdeliver(c)
    PROVE  Safe'
<1> USE DEF IInv
<1>1. PICK m \in Recorded \cup {Garbage} : resp' = [resp EXCEPT ![c] = m]
  BY DEF CorruptReply, Misdeliver
<1>2. UNCHANGED <<reqPc, job, todo, trying, payload, forced, result, exit, seen, pc, queue, serving,
                  budget, heard, answer, held>>
  BY DEF CorruptReply, Misdeliver, requesterVars, daemonVars
<1>3. Faithful(m)
  BY <1>1, RecordedFaithful, RequestAssumption DEF Faithful
<1>4. \A d \in Connections : resp'[d] = m \/ resp'[d] = resp[d]
  BY <1>1 DEF TypeOK
<1>5. \A k : Faithful(k) => Faithful(k)'
  BY <1>2 DEF Faithful
<1>6. RepliesInv'
  BY <1>3, <1>4, <1>5 DEF RepliesInv
<1>7. RequestersInv' /\ DaemonInv'
  BY <1>2, RequestersStay DEF DaemonInv, Faithful, Known, IsRequest
<1> QED
  BY <1>6, <1>7 DEF Safe

LEMMA StrangerSafe ==
    ASSUME IInv, NEW c \in Strangers, StrangerStep(c)
    PROVE  Safe'
<1> USE DEF IInv
<1>1. /\ UNCHANGED <<reqPc, job, todo, trying, payload, forced, result, exit, seen, resp, heard, pc,
                     serving, budget, held, answer>>
      /\ queue' = queue \/ queue' = Append(queue, c)
  BY DEF StrangerStep, StrangerConnects, Enqueue, StrangerSends, StrangerCloses, requesterVars,
         daemonVars
<1>2. c \in Connections /\ c \notin Attempts
  BY RequestAssumption DEF Connections
<1>3. KnownQueue'
  <2>1. KnownQueue /\ UNCHANGED result
    BY <1>1 DEF DaemonInv, KnownQueue
  <2>2. queue \in Seq(Connections)
    BY DEF TypeOK
  <2>3. CASE queue' = queue
    BY <2>1, <2>3 DEF KnownQueue, Known
  <2>4. CASE queue' = Append(queue, c)
    BY <1>2, <2>1, <2>2, <2>4 DEF KnownQueue, Known
  <2> QED
    BY <1>1, <2>3, <2>4
<1>4. RequestersInv'
  BY <1>1, RequestersStay
<1> QED
  BY <1>1, <1>3, <1>4, StaysFaithful DEF Safe

LEMMA TimeSafe ==
    ASSUME IInv, OwnerWrites \/ Tick \/ TimeOfDay \/ UNCHANGED vars
    PROVE  Safe'
<1> USE DEF IInv
<1>1. UNCHANGED <<reqPc, job, todo, trying, payload, forced, result, exit, seen, resp, heard, pc,
                  serving, answer, queue>>
  BY DEF OwnerWrites, Tick, TimeOfDay, vars, requesterVars, connVars, daemonVars
<1>2. RequestersInv' /\ RepliesInv'
  BY <1>1, RequestersStay DEF RepliesInv, Faithful
<1>3. \/ UNCHANGED <<budget, held>>
      \/ /\ budget' = Less(budget)
         /\ held' = IF serving # Nothing /\ held <= ExchangeTimeout THEN held + 1 ELSE held
  BY DEF OwnerWrites, Tick, TimeOfDay, vars, daemonVars
<1>4. ASSUME serving # Nothing, budget > 0 => held + budget = ExchangeTimeout
      PROVE  budget' > 0 => held' + budget' = ExchangeTimeout
  <2>1. budget \in Nat /\ held \in Nat /\ ExchangeTimeout \in Nat
    BY RequestAssumption DEF TypeOK
  <2>2. CASE UNCHANGED <<budget, held>>
    BY <1>4, <2>2
  <2>3. CASE budget' = Less(budget) /\ budget = 0
    BY <2>3 DEF Less
  <2>4. CASE /\ budget' = Less(budget) /\ budget # 0
             /\ held' = IF serving # Nothing /\ held <= ExchangeTimeout THEN held + 1 ELSE held
    <3>1. budget' = budget - 1 /\ held <= ExchangeTimeout /\ held' = held + 1
      BY <1>4, <2>1, <2>4 DEF Less
    <3> QED
      BY <1>4, <2>1, <2>4, <3>1
  <2> QED
    BY <1>3, <2>2, <2>3, <2>4
<1>5. serving \in Connections => serving # Nothing
  BY RequestAssumption
<1>6. DaemonInv'
  BY <1>1, <1>4, <1>5 DEF DaemonInv, Faithful, Known, IsRequest
<1> QED
  BY <1>2, <1>6 DEF Safe

LEMMA SafeStep ==
    ASSUME IInv, [Next]_vars
    PROVE  Safe'
<1>1. ASSUME NEW r \in Requesters, NEW j \in Jobs, Start(r, j)
      PROVE  Safe'
  BY <1>1, StartSafe
<1>2. ASSUME NEW r \in Requesters, RequesterStep(r)
      PROVE  Safe'
  BY <1>2, MoveSafe, EndsSafe DEF RequesterStep
<1>3. ASSUME NEW r \in Requesters, Interrupted(r)
      PROVE  Safe'
  BY <1>3, InterruptedSafe
<1>4. ASSUME NEW c \in Strangers, StrangerStep(c)
      PROVE  Safe'
  BY <1>4, StrangerSafe
<1>5. CASE DaemonStep \/ ReadFails \/ Serve \/ DaemonInterrupted \/ AcceptFails
  BY <1>5, DaemonSafe
<1>6. ASSUME NEW c \in Connections, CorruptReply(c) \/ Misdeliver(c)
      PROVE  Safe'
  BY <1>6, NetworkSafe
<1>7. CASE OwnerWrites \/ Tick \/ TimeOfDay \/ UNCHANGED vars
  BY <1>7, TimeSafe
<1> QED
  BY <1>1, <1>2, <1>3, <1>4, <1>5, <1>6, <1>7 DEF Next

LEMMA InitInv ==
    ASSUME Init
    PROVE  IInv
<1>1. TypeOK
  <2>1. queue \in Seq(Connections)
    BY DEF Init
  <2> QED
    BY <2>1, RequestAssumption DEF Init, TypeOK, Agents
<1>2. RequestersInv
  BY DEF Init, RequestersInv, Progress, Exits, Imports, Attempting, Attempts
<1>3. RepliesInv /\ DaemonInv
  BY RequestAssumption DEF Init, RepliesInv, DaemonInv, Faithful
<1> QED
  BY <1>1, <1>2, <1>3 DEF IInv
---------------------------------------------------------------------------
(* Every reply on the wire is a read made for the request it names, and     *)
(* what is reported of each attempt is how it went.                         *)
THEOREM InductiveInvariant == Spec => []IInv
<1>1. IInv /\ [Next]_vars => IInv'
  BY TypeStep, SafeStep DEF IInv, Safe
<1> QED
  BY <1>1, InitInv, PTL DEF Spec

(* Every variable of requesters, connections and daemon keeps its type. *)
THEOREM TypeCorrect == Spec => []TypeOK
BY InductiveInvariant, PTL DEF IInv

(* `--request' exits 0 exactly when all that was asked for is imported, and *)
(* attempts everything it was asked for unless it is interrupted.           *)
THEOREM ExitStatusTellsAll == Spec => []ExitTellsAll
<1>1. IInv => ExitTellsAll
  BY DEF IInv, ExitTellsAll, RequestersInv, Exits, Told
<1> QED
  BY <1>1, InductiveInvariant, PTL
---------------------------------------------------------------------------
(* The steps that leave a trace in a store or in an answer. *)

LEMMA Traces ==
    ASSUME [Next]_vars
    PROVE  \/ UNCHANGED <<server, seen, result, store>>
           \/ OwnerWrites \/ ReadStore
           \/ \E r \in Requesters : \/ Begin(r) \/ Write(r) \/ WriteTimesOut(r) \/ Interrupted(r)
                                    \/ ErrorReply(r)
                                    \/ Attempting(r) /\ AttemptFails(r, "failed")
<1> DEFINE Quiet == UNCHANGED <<server, seen, result, store>>
<1>1. ASSUME NEW r \in Requesters, NEW j \in Jobs, Start(r, j)
      PROVE  Quiet
  BY <1>1 DEF Start, daemonVars
<1>2. ASSUME NEW r \in Requesters, Connect(r) \/ SendRequest(r) \/ GoodReply(r)
      PROVE  Quiet
  BY <1>2 DEF Connect, Enqueue, SendRequest, GoodReply, daemonVars
<1>3. ASSUME NEW r \in Requesters,
             \/ ExchangeFails(r) \/ ReplyTimesOut(r) \/ BadReply(r) \/ InvalidReply(r)
             \/ WriteFails(r)
      PROVE  Attempting(r) /\ AttemptFails(r, "failed")
  BY <1>3 DEF ExchangeFails, ReplyTimesOut, BadReply, InvalidReply, WriteFails, Replied, Attempting
<1>4. ASSUME NEW c \in Strangers, StrangerStep(c)
      PROVE  Quiet
  BY <1>4 DEF StrangerStep, StrangerConnects, Enqueue, StrangerSends, StrangerCloses, requesterVars,
              daemonVars
<1>5. ASSUME DaemonStep \/ ReadFails \/ Serve \/ DaemonInterrupted \/ AcceptFails, ~ReadStore
      PROVE  Quiet
  BY <1>5 DEF DaemonStep, Accept, ReadBlock, ReadTooMuch, ReadTimesOut, ReadEof, RejectRequest, TooLate,
              SendResponse, SendFails, ReadFails, Serve, DaemonInterrupted, AcceptFails, Stops, Close,
              Hangup, Idle, requesterVars
<1>6. ASSUME NEW c \in Connections, CorruptReply(c) \/ Misdeliver(c)
      PROVE  Quiet
  BY <1>6 DEF CorruptReply, Misdeliver, requesterVars, daemonVars
<1>7. CASE Tick \/ TimeOfDay \/ UNCHANGED vars
  BY <1>7 DEF Tick, TimeOfDay, vars, requesterVars, daemonVars
<1> QED
  BY <1>1, <1>2, <1>3, <1>4, <1>5, <1>6, <1>7 DEF Next, RequesterStep

LEMMA WriteChanges ==
    ASSUME IInv, NEW r \in Requesters, Write(r) \/ WriteTimesOut(r)
    PROVE  /\ trying[r] \in Agents /\ payload[r] \in Documents
           /\ Usable(trying[r], payload[r]) /\ forced[r] = ForceWrite(r)
           /\ WriteAccepts(trying[r], payload[r], forced[r], now)
           /\ store'[r][trying[r]] = Stored(trying[r], payload[r])
           /\ \A q \in Requesters, a \in Agents :
                  <<q, a>> # <<r, trying[r]>> => store'[q][a] = store[q][a]
           /\ Write(r) => result'[<<r, trying[r]>>] = "imported"
<1>1. reqPc[r] = "importing" /\ WriteStore(r)
  BY DEF Write, WriteTimesOut
<1>2. /\ payload[r] \in Documents /\ Usable(trying[r], payload[r]) /\ forced[r] = ForceWrite(r)
      /\ trying[r] \in Agents
  BY <1>1, WriteStoreTypes DEF IInv, TypeOK, RequestersInv, Imports
<1>3. /\ store \in [Requesters -> [Agents -> Documents]]
      /\ store' = [store EXCEPT ![r] = [@ EXCEPT ![trying[r]] = Stored(trying[r], payload[r])]]
  BY <1>1 DEF WriteStore, IInv, TypeOK
<1>4. /\ store'[r][trying[r]] = Stored(trying[r], payload[r])
      /\ \A q \in Requesters, a \in Agents :
             <<q, a>> # <<r, trying[r]>> => store'[q][a] = store[q][a]
  BY <1>2, <1>3
<1>5. Write(r) => result'[<<r, trying[r]>>] = "imported"
  BY <1>2 DEF Write, AttemptEnds, Current, IInv, TypeOK, Attempts
<1> QED
  BY <1>1, <1>2, <1>4, <1>5 DEF WriteStore

LEMMA OnlyWritesStore ==
    ASSUME [Next]_vars, store' # store
    PROVE  \E r \in Requesters : Write(r) \/ WriteTimesOut(r)
BY Traces DEF OwnerWrites, ReadStore, Begin, Interrupted, ErrorReply, AttemptFails, requesterVars

(* No import leaves a store its agent cannot start from. *)
THEOREM ImportsKeepStoresUsable == Spec => []StoresStayUsable
<1>1. Init => StoresStayUsable
  BY DEF Init, StoresStayUsable, Attempts
<1>2. ASSUME IInv, StoresStayUsable, [Next]_vars
      PROVE  StoresStayUsable'
  <2>1. CASE store' = store
    BY <1>2, <2>1 DEF StoresStayUsable
  <2>2. CASE store' # store
    <3>1. PICK r \in Requesters : Write(r) \/ WriteTimesOut(r)
      BY <1>2, <2>2, OnlyWritesStore
    <3>2. Usable(trying[r], store'[r][trying[r]])
      <4>1. /\ trying[r] \in Agents /\ payload[r] \in Documents
            /\ Usable(trying[r], payload[r])
            /\ store'[r][trying[r]] = Stored(trying[r], payload[r])
        BY <1>2, <3>1, WriteChanges
      <4>2. Usable(trying[r], Stored(trying[r], payload[r]))
        BY <4>1, StoredTypes
      <4> QED
        BY <4>1, <4>2
    <3>3. \A q \in Requesters, a \in Agents :
              <<q, a>> # <<r, trying[r]>> => store'[q][a] = store[q][a]
      BY <1>2, <3>1, WriteChanges
    <3> QED
      BY <1>2, <3>2, <3>3 DEF StoresStayUsable, Attempts
  <2> QED
    BY <2>1, <2>2
<1> QED
  BY <1>1, <1>2, InductiveInvariant, PTL DEF Spec

(* Without --force, no import writes a Codex token that has expired.        *)
THEOREM OnlyLiveTokens == Spec => NeverImportsExpired
<1>1. ASSUME IInv, [Next]_vars
      PROVE  [\A r \in Requesters :
                store'[r]["codex"] # store[r]["codex"] /\ ~job[r].force =>
                    Unexpired(store'[r]["codex"], now)]_vars
  <2> SUFFICES ASSUME NEW r \in Requesters, store'[r]["codex"] # store[r]["codex"], ~job[r].force
               PROVE  Unexpired(store'[r]["codex"], now)
    OBVIOUS
  <2>1. PICK q \in Requesters : Write(q) \/ WriteTimesOut(q)
    BY <1>1, OnlyWritesStore
  <2>2. q = r /\ trying[r] = "codex"
    BY <1>1, <2>1, WriteChanges DEF Agents
  <2>3. /\ store'[r]["codex"] = Stored("codex", payload[r])
        /\ WriteAccepts("codex", payload[r], forced[r], now) /\ forced[r] = ForceWrite(r)
    BY <1>1, <2>1, <2>2, WriteChanges
  <2>4. ~forced[r] /\ store'[r]["codex"] = payload[r]
    BY <2>3 DEF ForceWrite, Stored
  <2> QED
    BY <2>3, <2>4 DEF WriteAccepts, ValidateBlob
<1> QED
  BY <1>1, InductiveInvariant, PTL DEF Spec, NeverImportsExpired

(* What was reported as imported stays so. *)
LEMMA ImportedStays ==
    ASSUME IInv, [Next]_vars, NEW n \in Attempts, result[n] = "imported"
    PROVE  result'[n] = "imported"
<1>1. result' = result \/ \E r \in Requesters :
         Begin(r) \/ (Attempting(r) /\ result' = [result EXCEPT ![Current(r)] = "failed"])
                  \/ (Attempting(r) /\ result' = [result EXCEPT ![Current(r)] = "refused"])
                  \/ (Attempting(r) /\ result' = [result EXCEPT ![Current(r)] = "imported"])
  BY Traces
     DEF OwnerWrites, ReadStore, Write, WriteTimesOut, Interrupted, ErrorReply, AttemptFails,
         AttemptEnds, Attempting, Replied, requesterVars
<1>2. CASE \E r \in Requesters : Begin(r)
  <2>1. PICK r \in Requesters : Begin(r)
    BY <1>2
  <2>2. PICK a \in todo[r] : result' = [result EXCEPT ![<<r, a>>] = "asked"]
    BY <2>1, BeginAsks
  <2>3. result[<<r, a>>] = "none"
    BY <2>1, <2>2 DEF Begin, IInv, RequestersInv, Progress
  <2> QED
    BY <2>2, <2>3 DEF IInv, TypeOK
<1>3. ASSUME NEW r \in Requesters, Attempting(r), NEW o,
             result' = [result EXCEPT ![Current(r)] = o]
      PROVE  result'[n] = "imported"
  <2>1. result[Current(r)] = "asked"
    BY <1>3 DEF IInv, RequestersInv, Progress
  <2>2. n # Current(r)
    BY <2>1
  <2> QED
    BY <1>3, <2>2 DEF IInv, TypeOK
<1> QED
  BY <1>1, <1>2, <1>3

(* An attempt that failed has changed nothing, Claude's Keychain item        *)
(* excepted: that write may be reported as failed after it took effect.      *)
THEOREM FailureIsHarmless == Spec => []FailedLeavesStore
<1>1. Init => FailedLeavesStore
  BY DEF Init, FailedLeavesStore, Attempts
<1>2. ASSUME IInv, FailedLeavesStore, [Next]_vars
      PROVE  FailedLeavesStore'
  <2>1. \A n \in Attempts : result'[n] # "imported" => result[n] # "imported"
    BY <1>2, ImportedStays
  <2>2. CASE store' = store
    BY <1>2, <2>1, <2>2 DEF FailedLeavesStore
  <2>3. ASSUME NEW r \in Requesters, Write(r) \/ WriteTimesOut(r)
        PROVE  FailedLeavesStore'
    <3>1. /\ \/ result'[<<r, trying[r]>>] = "imported"
             \/ KeychainService /\ trying[r] = "claude"
          /\ \A q \in Requesters, a \in Agents :
                 <<q, a>> # <<r, trying[r]>> => store'[q][a] = store[q][a]
      BY <1>2, <2>3, WriteChanges DEF WriteTimesOut
    <3> QED
      BY <1>2, <2>1, <3>1 DEF FailedLeavesStore, Attempts
  <2> QED
    BY <1>2, <2>2, <2>3, OnlyWritesStore
<1> QED
  BY <1>1, <1>2, InductiveInvariant, PTL DEF Spec
---------------------------------------------------------------------------
(* The deadline. *)

LEMMA WorkSteps ==
    ASSUME IInv, [Next]_vars
    PROVE  /\ total' > total => ReadBlock
           /\ seen' # seen => ReadStore
           /\ pc = "answering" /\ pc' = "accepting" /\ resp'[serving] \in Messages => SendResponse
<1> DEFINE Goal == /\ total' > total => ReadBlock
                   /\ seen' # seen => ReadStore
                   /\ pc = "answering" /\ pc' = "accepting" /\ resp'[serving] \in Messages
                          => SendResponse
<1> USE DEF IInv
<1>1. total \in Nat /\ ~(total > total) /\ ~(0 > total)
  BY DEF TypeOK
<1>2. ASSUME UNCHANGED <<total, seen, pc>>
      PROVE  Goal
  BY <1>1, <1>2
<1>3. ASSUME NEW r \in Requesters, NEW j \in Jobs, Start(r, j)
      PROVE  Goal
  BY <1>2, <1>3 DEF Start, daemonVars
<1>4. ASSUME NEW r \in Requesters, RequesterStep(r) \/ Interrupted(r)
      PROVE  Goal
  <2>1. UNCHANGED <<total, seen, pc>>
    BY <1>4 DEF RequesterStep, Begin, Connect, Enqueue, SendRequest, ExchangeFails, ReplyTimesOut,
                BadReply, ErrorReply, GoodReply, InvalidReply, Write, WriteFails, WriteTimesOut,
                Interrupted, AttemptFails, AttemptEnds, daemonVars
  <2> QED
    BY <1>2, <2>1
<1>5. ASSUME NEW c \in Strangers, StrangerStep(c)
      PROVE  Goal
  BY <1>2, <1>5 DEF StrangerStep, StrangerConnects, Enqueue, StrangerSends, StrangerCloses, daemonVars
<1>6. ASSUME NEW c \in Connections, CorruptReply(c) \/ Misdeliver(c)
      PROVE  Goal
  BY <1>2, <1>6 DEF CorruptReply, Misdeliver, daemonVars
<1>7. CASE OwnerWrites \/ Tick \/ TimeOfDay \/ UNCHANGED vars
  BY <1>2, <1>7 DEF OwnerWrites, Tick, TimeOfDay, vars, daemonVars
<1>8. ASSUME NEW reply \in {Nothing, Garbage}, pc \in {"reading", "deciding", "answering"},
             Close(reply)
      PROVE  Goal
  <2>1. total' = 0 /\ seen' = seen
    BY <1>8 DEF Close, Idle
  <2>2. pc = "answering" => resp'[serving] = reply
    BY <1>8 DEF Close, DaemonInv, TypeOK
  <2> QED
    BY <1>1, <2>1, <2>2, RequestAssumption
<1>9. CASE ReadTooMuch \/ ReadTimesOut \/ ReadFails \/ RejectRequest \/ TooLate \/ SendFails
  BY <1>8, <1>9
     DEF ReadTooMuch, ReadTimesOut, ReadFails, RejectRequest, TooLate, SendFails, Hangup
<1>10. CASE Accept \/ Serve \/ DaemonInterrupted \/ AcceptFails \/ ReadEof
  BY <1>1, <1>10 DEF Accept, Serve, DaemonInterrupted, AcceptFails, ReadEof, Stops, Idle, Up
<1>11. CASE ReadBlock
  BY <1>11 DEF ReadBlock
<1>12. CASE ReadStore
  BY <1>1, <1>12 DEF ReadStore
<1>13. CASE SendResponse
  BY <1>1, <1>13 DEF SendResponse, Close, Idle
<1> QED
  BY <1>3, <1>4, <1>5, <1>6, <1>7, <1>9, <1>10, <1>11, <1>12, <1>13 DEF Next, DaemonStep

(* No client gets more than one EXCHANGE_TIMEOUT of the daemon's work.      *)
THEOREM NoWorkPastDeadline == Spec => NoLateWork
<1>1. ASSUME IInv, [Next]_vars
      PROVE  [(\/ total' > total
               \/ seen' # seen
               \/ (pc = "answering" /\ pc' = "accepting" /\ resp'[serving] \in Messages))
              => held < ExchangeTimeout]_vars
  <2>1. ASSUME ReadBlock \/ ReadStore \/ SendResponse
        PROVE  held < ExchangeTimeout
    <3>1. pc \in {"reading", "deciding", "answering"} /\ budget > 0
      BY <2>1 DEF ReadBlock, ReadStore, SendResponse
    <3>2. budget \in Nat /\ held \in Nat /\ held + budget = ExchangeTimeout
      BY <1>1, <3>1 DEF IInv, DaemonInv, TypeOK
    <3> QED
      BY <3>1, <3>2
  <2> QED
    BY <1>1, <2>1, WorkSteps
<1> QED
  BY <1>1, InductiveInvariant, PTL DEF Spec, NoLateWork
---------------------------------------------------------------------------
(* The queue, and whoever is in it. *)

(* The steps that leave connections, queue and daemon where they are.      *)
LEMMA QueueRests ==
    ASSUME QueueInv, UNCHANGED <<conn, queue, serving, pc, total>>,
           \A n \in Attempts : result'[n] = "none" => result[n] = "none",
           \A r \in Requesters : reqPc'[r] = "connecting" =>
               \/ reqPc[r] = "connecting" /\ trying'[r] = trying[r]
               \/ conn[<<r, trying'[r]>>] = "none"
    PROVE  QueueInv'
BY DEF QueueInv, OneAtATime, Up, Current

LEMMA EnqueueQueues ==
    ASSUME IInv, QueueInv, NEW c \in Connections, conn[c] = "none", Enqueue(c),
           c \in Attempts => result[c] # "none",
           UNCHANGED <<result, trying>>,
           \A r \in Requesters : reqPc'[r] = "connecting" => reqPc[r] = "connecting" /\ c # Current(r)
    PROVE  QueueInv'
<1> USE DEF IInv
<1>1. /\ queue \in Seq(Connections) /\ queue' = Append(queue, c)
      /\ Len(queue') = Len(queue) + 1 /\ queue'[Len(queue) + 1] = c
      /\ \A i \in 1 .. Len(queue) : queue'[i] = queue[i]
  BY DEF Enqueue, TypeOK
<1>2. /\ conn'[c] = "queued"
      /\ \A d \in Connections : d # c => conn'[d] = conn[d]
      /\ UNCHANGED <<pc, serving, total>> /\ Up
  BY DEF Enqueue, TypeOK
<1>3. \A d \in Connections : conn[d] = "queued" <=> \E i \in 1 .. Len(queue) : queue[i] = d
  BY DEF QueueInv, OneAtATime
<1>4. \A d \in Connections : conn'[d] = "queued" <=> \E i \in 1 .. Len(queue') : queue'[i] = d
  <2>1. Len(queue) \in Nat
    BY <1>1
  <2>2. \A d \in Connections :
           (\E i \in 1 .. Len(queue') : queue'[i] = d) <=> d = c \/ \E i \in 1 .. Len(queue) : queue[i] = d
    BY <1>1, <2>1
  <2> QED
    BY <1>2, <1>3, <2>2
<1>5. \A i, j \in 1 .. Len(queue') : queue'[i] = queue'[j] => i = j
  <2>1. \A i \in 1 .. Len(queue) : queue[i] \in Connections /\ queue[i] # c
    BY <1>1, <1>3
  <2>2. \A i, j \in 1 .. Len(queue) : queue[i] = queue[j] => i = j
    BY DEF QueueInv, OneAtATime
  <2>3. \A i \in 1 .. Len(queue') : i \in 1 .. Len(queue) \/ i = Len(queue) + 1
    BY <1>1
  <2> QED
    BY <1>1, <2>1, <2>2, <2>3
<1>6. \A d \in Connections : conn'[d] = "open" <=> d = serving'
  BY <1>2 DEF QueueInv, OneAtATime
<1>7. OneAtATime'
  BY <1>4, <1>5, <1>6 DEF OneAtATime
<1>8. /\ \A n \in Attempts : result'[n] = "none" => conn'[n] = "none"
      /\ \A r \in Requesters : reqPc'[r] = "connecting" => conn'[Current(r)'] = "none"
  <2>1. \A r \in Requesters : Current(r)' = Current(r) /\ Current(r) \in Connections
    BY DEF Current, TypeOK, Attempts, Connections
  <2> QED
    BY <1>2, <2>1 DEF QueueInv, Connections
<1> QED
  BY <1>2, <1>7, <1>8 DEF QueueInv, Up

LEMMA AcceptQueues ==
    ASSUME IInv, QueueInv, Accept
    PROVE  QueueInv'
<1> USE DEF IInv
<1> DEFINE c == Head(queue)
<1>1. /\ queue \in Seq(Connections) /\ Len(queue) \in Nat /\ Len(queue) > 0
      /\ c = queue[1] /\ c \in Connections
      /\ queue' = Tail(queue) /\ Len(queue') = Len(queue) - 1
      /\ \A i \in 1 .. Len(queue') : queue'[i] = queue[i + 1]
  BY DEF Accept, TypeOK
<1>2. /\ conn'[c] = "open"
      /\ \A d \in Connections : d # c => conn'[d] = conn[d]
      /\ serving' = c /\ serving = Nothing /\ total = 0
      /\ pc' = "reading" /\ UNCHANGED <<total, result, reqPc, trying>>
  BY <1>1 DEF Accept, TypeOK, QueueInv, requesterVars
<1> HIDE DEF c
<1>3. \A i, j \in 1 .. Len(queue) : queue[i] = queue[j] => i = j
  BY DEF QueueInv, OneAtATime
<1>4. \A d \in Connections : conn[d] = "queued" <=> \E i \in 1 .. Len(queue) : queue[i] = d
  BY DEF QueueInv, OneAtATime
<1>5. \A d \in Connections : conn'[d] = "queued" <=> \E i \in 1 .. Len(queue') : queue'[i] = d
  <2>1. ASSUME NEW d \in Connections, d # c, NEW i \in 1 .. Len(queue), queue[i] = d
        PROVE  \E j \in 1 .. Len(queue') : queue'[j] = d
    <3>1. i - 1 \in 1 .. Len(queue')
      BY <1>1, <2>1
    <3> QED
      BY <1>1, <2>1, <3>1
  <2>2. ASSUME NEW i \in 1 .. Len(queue')
        PROVE  queue'[i] # c /\ \E j \in 1 .. Len(queue) : queue[j] = queue'[i]
    <3>1. i + 1 \in 1 .. Len(queue) /\ 1 \in 1 .. Len(queue) /\ i + 1 # 1
      BY <1>1
    <3> QED
      BY <1>1, <1>3, <3>1
  <2> QED
    BY <1>2, <1>4, <2>1, <2>2
<1>6. \A i, j \in 1 .. Len(queue') : queue'[i] = queue'[j] => i = j
  <2>1. ASSUME NEW i \in 1 .. Len(queue'), NEW j \in 1 .. Len(queue'), queue'[i] = queue'[j]
        PROVE  i = j
    <3>1. i + 1 \in 1 .. Len(queue) /\ j + 1 \in 1 .. Len(queue)
      BY <1>1
    <3> QED
      BY <1>1, <1>3, <2>1, <3>1
  <2> QED
    BY <2>1
<1>7. \A d \in Connections : conn'[d] = "open" <=> d = serving'
  <2>1. \A d \in Connections : conn[d] # "open"
    BY <1>2, RequestAssumption DEF QueueInv, OneAtATime
  <2> QED
    BY <1>2, <2>1
<1>8. OneAtATime'
  BY <1>5, <1>6, <1>7 DEF OneAtATime
<1>9. conn[c] = "queued"
  BY <1>1, <1>4
<1>10. /\ \A n \in Attempts : result'[n] = "none" => conn'[n] = "none"
       /\ \A r \in Requesters : reqPc'[r] = "connecting" => conn'[Current(r)'] = "none"
  <2>1. \A r \in Requesters : Current(r)' = Current(r) /\ Current(r) \in Connections
    BY <1>2 DEF Current, TypeOK, Attempts, Connections
  <2> QED
    BY <1>1, <1>2, <1>9, <2>1 DEF QueueInv, Connections
<1>11. serving' # Nothing
  BY <1>1, <1>2, RequestAssumption
<1> QED
  BY <1>2, <1>8, <1>10, <1>11, RequestAssumption DEF QueueInv, Up

LEMMA CloseQueues ==
    ASSUME IInv, QueueInv, pc \in {"reading", "deciding", "answering"}, NEW reply, Close(reply)
    PROVE  QueueInv'
<1> USE DEF IInv
<1>1. serving \in Connections /\ conn[serving] = "open"
  BY DEF DaemonInv, QueueInv, OneAtATime
<1>2. /\ conn'[serving] \in {"closed", "reset"}
      /\ \A d \in Connections : d # serving => conn'[d] = conn[d]
      /\ pc' = "accepting" /\ serving' = Nothing /\ total' = 0
      /\ UNCHANGED <<queue, result, reqPc, trying>>
  BY <1>1 DEF Close, Idle, TypeOK, requesterVars
<1>3. \A d \in Connections : conn'[d] = "open" <=> d = serving'
  BY <1>1, <1>2, RequestAssumption DEF QueueInv, OneAtATime
<1>4. \A d \in Connections : conn'[d] = "queued" <=> conn[d] = "queued"
  BY <1>1, <1>2
<1>5. OneAtATime'
  BY <1>2, <1>3, <1>4 DEF QueueInv, OneAtATime
<1>6. /\ \A n \in Attempts : result'[n] = "none" => conn'[n] = "none"
      /\ \A r \in Requesters : reqPc'[r] = "connecting" => conn'[Current(r)'] = "none"
  <2>1. \A r \in Requesters : Current(r)' = Current(r) /\ Current(r) \in Connections
    BY <1>2 DEF Current, TypeOK, Attempts, Connections
  <2> QED
    BY <1>1, <1>2, <2>1 DEF QueueInv, Connections
<1> QED
  BY <1>2, <1>5, <1>6, RequestAssumption DEF QueueInv, Up

LEMMA StopsQueues ==
    ASSUME IInv, QueueInv, NEW why, Stops(why)
    PROVE  QueueInv'
<1> USE DEF IInv
<1>1. /\ pc' = "stopped" /\ queue' = <<>> /\ serving' = Nothing /\ total' = 0
      /\ UNCHANGED <<result, reqPc, trying>>
      /\ \A d \in Connections : /\ conn'[d] \notin {"queued", "open"}
                                /\ conn[d] = "none" => conn'[d] = "none"
  BY DEF Stops, Idle, requesterVars
<1>2. OneAtATime'
  BY <1>1, RequestAssumption DEF OneAtATime
<1>3. /\ \A n \in Attempts : result'[n] = "none" => conn'[n] = "none"
      /\ \A r \in Requesters : reqPc'[r] = "connecting" => conn'[Current(r)'] = "none"
  <2>1. \A r \in Requesters : Current(r)' = Current(r) /\ Current(r) \in Connections
    BY <1>1 DEF Current, TypeOK, Attempts, Connections
  <2> QED
    BY <1>1, <2>1 DEF QueueInv, Connections
<1> QED
  BY <1>1, <1>2, <1>3, RequestAssumption DEF QueueInv, Up

LEMMA DaemonQueues ==
    ASSUME IInv, QueueInv, DaemonStep \/ ReadFails
    PROVE  QueueInv'
<1> USE DEF IInv
<1>1. CASE Accept
  BY <1>1, AcceptQueues
<1>2. CASE ReadBlock
  <2>1. /\ UNCHANGED <<conn, queue, serving, pc, result, reqPc, trying>>
        /\ total' = total + 1 /\ total < RequestLimit /\ pc = "reading"
    BY <1>2 DEF ReadBlock, requesterVars
  <2>2. total' <= RequestLimit /\ serving # Nothing
    BY <2>1, RequestAssumption DEF TypeOK, QueueInv
  <2> QED
    BY <2>1, <2>2 DEF QueueInv, OneAtATime, Up, Current
<1>3. CASE ReadTooMuch \/ ReadTimesOut \/ ReadFails \/ RejectRequest \/ TooLate \/ SendFails
           \/ SendResponse
  BY <1>3, CloseQueues
     DEF ReadTooMuch, ReadTimesOut, ReadFails, RejectRequest, TooLate, SendFails, SendResponse, Hangup
<1>4. CASE ReadEof \/ ReadStore
  <2>1. /\ UNCHANGED <<conn, queue, serving, total, result, reqPc, trying>>
        /\ pc \in {"reading", "deciding"} /\ pc' \in {"deciding", "answering"}
    BY <1>4 DEF ReadEof, ReadStore, requesterVars, connVars
  <2> QED
    BY <2>1 DEF QueueInv, OneAtATime, Up, Current
<1> QED
  BY <1>1, <1>2, <1>3, <1>4 DEF DaemonStep

LEMMA QueueStep ==
    ASSUME IInv, QueueInv, [Next]_vars
    PROVE  QueueInv'
<1> USE DEF IInv
<1>1. ASSUME NEW r \in Requesters, NEW j \in Jobs, Start(r, j)
      PROVE  QueueInv'
  BY <1>1, QueueRests DEF Start, TypeOK, connVars, daemonVars
<1>2. ASSUME NEW r \in Requesters, Begin(r)
      PROVE  QueueInv'
  <2>1. PICK a \in todo[r] : /\ trying' = [trying EXCEPT ![r] = a]
                             /\ todo' = [todo EXCEPT ![r] = @ \ {a}]
                             /\ result' = [result EXCEPT ![<<r, a>>] = "asked"]
    BY <1>2, BeginAsks
  <2>2. <<r, a>> \in Attempts /\ result[<<r, a>>] = "none"
    BY <1>2, <2>1 DEF Begin, RequestersInv, Progress, TypeOK, Attempts
  <2>3. conn[<<r, trying'[r]>>] = "none"
    BY <2>1, <2>2 DEF QueueInv, TypeOK
  <2>4. \A n \in Attempts : result'[n] = "none" => result[n] = "none"
    BY <2>1, <2>2 DEF TypeOK
  <2>5. \A q \in Requesters \ {r} : reqPc'[q] = reqPc[q] /\ trying'[q] = trying[q]
    BY <1>2, <2>1 DEF Begin, TypeOK
  <2> QED
    BY <1>2, <2>3, <2>4, <2>5, QueueRests DEF Begin, connVars, daemonVars
<1>3. ASSUME NEW r \in Requesters, Connect(r)
      PROVE  QueueInv'
  <2>1. /\ Current(r) \in Connections /\ Current(r) \in Attempts
        /\ result[Current(r)] = "asked" /\ conn[Current(r)] = "none"
    BY <1>3 DEF Connect, RequestersInv, Progress, Attempting, Current, TypeOK, Attempts, Connections,
                QueueInv
  <2>2. \A q \in Requesters : reqPc'[q] = "connecting" => reqPc[q] = "connecting" /\ Current(r) # Current(q)
    BY <1>3 DEF Connect, TypeOK, Current
  <2> QED
    BY <1>3, <2>1, <2>2, EnqueueQueues DEF Connect
<1>4. ASSUME NEW r \in Requesters, NEW o \in {"imported", "refused", "failed"}, AttemptEnds(r, o)
      PROVE  QueueInv'
  <2>1. \A n \in Attempts : result'[n] = "none" => result[n] = "none"
    BY <1>4 DEF AttemptEnds, TypeOK
  <2>2. \A q \in Requesters : reqPc'[q] = "connecting" => reqPc[q] = "connecting" /\ trying'[q] = trying[q]
    BY <1>4 DEF AttemptEnds, TypeOK
  <2> QED
    BY <1>4, <2>1, <2>2, QueueRests DEF AttemptEnds, daemonVars
<1>5. ASSUME NEW r \in Requesters, SendRequest(r) \/ GoodReply(r)
      PROVE  QueueInv'
  BY <1>5, QueueRests DEF SendRequest, GoodReply, TypeOK, connVars, daemonVars
<1>6. ASSUME NEW r \in Requesters, Interrupted(r)
      PROVE  QueueInv'
  <2>1. \A n \in Attempts : result'[n] = "none" => result[n] = "none"
    BY <1>6 DEF Interrupted, TypeOK
  <2>2. \A q \in Requesters : reqPc'[q] = "connecting" => reqPc[q] = "connecting" /\ trying'[q] = trying[q]
    BY <1>6 DEF Interrupted, TypeOK
  <2> QED
    BY <1>6, <2>1, <2>2, QueueRests DEF Interrupted, daemonVars
<1>7. ASSUME NEW r \in Requesters, RequesterStep(r)
      PROVE  QueueInv'
  BY <1>2, <1>3, <1>4, <1>5, <1>7
     DEF RequesterStep, ExchangeFails, ReplyTimesOut, BadReply, ErrorReply, InvalidReply, Write,
         WriteFails, WriteTimesOut, AttemptFails
<1>8. ASSUME NEW c \in Strangers, NEW size \in Sizes, StrangerConnects(c, size)
      PROVE  QueueInv'
  <2>1. c \in Connections /\ c \notin Attempts
    BY RequestAssumption DEF Connections
  <2>2. \A r \in Requesters : Current(r) # c
    BY <2>1 DEF Current, TypeOK, Attempts
  <2> QED
    BY <1>8, <2>1, <2>2, EnqueueQueues DEF StrangerConnects, requesterVars
<1>9. ASSUME NEW c \in Strangers, StrangerSends(c) \/ StrangerCloses(c)
      PROVE  QueueInv'
  BY <1>9, QueueRests DEF StrangerSends, StrangerCloses, requesterVars, daemonVars
<1>10. CASE DaemonStep \/ ReadFails
  BY <1>10, DaemonQueues
<1>11. CASE Serve
  <2>1. /\ UNCHANGED <<conn, queue, serving, total, result, reqPc, trying>>
        /\ pc \in {"off", "stopped"} /\ pc' = "accepting"
    BY <1>11 DEF Serve, Up, requesterVars, connVars
  <2> QED
    BY <2>1 DEF QueueInv, OneAtATime, Up, Current
<1>12. CASE DaemonInterrupted \/ AcceptFails
  BY <1>12, StopsQueues DEF DaemonInterrupted, AcceptFails
<1>13. ASSUME NEW c \in Connections, CorruptReply(c) \/ Misdeliver(c)
      PROVE  QueueInv'
  BY <1>13, QueueRests DEF CorruptReply, Misdeliver, requesterVars, daemonVars
<1>14. CASE OwnerWrites \/ Tick \/ TimeOfDay \/ UNCHANGED vars
  BY <1>14, QueueRests DEF OwnerWrites, Tick, TimeOfDay, vars, requesterVars, connVars, daemonVars
<1> QED
  BY <1>1, <1>6, <1>7, <1>8, <1>9, <1>10, <1>11, <1>12, <1>13, <1>14 DEF Next, StrangerStep

(* Whoever is queued, and nobody else, is in the queue, and there once.     *)
THEOREM QueueInOrder == Spec => []QueueInv
<1>1. Init => QueueInv
  BY RequestAssumption DEF Init, QueueInv, OneAtATime, Up, Current, Attempts, Connections
<1>2. IInv /\ QueueInv /\ [Next]_vars => QueueInv'
  BY QueueStep
<1> QED
  BY <1>1, <1>2, InductiveInvariant, PTL DEF Spec

(* The daemon leaves no connection open behind it.                          *)
THEOREM OneConnectionAtATime == Spec => []OneAtATime
<1>1. QueueInv => OneAtATime
  BY DEF QueueInv
<1> QED
  BY <1>1, QueueInOrder, PTL
---------------------------------------------------------------------------
(* Nobody overtakes. *)

Places == \A i \in 1 .. Len(queue) : Position(queue[i]) = i

LEMMA PlacesInOrder ==
    ASSUME QueueInv
    PROVE  Places
<1>1. ASSUME NEW i \in 1 .. Len(queue)
      PROVE  Position(queue[i]) = i
  <2>1. \A j \in 1 .. Len(queue) : queue[j] = queue[i] <=> j = i
    BY DEF QueueInv, OneAtATime
  <2> QED
    BY <2>1 DEF Position
<1> QED
  BY <1>1 DEF Places

(* One place nearer to the daemon is a whole service less to wait.          *)
LEMMA OnePlaceNearer ==
    ASSUME NEW p \in Nat \ {0}, NEW k \in Nat
    PROVE  (p - 1) * k = p * k - k /\ p * k \in Nat /\ (p - 1) * k \in Nat
OBVIOUS

LEMMA SamePlace ==
    ASSUME NEW k \in Nat, NEW before \in Nat, NEW after
    PROVE  /\ after \in 0 .. before => k + after \in 0 .. k + before
           /\ after \in 0 .. before - 1 => k + after \in 0 .. (k + before) - 1
OBVIOUS

LEMMA ServiceShrinks ==
    ASSUME IInv, QueueInv, DaemonStep, ~Accept
    PROVE  UNCHANGED queue /\ ServiceLeft' \in 0 .. ServiceLeft - 1
<1> USE RequestAssumption DEF IInv, ServiceLeft
<1>1. total \in Nat /\ total <= RequestLimit
  BY DEF TypeOK, QueueInv
<1>2. CASE ReadBlock
  BY <1>1, <1>2 DEF ReadBlock
<1>3. CASE ReadTooMuch \/ ReadTimesOut \/ RejectRequest \/ TooLate \/ SendFails \/ SendResponse
  BY <1>1, <1>3
     DEF ReadTooMuch, ReadTimesOut, RejectRequest, TooLate, SendFails, SendResponse, Hangup, Close
<1>4. CASE ReadEof \/ ReadStore
  BY <1>1, <1>4 DEF ReadEof, ReadStore
<1> QED
  BY <1>2, <1>3, <1>4 DEF DaemonStep

(* The steps that leave the daemon's own queue alone, or end it.            *)
LEMMA OthersQueueBehind ==
    ASSUME IInv, QueueInv, [Next]_vars, ~DaemonStep
    PROVE  \/ UNCHANGED <<pc, total>> /\ (queue' = queue \/ \E c \in Connections : queue' = Append(queue, c))
           \/ pc' = "accepting" /\ UNCHANGED queue
           \/ queue' = <<>>
<1> DEFINE Goal == \/ UNCHANGED <<pc, total>> /\ (queue' = queue \/ \E c \in Connections : queue' = Append(queue, c))
                   \/ pc' = "accepting" /\ UNCHANGED queue
                   \/ queue' = <<>>
<1>1. ASSUME NEW r \in Requesters, NEW j \in Jobs, Start(r, j)
      PROVE  Goal
  BY <1>1 DEF Start, daemonVars
<1>2. ASSUME NEW r \in Requesters, RequesterStep(r) \/ Interrupted(r)
      PROVE  Goal
  <2>1. Current(r) \in Connections
    BY DEF Current, IInv, TypeOK, Attempts, Connections
  <2> QED
    BY <1>2, <2>1 DEF RequesterStep, Begin, Connect, Enqueue, SendRequest, ExchangeFails, ReplyTimesOut,
                BadReply, ErrorReply, GoodReply, InvalidReply, Write, WriteFails, WriteTimesOut,
                Interrupted, AttemptFails, AttemptEnds, daemonVars
<1>3. ASSUME NEW c \in Strangers, StrangerStep(c)
      PROVE  Goal
  BY <1>3 DEF StrangerStep, StrangerConnects, Enqueue, StrangerSends, StrangerCloses, daemonVars,
              Connections
<1>4. ASSUME NEW c \in Connections, CorruptReply(c) \/ Misdeliver(c)
      PROVE  Goal
  BY <1>4 DEF CorruptReply, Misdeliver, daemonVars
<1>5. CASE ReadFails \/ Serve
  BY <1>5 DEF ReadFails, Hangup, Close, Serve
<1>6. CASE DaemonInterrupted \/ AcceptFails
  BY <1>6 DEF DaemonInterrupted, AcceptFails, Stops
<1>7. CASE OwnerWrites \/ Tick \/ TimeOfDay \/ UNCHANGED vars
  BY <1>7 DEF OwnerWrites, Tick, TimeOfDay, vars, daemonVars
<1> QED
  BY <1>1, <1>2, <1>3, <1>4, <1>5, <1>6, <1>7 DEF Next

LEMMA WaitShrinks ==
    ASSUME IInv, QueueInv, Places, QueueInv', Places', [Next]_vars,
           NEW c \in Connections, conn[c] = "queued", conn'[c] = "queued"
    PROVE  /\ Wait(c)' \in 0 .. Wait(c)
           /\ DaemonStep => Wait(c)' \in 0 .. Wait(c) - 1
<1> USE DEF IInv
<1>1. PICK i \in 1 .. Len(queue) : queue[i] = c
  BY DEF QueueInv, OneAtATime
<1>2. PICK j \in 1 .. Len(queue') : queue'[j] = c
  BY DEF QueueInv, OneAtATime
<1>3. Position(c) = i /\ Position(c)' = j
  BY <1>1, <1>2 DEF Places
<1>4. queue \in Seq(Connections) /\ Len(queue) \in Nat /\ i \in Nat \ {0}
  BY DEF TypeOK
<1>5. total \in Nat /\ total <= RequestLimit /\ RequestLimit \in Nat
  BY RequestAssumption DEF TypeOK, QueueInv
<1>6. ServiceLeft \in Nat
  BY <1>5 DEF ServiceLeft
<1>7. i * (RequestLimit + 4) \in Nat
  BY <1>4, <1>5, OnePlaceNearer
<1> PICK ahead \in Nat : ahead = i * (RequestLimit + 4)
  BY <1>7
<1>sum. /\ Wait(c) = ahead + ServiceLeft
        /\ j = i => Wait(c)' = ahead + ServiceLeft'
  BY <1>3 DEF Wait
<1>8. ASSUME j = i, ServiceLeft' \in 0 .. ServiceLeft
      PROVE  Wait(c)' \in 0 .. Wait(c)
  BY <1>sum, <1>6, <1>8, SamePlace
<1>9. ASSUME j = i, ServiceLeft' \in 0 .. ServiceLeft - 1
      PROVE  Wait(c)' \in 0 .. Wait(c) - 1
  BY <1>sum, <1>6, <1>9, SamePlace
<1>once. \A a, b \in 1 .. Len(queue) : queue[a] = queue[b] => a = b
  BY DEF QueueInv, OneAtATime
<1>10. UNCHANGED queue => j = i
  BY <1>1, <1>2 DEF QueueInv, OneAtATime
<1>11. CASE Accept
  <2>1. queue' = Tail(queue) /\ pc' = "reading" /\ pc = "accepting" /\ total' = total
    BY <1>11 DEF Accept
  <2>2. total = 0
    BY <2>1 DEF QueueInv
  <2>3. j + 1 \in 1 .. Len(queue) /\ queue[j + 1] = c
    BY <1>2, <1>4, <2>1
  <2>4. j = i - 1
    <3>1. j + 1 = i
      BY <1>1, <1>once, <2>3
    <3> QED
      BY <1>4, <3>1
  <2>5. ServiceLeft' = RequestLimit + 3 /\ ServiceLeft = 0
    BY <1>5, <2>1, <2>2 DEF ServiceLeft
  <2>6. Wait(c)' = (i - 1) * (RequestLimit + 4) + (RequestLimit + 3)
    BY <1>3, <2>4, <2>5 DEF Wait
  <2>7. Wait(c) = i * (RequestLimit + 4)
    BY <1>3, <1>7, <2>5 DEF Wait
  <2>8. /\ (i - 1) * (RequestLimit + 4) = i * (RequestLimit + 4) - (RequestLimit + 4)
        /\ (i - 1) * (RequestLimit + 4) \in Nat
    BY <1>4, <1>5, OnePlaceNearer
  <2> QED
    BY <1>5, <1>7, <2>6, <2>7, <2>8
<1>12. CASE DaemonStep /\ ~Accept
  <2>1. 0 .. ServiceLeft - 1 \subseteq 0 .. ServiceLeft
    BY <1>6
  <2> QED
    BY <1>8, <1>9, <1>10, <1>12, <2>1, ServiceShrinks
<1>13. CASE ~DaemonStep
  <2>1. CASE UNCHANGED <<pc, total, queue>>
    BY <1>6, <1>8, <1>10, <1>13, <2>1 DEF ServiceLeft
  <2>2. ASSUME NEW d \in Connections, UNCHANGED <<pc, total>>, queue' = Append(queue, d)
        PROVE  Wait(c)' \in 0 .. Wait(c)
    <3>1. i \in 1 .. Len(queue') /\ queue'[i] = c
      BY <1>1, <1>4, <2>2
    <3>2. j = i
      BY <1>2, <3>1 DEF QueueInv, OneAtATime
    <3> QED
      BY <1>6, <1>8, <2>2, <3>2 DEF ServiceLeft
  <2>3. CASE pc' = "accepting" /\ UNCHANGED queue
    <3>1. ServiceLeft' = 0
      BY <2>3 DEF ServiceLeft
    <3> QED
      BY <1>6, <1>8, <1>10, <1>13, <2>3, <3>1
  <2>4. queue' # <<>>
    BY <1>2
  <2> QED
    BY <1>13, <2>1, <2>2, <2>3, <2>4, OthersQueueBehind
<1> QED
  BY <1>11, <1>12, <1>13, <1>8, <1>9

(* While a client waits, nothing that others do puts it back, and a bounded *)
(* number of the daemon's own steps brings its turn.                        *)
THEOREM NobodyOvertakes == Spec => ServedInTurn
<1>1. QueueInv => Places
  BY PlacesInOrder
<1>2. IInv /\ QueueInv /\ Places /\ QueueInv' /\ Places' /\ [Next]_vars =>
        [\A c \in Connections :
            conn[c] = "queued" /\ conn'[c] = "queued" =>
                /\ Wait(c)' \in 0 .. Wait(c)
                /\ DaemonStep => Wait(c)' \in 0 .. Wait(c) - 1]_vars
  BY WaitShrinks
<1> QED
  BY <1>1, <1>2, InductiveInvariant, QueueInOrder, PTL DEF Spec, ServedInTurn
---------------------------------------------------------------------------
(* No requester is thrown back. *)

LEMMA AgentsAreFew ==
    ASSUME NEW S \in SUBSET Agents
    PROVE  /\ Cardinality(S) \in Nat
           /\ \A a \in S : Cardinality(S \ {a}) = Cardinality(S) - 1
<1>1. IsFiniteSet(Agents)
  <2>1. IsFiniteSet({"claude"})
    BY FS_Singleton
  <2>2. IsFiniteSet({"claude"} \cup {"codex"})
    BY <2>1, FS_AddElement
  <2>3. Agents = {"claude"} \cup {"codex"}
    BY DEF Agents
  <2> QED
    BY <2>2, <2>3
<1>2. IsFiniteSet(S)
  BY <1>1, FS_Subset
<1> QED
  BY <1>2, FS_CardinalityType, FS_RemoveElement

LEMMA LeftOverTypes ==
    ASSUME TypeOK, NEW r \in Requesters
    PROVE  Cardinality(todo[r]) \in Nat /\ RequesterLeft(r) \in Nat
<1>1. todo[r] \in SUBSET Agents
  BY DEF TypeOK
<1>2. Cardinality(todo[r]) \in Nat
  BY <1>1, AgentsAreFew
<1> QED
  BY <1>2 DEF RequesterLeft, TypeOK

LEMMA BeginBringsNearer ==
    ASSUME IInv, NEW r \in Requesters, Begin(r)
    PROVE  RequesterLeft(r)' \in 0 .. RequesterLeft(r) - 1
<1> USE DEF IInv
<1>1. PICK a \in todo[r] : todo' = [todo EXCEPT ![r] = @ \ {a}]
  BY BeginAsks
<1>2. todo[r] \in SUBSET Agents /\ todo'[r] = todo[r] \ {a}
  BY <1>1 DEF TypeOK
<1>3. /\ Cardinality(todo[r]) \in Nat /\ Cardinality(todo[r] \ {a}) \in Nat
      /\ Cardinality(todo[r] \ {a}) = Cardinality(todo[r]) - 1
  BY <1>1, <1>2, AgentsAreFew
<1>4. reqPc[r] = "choosing" /\ reqPc'[r] = "connecting"
  BY DEF Begin, TypeOK
<1>5. RequesterLeft(r) = 5 * Cardinality(todo[r]) + 1
  BY <1>4 DEF RequesterLeft
<1>6. RequesterLeft(r)' = 5 * Cardinality(todo[r] \ {a}) + 5
  BY <1>2, <1>4 DEF RequesterLeft
<1> QED
  BY <1>3, <1>5, <1>6

LEMMA MovesBringNearer ==
    ASSUME IInv, NEW r \in Requesters, RequesterStep(r), ~Begin(r)
    PROVE  RequesterLeft(r)' \in 0 .. RequesterLeft(r) - 1
<1> USE DEF IInv
<1>1. todo'[r] = todo[r] /\ Cardinality(todo[r]) \in Nat
  BY LeftOverTypes
     DEF RequesterStep, Connect, SendRequest, ExchangeFails, ReplyTimesOut, BadReply, ErrorReply,
         GoodReply, InvalidReply, Write, WriteFails, WriteTimesOut, AttemptFails, AttemptEnds
<1>2. CASE Connect(r)
  <2>1. reqPc[r] = "connecting" /\ reqPc'[r] = "sending"
    BY <1>2 DEF Connect, TypeOK
  <2> QED
    BY <1>1, <2>1 DEF RequesterLeft
<1>3. CASE SendRequest(r)
  <2>1. reqPc[r] = "sending" /\ reqPc'[r] = "reading"
    BY <1>3 DEF SendRequest, TypeOK
  <2> QED
    BY <1>1, <2>1 DEF RequesterLeft
<1>4. CASE GoodReply(r)
  <2>1. reqPc[r] = "reading" /\ reqPc'[r] = "importing"
    BY <1>4 DEF GoodReply, Replied, TypeOK
  <2> QED
    BY <1>1, <2>1 DEF RequesterLeft
<1>5. CASE ~Connect(r) /\ ~SendRequest(r) /\ ~GoodReply(r)
  <2>1. Attempting(r) /\ reqPc'[r] \in {"choosing", "done"}
    BY <1>5
       DEF RequesterStep, ExchangeFails, ReplyTimesOut, BadReply, ErrorReply, InvalidReply, Replied,
           Write, WriteFails, WriteTimesOut, AttemptFails, AttemptEnds, Attempting, TypeOK
  <2> QED
    BY <1>1, <2>1 DEF RequesterLeft, Attempting
<1> QED
  BY <1>2, <1>3, <1>4, <1>5

LEMMA OthersLeaveIt ==
    ASSUME IInv, NEW r \in Requesters, [Next]_vars, ~RequesterStep(r), reqPc[r] # "idle"
    PROVE  todo'[r] = todo[r] /\ reqPc'[r] \in {reqPc[r], "done"}
<1> USE DEF IInv
<1>1. ASSUME NEW q \in Requesters, NEW j \in Jobs, Start(q, j)
      PROVE  todo'[r] = todo[r] /\ reqPc'[r] = reqPc[r]
  BY <1>1 DEF Start, TypeOK
<1>2. ASSUME NEW q \in Requesters, RequesterStep(q)
      PROVE  todo'[r] = todo[r] /\ reqPc'[r] = reqPc[r]
  <2>1. q # r
    BY <1>2
  <2> QED
    BY <1>2, <2>1
       DEF RequesterStep, Begin, Connect, SendRequest, ExchangeFails, ReplyTimesOut, BadReply,
           ErrorReply, GoodReply, InvalidReply, Write, WriteFails, WriteTimesOut, AttemptFails,
           AttemptEnds, TypeOK
<1>3. ASSUME NEW q \in Requesters, Interrupted(q)
      PROVE  todo'[r] = todo[r] /\ reqPc'[r] \in {reqPc[r], "done"}
  BY <1>3 DEF Interrupted, TypeOK
<1>4. CASE \/ \E c \in Strangers : StrangerStep(c)
           \/ \E c \in Connections : CorruptReply(c) \/ Misdeliver(c)
  BY <1>4 DEF StrangerStep, StrangerConnects, StrangerSends, StrangerCloses, CorruptReply, Misdeliver,
              requesterVars
<1>5. CASE DaemonStep \/ ReadFails
  BY <1>5 DEF DaemonStep, Accept, ReadBlock, ReadTooMuch, ReadTimesOut, ReadEof, RejectRequest, TooLate,
              ReadStore, SendResponse, SendFails, ReadFails, Hangup, Close, requesterVars
<1>6. CASE Serve \/ DaemonInterrupted \/ AcceptFails
  BY <1>6 DEF Serve, DaemonInterrupted, AcceptFails, Stops, requesterVars
<1>7. CASE OwnerWrites \/ Tick \/ TimeOfDay \/ UNCHANGED vars
  BY <1>7 DEF OwnerWrites, Tick, TimeOfDay, vars, requesterVars
<1> QED
  BY <1>1, <1>2, <1>3, <1>4, <1>5, <1>6, <1>7 DEF Next

LEMMA RequesterProceeds ==
    ASSUME IInv, NEW r \in Requesters, [Next]_vars, reqPc[r] # "idle"
    PROVE  /\ RequesterLeft(r)' \in 0 .. RequesterLeft(r)
           /\ RequesterStep(r) => RequesterLeft(r)' \in 0 .. RequesterLeft(r) - 1
<1>1. RequesterLeft(r) \in Nat /\ Cardinality(todo[r]) \in Nat
  BY LeftOverTypes DEF IInv
<1>2. CASE RequesterStep(r)
  <2>1. RequesterLeft(r)' \in 0 .. RequesterLeft(r) - 1
    BY <1>2, BeginBringsNearer, MovesBringNearer
  <2> QED
    BY <1>1, <2>1
<1>3. CASE ~RequesterStep(r)
  <2>1. todo'[r] = todo[r] /\ reqPc'[r] \in {reqPc[r], "done"}
    BY <1>3, OthersLeaveIt
  <2>2. CASE reqPc'[r] = reqPc[r]
    <3>1. RequesterLeft(r)' = RequesterLeft(r)
      BY <2>1, <2>2 DEF RequesterLeft
    <3> QED
      BY <1>1, <1>3, <3>1
  <2>3. CASE reqPc'[r] = "done"
    <3>1. RequesterLeft(r)' = 5 * Cardinality(todo[r]) + 0
      BY <2>1, <2>3 DEF RequesterLeft
    <3>2. RequesterLeft(r) >= 5 * Cardinality(todo[r])
      BY <1>1 DEF RequesterLeft, IInv, TypeOK
    <3> QED
      BY <1>1, <1>3, <3>1, <3>2
  <2> QED
    BY <2>1, <2>2, <2>3
<1> QED
  BY <1>2, <1>3

(* A requester makes a bounded number of steps, whatever it is sent.        *)
THEOREM NobodyIsThrownBack == Spec => NoStepBack
<1>1. IInv /\ [Next]_vars =>
        [\A r \in Requesters : reqPc[r] # "idle" =>
            /\ RequesterLeft(r)' \in 0 .. RequesterLeft(r)
            /\ RequesterStep(r) => RequesterLeft(r)' \in 0 .. RequesterLeft(r) - 1]_vars
  BY RequesterProceeds
<1> QED
  BY <1>1, InductiveInvariant, PTL DEF Spec, NoStepBack
---------------------------------------------------------------------------
(* RequestDaemon implements RequestPromise. *)

LEMMA AttemptEndRefines ==
    ASSUME IInv, NEW r \in Requesters, Attempting(r), NEW how \in {"refused", "failed"},
           result' = [result EXCEPT ![Current(r)] = how],
           UNCHANGED <<server, seen, store>>,
           how = "refused" => seen[Current(r)] \cap Failures # {}
    PROVE  Promise!Next
<1>1. PICK n \in Attempts : n = Current(r)
  BY DEF IInv, TypeOK, Current, Attempts
<1>2. result[n] = "asked"
  BY <1>1 DEF IInv, RequestersInv, Progress
<1>3. Promise!Abandon(n, how)
  BY <1>1, <1>2 DEF Promise!Abandon
<1> QED
  BY <1>3 DEF Promise!Next, Promise!Requests, Promise!Agents, Attempts, Agents

LEMMA RefusalHasCause ==
    ASSUME IInv, NEW r \in Requesters, ErrorReply(r)
    PROVE  seen[Current(r)] \cap Failures # {}
<1>1. Current(r) \in Attempts /\ Current(r) \in Connections
  BY DEF Current, IInv, TypeOK, Attempts, Connections
<1>2. PICK m : m = AnswerTo(r)
  OBVIOUS
<1>3. m \in Messages /\ m.type = "credential-response" /\ m.nonce = Current(r)
      /\ m.content \in Failures
  BY <1>1, <1>2 DEF ErrorReply, Answers, Decrypts, AnswerTo, IInv, TypeOK
<1>4. m.content \in seen[Current(r)]
  BY <1>1, <1>2, <1>3 DEF AnswerTo, IInv, RepliesInv, Faithful
<1> QED
  BY <1>3, <1>4

LEMMA StepRefines ==
    ASSUME IInv, [Next]_vars
    PROVE  [Promise!Next]_Promise!vars
<1> USE DEF IInv
<1>1. CASE UNCHANGED <<server, seen, result, store>>
  BY <1>1 DEF Promise!vars
<1>2. CASE OwnerWrites
  BY <1>2 DEF OwnerWrites, Promise!Next, Promise!Change, Promise!Agents, Agents, requesterVars,
              daemonVars
<1>3. CASE ReadStore
  <2>1. PICK n \in Attempts : n = heard.nonce
    BY <1>3, ResponseTypes DEF ReadStore, Messages
  <2>2. heard.agent = n[2] /\ result[n] # "none"
    BY <1>3, <2>1, ResponseTypes DEF ReadStore, DaemonInv, Faithful
  <2>3. Promise!ReadFor(n)
    BY <1>3, <2>1, <2>2 DEF ReadStore, Promise!ReadFor, requesterVars
  <2> QED
    BY <2>3 DEF Promise!Next, Promise!Requests, Promise!Agents, Attempts, Agents
<1>4. ASSUME NEW r \in Requesters, Begin(r)
      PROVE  Promise!Next
  <2>1. PICK a \in todo[r] : result' = [result EXCEPT ![<<r, a>>] = "asked"]
    BY <1>4, BeginAsks
  <2>2. result[<<r, a>>] = "none" /\ <<r, a>> \in Attempts
    BY <1>4, <2>1 DEF Begin, RequestersInv, Progress, TypeOK, Attempts
  <2>3. Promise!Ask(<<r, a>>)
    BY <1>4, <2>1, <2>2 DEF Begin, Promise!Ask, daemonVars
  <2> QED
    BY <2>2, <2>3 DEF Promise!Next, Promise!Requests, Promise!Agents, Attempts, Agents
<1>5. ASSUME NEW r \in Requesters, Write(r) \/ WriteTimesOut(r)
      PROVE  Promise!Next
  <2>1. PICK n \in Attempts : n = Current(r)
    BY DEF TypeOK, Current, Attempts
  <2>2. PICK doc : doc = payload[r]
    OBVIOUS
  <2>3. reqPc[r] = "importing" /\ n = <<r, trying[r]>>
    BY <1>5, <2>1 DEF Write, WriteTimesOut, Current
  <2>4. result[n] = "asked" /\ doc \in seen[n] \ Failures
    BY <2>1, <2>2, <2>3 DEF RequestersInv, Progress, Imports, Attempting
  <2>5. /\ UNCHANGED <<server, seen>>
        /\ store' = [store EXCEPT ![n[1]] = [@ EXCEPT ![n[2]] = Stored(n[2], doc)]]
    BY <1>5, <2>1, <2>2, <2>3 DEF Write, WriteTimesOut, WriteStore, AttemptEnds, daemonVars
  <2>6. PICK how \in {"imported", "failed"} :
           /\ result' = [result EXCEPT ![n] = how]
           /\ how # "imported" => KeychainService /\ n[2] = "claude" /\ how = "failed"
    BY <1>5, <2>1, <2>3 DEF Write, WriteTimesOut, AttemptEnds
  <2>7. Promise!Import(n, doc, how)
    BY <2>4, <2>5, <2>6 DEF Promise!Import, Promise!Stored, Stored
  <2> QED
    BY <2>4, <2>7 DEF Promise!Next, Promise!Requests, Promise!Agents, Attempts, Agents
<1>6. ASSUME NEW r \in Requesters, Interrupted(r)
      PROVE  Promise!Next \/ UNCHANGED <<server, seen, result, store>>
  <2>1. UNCHANGED <<server, seen, store>>
    BY <1>6 DEF Interrupted, daemonVars
  <2>2. \/ result' = result
        \/ Attempting(r) /\ result' = [result EXCEPT ![Current(r)] = "failed"]
    BY <1>6 DEF Interrupted, Attempting
  <2> QED
    BY <2>1, <2>2, AttemptEndRefines
<1>7. ASSUME NEW r \in Requesters, ErrorReply(r)
      PROVE  Promise!Next
  <2>1. /\ Attempting(r) /\ UNCHANGED <<server, seen, store>>
        /\ result' = [result EXCEPT ![Current(r)] = "refused"]
    BY <1>7 DEF ErrorReply, Replied, Attempting, AttemptFails, AttemptEnds, daemonVars
  <2> QED
    BY <1>7, <2>1, AttemptEndRefines, RefusalHasCause
<1>8. ASSUME NEW r \in Requesters, Attempting(r), AttemptFails(r, "failed")
      PROVE  Promise!Next
  <2>1. /\ UNCHANGED <<server, seen, store>>
        /\ result' = [result EXCEPT ![Current(r)] = "failed"]
    BY <1>8 DEF AttemptFails, AttemptEnds, daemonVars
  <2> QED
    BY <1>8, <2>1, AttemptEndRefines
<1> QED
  BY <1>1, <1>2, <1>3, <1>4, <1>5, <1>6, <1>7, <1>8, Traces

(* Every request is one atomic read of the serving machine, and an import   *)
(* is of that read or does not happen.                                      *)
THEOREM RequestsKeepPromise == Spec => KeepsPromise
<1>1. Init => Promise!Init
  BY DEF Init, Promise!Init, Promise!Requests, Promise!Agents, Attempts, Agents
<1>2. IInv /\ [Next]_vars => [Promise!Next]_Promise!vars
  BY StepRefines
<1> QED
  BY <1>1, <1>2, InductiveInvariant, PTL DEF Spec, KeepsPromise, Promise!Spec
===========================================================================
