--------------------------- MODULE RequestDaemon ---------------------------
(***************************************************************************)
(* Persistent credential requests: `--serve' and `--request'               *)
(* (request_daemon.py, request_protocol.py).                               *)
(*                                                                         *)
(* One daemon serves connections one after the other: it accepts, reads a  *)
(* request to its end, reads its own machine's store, answers and closes,  *)
(* all within one deadline that starts at accept().  Requesters, each on a *)
(* machine of its own, ask for one agent's credentials or for both in      *)
(* turn, each time on a new connection and under a new nonce, and import   *)
(* what they get.  Strangers connect too, and send what they like, slowly. *)
(*                                                                         *)
(* An attempt <<requester, agent>> stands for its nonce and for its        *)
(* connection.  Deadlines count down: `budget' and `spare' are what        *)
(* remaining() would find left, in ticks, and stay at 0 once they passed.  *)
(* A document's expiry is judged by another clock, the time of day.        *)
(***************************************************************************)
EXTENDS Credentials, Sequences, FiniteSets

CONSTANTS
    Nothing,          \* no job, no message, no connection
    Missing, Broken,  \* a store that gives CredentialsError, or another error
    Garbage,          \* bytes that are no frame, or that do not verify
    Requesters, Strangers,
    Passphrases,
    ServerPw,         \* the daemon's passphrase
    Jobs,             \* what a requester may be asked to do
    Sizes,            \* how many blocks a stranger may have to send
    Contents,         \* what the serving machine's stores may hold
    InitialStore,     \* the stores of a requesting machine at first
    Backlog,          \* connections the kernel completes ahead of accept()
    RequestLimit,     \* blocks the daemon reads before it gives up
    ExchangeTimeout, ConnectTimeout,
    Faults,           \* the network faults of this instance
    MaxRuns,          \* bound: how often the daemon is started
    MaxNow            \* bound: how far the time of day runs

Attempts == Requesters \X Agents

Connections == Attempts \cup Strangers

Failures == {Missing, Broken}

JobSet == [agents : (SUBSET Agents) \ {{}}, force : BOOLEAN, pw : Passphrases]

(* The plaintexts of request_protocol.py, sealed under pw. *)
Messages == [pw : Passphrases, type : {"credential-request", "credential-response"},
             agent : Agents, nonce : Attempts, content : Contents \cup {Nothing} \cup Failures]

ASSUME RequestAssumption ==
    /\ Strangers \cap Attempts = {} /\ Nothing \notin Connections \cup Jobs
    /\ Missing # Broken /\ Missing \notin Documents /\ Broken \notin Documents
    /\ Contents \subseteq Documents \cup Failures
    /\ Nothing \notin Contents \cup Failures
    /\ Nothing \notin Messages /\ Garbage \notin Messages \cup {Nothing}
    /\ ServerPw \in Passphrases /\ Jobs \subseteq JobSet
    /\ Sizes \subseteq Nat
    /\ InitialStore \in [Agents -> Documents]
    /\ Backlog \in Nat /\ RequestLimit \in Nat \ {0}
    /\ ExchangeTimeout \in Nat \ {0} /\ ConnectTimeout \in Nat \ {0}
    /\ Faults \subseteq {"corrupt", "misdeliver", "accept"}
    /\ MaxRuns \in Nat /\ MaxNow \in Nat

VARIABLES
    \* the requesters
    reqPc,     \* where each one is
    job,       \* its command line
    todo,      \* the agents it has not attempted yet
    trying,    \* the agent it is attempting
    spare,     \* what is left until its deadline
    payload,   \* the document it is about to import
    forced,    \* codex.FORCE_WRITE
    result,    \* how each attempt stands
    exit,      \* its exit status
    store,     \* the stores of its machine
    \* the connections
    conn,      \* each connection, as the serving host leaves it
    left,      \* blocks its client has not sent
    flight,    \* blocks sent and not yet read
    eof,       \* TRUE once the client has half-closed or closed
    resp,      \* what the daemon answered, on its way
    \* the daemon
    pc, queue, serving, budget, total, heard, answer,
    held,      \* ticks since accept()
    runs,      \* how often it has been started
    ended,     \* why it is not running
    server,    \* the stores of its machine
    seen,      \* history: what it has read there for each attempt
    now        \* the time of day

requesterVars == <<reqPc, job, todo, trying, spare, payload, forced, result, exit, store>>
connVars == <<conn, left, flight, eof, resp>>
daemonVars == <<pc, queue, serving, budget, total, heard, answer, held, runs, ended, seen>>
vars == <<requesterVars, connVars, daemonVars, server, now>>

Up == pc \notin {"off", "stopped"}

Init ==
    /\ reqPc = [r \in Requesters |-> "idle"]
    /\ job = [r \in Requesters |-> Nothing]
    /\ todo = [r \in Requesters |-> {}]
    /\ trying = [r \in Requesters |-> "claude"]
    /\ spare = [r \in Requesters |-> 0]
    /\ payload = [r \in Requesters |-> Nothing]
    /\ forced = [r \in Requesters |-> FALSE]
    /\ result = [n \in Attempts |-> "none"]
    /\ exit = [r \in Requesters |-> "none"]
    /\ store = [r \in Requesters |-> InitialStore]
    /\ conn = [c \in Connections |-> "none"]
    /\ left = [c \in Connections |-> 0]
    /\ flight = [c \in Connections |-> 0]
    /\ eof = [c \in Connections |-> FALSE]
    /\ resp = [c \in Connections |-> Nothing]
    /\ pc = "off" /\ queue = <<>> /\ serving = Nothing /\ budget = 0 /\ total = 0
    /\ heard = Nothing /\ answer = Nothing /\ held = 0 /\ runs = 0 /\ ended = "none"
    /\ server \in [Agents -> Contents]
    /\ seen = [n \in Attempts |-> {}]
    /\ now = 0
---------------------------------------------------------------------------
(* A requester: request_credentials. *)

Current(r) == <<r, trying[r]>>

Start(r, j) ==
    /\ reqPc[r] = "idle"
    /\ reqPc' = [reqPc EXCEPT ![r] = "choosing"]
    /\ job' = [job EXCEPT ![r] = j]
    /\ todo' = [todo EXCEPT ![r] = j.agents]
    /\ UNCHANGED <<trying, spare, payload, forced, result, exit, store,
                   connVars, daemonVars, server, now>>

(* The loop over protocol.AGENTS: a new nonce, FORCE_WRITE off.  The native *)
(* socket has CONNECT_TIMEOUT to connect; nc, which darwin uses, runs under *)
(* one deadline from the start.                                             *)
Begin(r) ==
    /\ reqPc[r] = "choosing"
    /\ LET a == IF "claude" \in todo[r] THEN "claude" ELSE "codex"
       IN  /\ trying' = [trying EXCEPT ![r] = a]
           /\ todo' = [todo EXCEPT ![r] = @ \ {a}]
           /\ result' = [result EXCEPT ![<<r, a>>] = "asked"]
    /\ reqPc' = [reqPc EXCEPT ![r] = "connecting"]
    /\ forced' = [forced EXCEPT ![r] = FALSE]
    /\ spare' = [spare EXCEPT ![r] =
                    IF KeychainService THEN ExchangeTimeout ELSE ConnectTimeout]
    /\ UNCHANGED <<job, payload, exit, store, connVars, daemonVars, server, now>>

(* The kernel completes a connection the daemon has not accepted yet. *)
Enqueue(c) ==
    /\ Up /\ Len(queue) < Backlog
    /\ queue' = Append(queue, c)
    /\ conn' = [conn EXCEPT ![c] = "queued"]
    /\ UNCHANGED <<pc, serving, budget, total, heard, answer, held, runs, ended, seen>>

Connect(r) ==
    /\ reqPc[r] = "connecting" /\ spare[r] > 0
    /\ Enqueue(Current(r))
    /\ reqPc' = [reqPc EXCEPT ![r] = "sending"]
    /\ spare' = [spare EXCEPT ![r] = IF KeychainService THEN @ ELSE ExchangeTimeout]
    /\ UNCHANGED <<job, todo, trying, payload, forced, result, exit, store,
                   left, flight, eof, resp, server, now>>

(* send_frame and shutdown(SHUT_WR): a request is a single block. *)
SendRequest(r) ==
    /\ reqPc[r] = "sending" /\ spare[r] > 0 /\ conn[Current(r)] \in {"queued", "open"}
    /\ reqPc' = [reqPc EXCEPT ![r] = "reading"]
    /\ flight' = [flight EXCEPT ![Current(r)] = 1]
    /\ eof' = [eof EXCEPT ![Current(r)] = TRUE]
    /\ UNCHANGED <<job, todo, trying, spare, payload, forced, result, exit, store,
                   conn, left, resp, daemonVars, server, now>>

ExitStatus(r, outcome) ==
    IF outcome = "imported" /\ \A a \in job[r].agents \ {trying[r]} : result[<<r, a>>] = "imported"
    THEN "success" ELSE "failure"

(* The socket is closed, FORCE_WRITE reset, and the loop goes on or ends. *)
AttemptEnds(r, outcome) ==
    /\ result' = [result EXCEPT ![Current(r)] = outcome]
    /\ eof' = [eof EXCEPT ![Current(r)] = TRUE]
    /\ forced' = [forced EXCEPT ![r] = FALSE]
    /\ payload' = [payload EXCEPT ![r] = Nothing]
    /\ spare' = [spare EXCEPT ![r] = 0]
    /\ IF todo[r] # {}
       THEN reqPc' = [reqPc EXCEPT ![r] = "choosing"] /\ UNCHANGED exit
       ELSE /\ reqPc' = [reqPc EXCEPT ![r] = "done"]
            /\ exit' = [exit EXCEPT ![r] = ExitStatus(r, outcome)]
    /\ UNCHANGED <<job, todo, trying, conn, left, flight, resp, daemonVars, server, now>>

(* The same, leaving the stores of the machine as they are. *)
AttemptFails(r, outcome) == AttemptEnds(r, outcome) /\ UNCHANGED store

(* An OSError while it connects, sends or reads (a reply over the limit     *)
(* included), or nc failing.                                                *)
ExchangeFails(r) ==
    /\ \/ reqPc[r] \in {"connecting", "sending"}
       \/ reqPc[r] = "reading" /\ conn[Current(r)] \in {"closed", "reset"}
    /\ AttemptFails(r, "failed")

(* Mutant: nc is waited for without a deadline. *)
ReplyTimesOutForNativeOnly(r) ==
    /\ reqPc[r] = "reading" /\ spare[r] = 0 /\ ~KeychainService
    /\ AttemptFails(r, "failed")

(* Mutant: a requester that gets no answer asks again. *)
ReplyTimesOutAsksAgain(r) ==
    /\ reqPc[r] = "reading" /\ spare[r] = 0 /\ conn[Current(r)] \in {"closed", "reset"}
    /\ reqPc' = [reqPc EXCEPT ![r] = "connecting"]
    /\ spare' = [spare EXCEPT ![r] = ConnectTimeout]
    /\ UNCHANGED <<job, todo, trying, payload, forced, result, exit, store, connVars, daemonVars, server, now>>

ReplyTimesOut(r) ==
    /\ reqPc[r] = "reading" /\ spare[r] = 0
    /\ AttemptFails(r, "failed")

(* read_frame has reached the end of the reply: the daemon has closed. *)
Replied(r) == reqPc[r] = "reading" /\ spare[r] > 0 /\ conn[Current(r)] = "closed"

Decrypts(m, pw) == m \notin {Nothing, Garbage} /\ m.pw = pw

(* Mutant: any response about the same agent will do. *)
AnswersAgentOf(m, n, pw) ==
    Decrypts(m, pw) /\ m.type = "credential-response" /\ m.agent = n[2]

(* decrypt and read_response accept it, for this very request. *)
Answers(m, n, pw) ==
    /\ Decrypts(m, pw)
    /\ m.type = "credential-response" /\ m.agent = n[2] /\ m.nonce = n

AnswerTo(r) == resp[Current(r)]

BadReply(r) ==
    /\ Replied(r) /\ ~Answers(AnswerTo(r), Current(r), job[r].pw)
    /\ AttemptFails(r, "failed")

(* "request failed (credentials-unavailable)" *)
ErrorReply(r) ==
    /\ Replied(r) /\ Answers(AnswerTo(r), Current(r), job[r].pw)
    /\ AnswerTo(r).content \in Failures
    /\ AttemptFails(r, "refused")

(* Mutant: every codex import skips the expiry check. *)
ForceAlways(r) == trying[r] = "codex"

ForceWrite(r) == job[r].force /\ trying[r] = "codex"

(* Mutant: a payload that parses is written, whatever its shape. *)
ImportableOnceParsed(a, doc, force) == Parses(a, doc)

Importable(a, doc, force) == Parses(a, doc) /\ ValidateBlob(a, doc, force, now)

GoodReply(r) ==
    LET content == AnswerTo(r).content
    IN  /\ Replied(r) /\ Answers(AnswerTo(r), Current(r), job[r].pw)
        /\ content \notin Failures /\ Importable(trying[r], content, ForceWrite(r))
        /\ reqPc' = [reqPc EXCEPT ![r] = "importing"]
        /\ payload' = [payload EXCEPT ![r] = content]
        /\ forced' = [forced EXCEPT ![r] = ForceWrite(r)]
        /\ UNCHANGED <<job, todo, trying, spare, result, exit, store,
                       connVars, daemonVars, server, now>>

(* Mutant: the store is written before the payload is validated. *)
InvalidReplyWritten(r) ==
    LET content == AnswerTo(r).content
    IN  /\ Replied(r) /\ Answers(AnswerTo(r), Current(r), job[r].pw)
        /\ content \notin Failures /\ ~Importable(trying[r], content, ForceWrite(r))
        /\ store' = [store EXCEPT ![r][trying[r]] = content]
        /\ AttemptEnds(r, "failed")

InvalidReply(r) ==
    LET content == AnswerTo(r).content
    IN  /\ Replied(r) /\ Answers(AnswerTo(r), Current(r), job[r].pw)
        /\ content \notin Failures /\ ~Importable(trying[r], content, ForceWrite(r))
        /\ AttemptFails(r, "failed")

WriteStore(r) ==
    /\ WriteAccepts(trying[r], payload[r], forced[r], now)
    /\ store' = [store EXCEPT ![r] = [@ EXCEPT ![trying[r]] = Stored(trying[r], payload[r])]]

Write(r) ==
    /\ reqPc[r] = "importing"
    /\ WriteStore(r)
    /\ AttemptEnds(r, "imported")

(* The backend's own validation, a little later, or an OSError on the way. *)
WriteFails(r) ==
    /\ reqPc[r] = "importing"
    /\ AttemptFails(r, "failed")

(* Mutant: subprocess.TimeoutExpired ends the command. *)
WriteTimesOutUncaught(r) ==
    /\ reqPc[r] = "importing" /\ KeychainService /\ trying[r] = "claude"
    /\ WriteStore(r)
    /\ result' = [result EXCEPT ![Current(r)] = "failed"]
    /\ reqPc' = [reqPc EXCEPT ![r] = "done"]
    /\ exit' = [exit EXCEPT ![r] = "failure"]
    /\ UNCHANGED <<job, todo, trying, spare, payload, forced, connVars, daemonVars, server, now>>

(* `security' killed by its timeout once it has changed the Keychain. *)
WriteTimesOut(r) ==
    /\ reqPc[r] = "importing" /\ KeychainService /\ trying[r] = "claude"
    /\ WriteStore(r)
    /\ AttemptEnds(r, "failed")

(* Ctrl-C: nothing more is attempted. *)
Interrupted(r) ==
    /\ reqPc[r] \in {"choosing", "connecting", "sending", "reading", "importing"}
    /\ reqPc' = [reqPc EXCEPT ![r] = "done"]
    /\ exit' = [exit EXCEPT ![r] = "interrupted"]
    /\ forced' = [forced EXCEPT ![r] = FALSE]
    /\ payload' = [payload EXCEPT ![r] = Nothing]
    /\ spare' = [spare EXCEPT ![r] = 0]
    /\ IF reqPc[r] = "choosing" THEN UNCHANGED <<result, eof>>
       ELSE /\ result' = [result EXCEPT ![Current(r)] = "failed"]
            /\ eof' = [eof EXCEPT ![Current(r)] = TRUE]
    /\ UNCHANGED <<job, todo, trying, store, conn, left, flight, resp, daemonVars, server, now>>
---------------------------------------------------------------------------
(* Strangers, the agent on the serving machine, and time. *)

StrangerConnects(c, size) ==
    /\ conn[c] = "none"
    /\ Enqueue(c)
    /\ left' = [left EXCEPT ![c] = size]
    /\ UNCHANGED <<requesterVars, flight, eof, resp, server, now>>

StrangerSends(c) ==
    /\ left[c] > 0 /\ ~eof[c] /\ conn[c] \in {"queued", "open"}
    /\ left' = [left EXCEPT ![c] = @ - 1]
    /\ flight' = [flight EXCEPT ![c] = @ + 1]
    /\ UNCHANGED <<requesterVars, conn, eof, resp, daemonVars, server, now>>

StrangerCloses(c) ==
    /\ conn[c] # "none" /\ ~eof[c]
    /\ eof' = [eof EXCEPT ![c] = TRUE]
    /\ UNCHANGED <<requesterVars, conn, left, flight, resp, daemonVars, server, now>>

OwnerWrites ==
    /\ server' \in [Agents -> Contents] \ {server}
    /\ UNCHANGED <<requesterVars, connVars, daemonVars, now>>

Less(t) == IF t = 0 THEN 0 ELSE t - 1

(* Time on the monotonic clocks; `held' stops one past the deadline. *)
Tick ==
    /\ spare' = [r \in Requesters |-> Less(spare[r])]
    /\ budget' = Less(budget)
    /\ held' = IF serving # Nothing /\ held <= ExchangeTimeout THEN held + 1 ELSE held
    /\ UNCHANGED <<reqPc, job, todo, trying, payload, forced, result, exit, store, connVars,
                   pc, queue, serving, total, heard, answer, runs, ended, seen, server, now>>

TimeOfDay ==
    /\ now < MaxNow
    /\ now' = now + 1
    /\ UNCHANGED <<requesterVars, connVars, daemonVars, server>>
---------------------------------------------------------------------------
(* The network. *)

Request(n) == [pw |-> job[n[1]].pw, type |-> "credential-request", agent |-> n[2],
               nonce |-> n, content |-> Nothing]

(* Every message that has been on the wire and may turn up again. *)
Recorded ==
    {Request(n) : n \in {m \in Attempts : result[m] # "none"}}
    \cup ({resp[c] : c \in Connections} \ {Nothing})

CorruptReply(c) ==
    /\ "corrupt" \in Faults /\ resp[c] # Nothing
    /\ resp' = [resp EXCEPT ![c] = Garbage]
    /\ UNCHANGED <<requesterVars, conn, left, flight, eof, daemonVars, server, now>>

(* A message of another exchange, or the request itself, as the reply. *)
Misdeliver(c) ==
    /\ "misdeliver" \in Faults /\ conn[c] = "closed"
    /\ \E m \in Recorded : resp' = [resp EXCEPT ![c] = m]
    /\ UNCHANGED <<requesterVars, conn, left, flight, eof, daemonVars, server, now>>

(* What a connection delivers to the daemon: the request as it was sent, or *)
(* damaged; from a stranger anything, an old message included.              *)
Delivered(c) ==
    IF total = 0 THEN {Garbage}
    ELSE IF c \in Strangers THEN Recorded \cup {Garbage}
    ELSE {Request(c)} \cup (IF "corrupt" \in Faults THEN {Garbage} ELSE {})
---------------------------------------------------------------------------
(* The daemon: serve and process_connection. *)

Serve ==
    /\ ~Up /\ runs < MaxRuns
    /\ pc' = "accepting" /\ runs' = runs + 1 /\ ended' = "none"
    /\ UNCHANGED <<requesterVars, connVars, queue, serving, budget, total, heard, answer, held, seen,
                   server, now>>

(* Mutant: the last to come is the first to be served. *)
AcceptLast ==
    /\ pc = "accepting" /\ queue # <<>>
    /\ pc' = "reading"
    /\ serving' = queue[Len(queue)] /\ queue' = SubSeq(queue, 1, Len(queue) - 1)
    /\ conn' = [conn EXCEPT ![queue[Len(queue)]] = "open"]
    /\ budget' = ExchangeTimeout /\ held' = 0
    /\ UNCHANGED <<requesterVars, left, flight, eof, resp, total, heard, answer, runs, ended, seen,
                   server, now>>

Accept ==
    /\ pc = "accepting" /\ queue # <<>>
    /\ pc' = "reading"
    /\ serving' = Head(queue) /\ queue' = Tail(queue)
    /\ conn' = [conn EXCEPT ![Head(queue)] = "open"]
    /\ budget' = ExchangeTimeout /\ held' = 0
    /\ UNCHANGED <<requesterVars, left, flight, eof, resp, total, heard, answer, runs, ended, seen,
                   server, now>>

Idle ==
    /\ serving' = Nothing /\ budget' = 0 /\ held' = 0 /\ total' = 0
    /\ heard' = Nothing /\ answer' = Nothing
    /\ UNCHANGED <<runs, seen>>

(* The daemon ends: every connection it has or that waits for it is closed. *)
Stops(why) ==
    /\ Up
    /\ pc' = "stopped" /\ ended' = why /\ queue' = <<>>
    /\ conn' = [c \in Connections |->
                    IF conn[c] = "queued" \/ (conn[c] = "open" /\ flight[c] > 0) THEN "reset"
                    ELSE IF conn[c] = "open" THEN "closed" ELSE conn[c]]
    /\ Idle
    /\ UNCHANGED <<requesterVars, left, flight, eof, resp, server, now>>

DaemonInterrupted == Stops("interrupt")

(* accept() raises an OSError, outside the try around the connection.  *)
AcceptFails == "accept" \in Faults /\ pc = "accepting" /\ Stops("error")

(* Mutant: a connection that got no answer is not closed. *)
CloseAnswered(reply) ==
    /\ pc' = "accepting"
    /\ conn' = [conn EXCEPT ![serving] = IF reply = Nothing THEN @ ELSE "closed"]
    /\ resp' = [resp EXCEPT ![serving] = reply]
    /\ Idle
    /\ UNCHANGED <<requesterVars, left, flight, eof, queue, ended, server, now>>

(* The connection is closed and the daemon goes back to accept(). *)
Close(reply) ==
    /\ pc' = "accepting"
    /\ conn' = [conn EXCEPT ![serving] = IF flight[serving] > 0 THEN "reset" ELSE "closed"]
    /\ resp' = [resp EXCEPT ![serving] = reply]
    /\ Idle
    /\ UNCHANGED <<requesterVars, left, flight, eof, queue, ended, server, now>>

(* An exception caught by serve: nothing is answered. *)
Hangup == Close(Nothing)

(* Mutant: every block gives the client the whole timeout again. *)
ReadBlockAnew ==
    /\ pc = "reading" /\ budget > 0 /\ flight[serving] > 0 /\ total < RequestLimit
    /\ flight' = [flight EXCEPT ![serving] = @ - 1]
    /\ total' = total + 1 /\ budget' = ExchangeTimeout
    /\ UNCHANGED <<requesterVars, conn, left, eof, resp, pc, queue, serving, heard, answer,
                   held, runs, ended, seen, server, now>>

ReadBlock ==
    /\ pc = "reading" /\ budget > 0 /\ flight[serving] > 0 /\ total < RequestLimit
    /\ flight' = [flight EXCEPT ![serving] = @ - 1]
    /\ total' = total + 1
    /\ UNCHANGED <<requesterVars, conn, left, eof, resp, pc, queue, serving, budget, heard, answer,
                   held, runs, ended, seen, server, now>>

(* FrameTooLarge *)
ReadTooMuch ==
    /\ pc = "reading" /\ budget > 0 /\ flight[serving] > 0 /\ total = RequestLimit
    /\ Hangup

(* Mutant: a client that says nothing is waited for. *)
WaitOn ==
    /\ pc = "reading" /\ budget = 0
    /\ UNCHANGED vars

(* remaining(deadline) or recv raises TimeoutError. *)
ReadTimesOut ==
    /\ pc = "reading" /\ budget = 0
    /\ Hangup

(* An OSError from recv. *)
ReadFails ==
    /\ pc = "reading"
    /\ Hangup

ReadEof ==
    /\ pc = "reading" /\ budget > 0 /\ flight[serving] = 0 /\ eof[serving]
    /\ pc' = "deciding"
    /\ heard' \in Delivered(serving)
    /\ UNCHANGED <<requesterVars, connVars, queue, serving, budget, total, answer, held, runs, ended,
                   seen, server, now>>

(* decrypt and read_request accept it. *)
IsRequest(m) == Decrypts(m, ServerPw) /\ m.type = "credential-request"

RejectRequest ==
    /\ pc = "deciding" /\ ~IsRequest(heard)
    /\ Hangup

(* remaining(deadline) before the store is read, and before the response    *)
(* is encrypted or sent.                                                    *)
TooLate ==
    /\ budget = 0
    /\ pc = "answering" \/ (pc = "deciding" /\ IsRequest(heard))
    /\ Hangup

(* read_raw, or the Keychain under what is left of the deadline. *)
ReadStore ==
    /\ pc = "deciding" /\ IsRequest(heard) /\ budget > 0
    /\ \E content \in {server[heard.agent]} \cup Failures :
          /\ answer' = content
          /\ seen' = [seen EXCEPT ![heard.nonce] = @ \cup {content}]
    /\ pc' = "answering"
    /\ UNCHANGED <<requesterVars, connVars, queue, serving, budget, total, heard, held, runs, ended,
                   server, now>>

Response == [pw |-> ServerPw, type |-> "credential-response", agent |-> heard.agent,
             nonce |-> heard.nonce, content |-> answer]

SendResponse ==
    /\ pc = "answering" /\ budget > 0
    /\ Close(Response)

(* sendall fails, or runs into the deadline, with a part of the frame sent. *)
SendFails ==
    /\ pc = "answering"
    /\ Close(Garbage)
---------------------------------------------------------------------------
RequesterStep(r) ==
    \/ Begin(r) \/ Connect(r) \/ SendRequest(r) \/ ExchangeFails(r) \/ ReplyTimesOut(r)
    \/ BadReply(r) \/ ErrorReply(r) \/ GoodReply(r) \/ InvalidReply(r)
    \/ Write(r) \/ WriteFails(r) \/ WriteTimesOut(r)

DaemonStep ==
    \/ Accept \/ ReadBlock \/ ReadTooMuch \/ ReadTimesOut \/ ReadEof
    \/ RejectRequest \/ TooLate \/ ReadStore \/ SendResponse \/ SendFails

StrangerStep(c) ==
    (\E size \in Sizes : StrangerConnects(c, size)) \/ StrangerSends(c) \/ StrangerCloses(c)

Next ==
    \/ \E r \in Requesters, j \in Jobs : Start(r, j)
    \/ \E r \in Requesters : RequesterStep(r) \/ Interrupted(r)
    \/ \E c \in Strangers : StrangerStep(c)
    \/ DaemonStep \/ ReadFails \/ Serve \/ DaemonInterrupted \/ AcceptFails
    \/ \E c \in Connections : CorruptReply(c) \/ Misdeliver(c)
    \/ OwnerWrites \/ Tick \/ TimeOfDay

Spec == Init /\ [][Next]_vars

(* Time passes, and a process that runs goes on: every call it makes        *)
(* returns or times out.  Neither side may count on the other.              *)
FairDaemon == Spec /\ WF_vars(Tick) /\ WF_vars(DaemonStep)

FairRequesters == Spec /\ WF_vars(Tick) /\ \A r \in Requesters : WF_vars(RequesterStep(r))
---------------------------------------------------------------------------
(* Properties *)

TypeOK ==
    /\ reqPc \in [Requesters -> {"idle", "choosing", "connecting", "sending", "reading",
                                 "importing", "done"}]
    /\ job \in [Requesters -> Jobs \cup {Nothing}]
    /\ todo \in [Requesters -> SUBSET Agents]
    /\ trying \in [Requesters -> Agents]
    /\ spare \in [Requesters -> Nat]
    /\ payload \in [Requesters -> Documents \cup {Nothing}]
    /\ forced \in [Requesters -> BOOLEAN]
    /\ result \in [Attempts -> {"none", "asked", "imported", "refused", "failed"}]
    /\ exit \in [Requesters -> {"none", "success", "failure", "interrupted"}]
    /\ store \in [Requesters -> [Agents -> Documents]]
    /\ conn \in [Connections -> {"none", "queued", "open", "closed", "reset"}]
    /\ left \in [Connections -> Nat] /\ flight \in [Connections -> Nat]
    /\ eof \in [Connections -> BOOLEAN]
    /\ resp \in [Connections -> Messages \cup {Nothing, Garbage}]
    /\ pc \in {"off", "accepting", "reading", "deciding", "answering", "stopped"}
    /\ queue \in Seq(Connections)
    /\ serving \in Connections \cup {Nothing}
    /\ budget \in Nat /\ total \in Nat /\ held \in Nat /\ runs \in Nat /\ now \in Nat
    /\ heard \in Messages \cup {Nothing, Garbage}
    /\ answer \in Contents \cup Failures \cup {Nothing}
    /\ ended \in {"none", "interrupt", "error"}
    /\ server \in [Agents -> Contents]
    /\ seen \in [Attempts -> SUBSET (Contents \cup Failures)]

(* README.md:109: "A failed authentication or malformed payload leaves the  *)
(* destination store unchanged": an attempt that was reported as failed, for *)
(* whatever reason, has changed nothing, a Keychain's item excepted.         *)
FailedLeavesStore == \A n \in Attempts :
    result[n] # "imported" =>
        store[n[1]][n[2]] = InitialStore[n[2]] \/ (KeychainService /\ n[2] = "claude")

(* No import leaves a store its agent cannot start from. *)
StoresStayUsable == \A n \in Attempts :
    Usable(n[2], InitialStore[n[2]]) => Usable(n[2], store[n[1]][n[2]])

(* `all' attempts both agents even if the first fails, and the exit status  *)
(* says whether all that was asked for has been imported.                   *)
ExitTellsAll == \A r \in Requesters :
    /\ exit[r] \in {"success", "failure"} =>
          \A a \in job[r].agents : result[<<r, a>>] \in {"imported", "refused", "failed"}
    /\ exit[r] = "success" <=>
          exit[r] # "interrupted" /\ reqPc[r] = "done"
          /\ \A a \in job[r].agents : result[<<r, a>>] = "imported"

(* Without --force no import writes a Codex token that has expired by then. *)
NeverImportsExpired ==
    [][\A r \in Requesters :
          store'[r]["codex"] # store[r]["codex"] /\ ~job[r].force =>
              Unexpired(store'[r]["codex"], now)]_vars

(* A client gets EXCHANGE_TIMEOUT in all, however it spreads its bytes: past *)
(* the deadline the daemon neither reads from it, nor reads its own store    *)
(* for it, nor answers it in full.                                           *)
NoLateWork ==
    [][(\/ total' > total
        \/ seen' # seen
        \/ (pc = "answering" /\ pc' = "accepting" /\ resp'[serving] \in Messages))
       => held < ExchangeTimeout]_vars

(* The daemon holds at most one connection, the one it serves, and leaves  *)
(* none open behind; whoever is in its queue is there once.                *)
OneAtATime ==
    /\ \A c \in Connections :
          /\ conn[c] = "open" <=> c = serving
          /\ conn[c] = "queued" <=> \E i \in 1 .. Len(queue) : queue[i] = c
    /\ \A i, j \in 1 .. Len(queue) : queue[i] = queue[j] => i = j

(* What is done before a queued connection is accepted, in the daemon's    *)
(* own steps: what is left of the service under way, and a whole service   *)
(* for each connection in front.                                           *)
ServiceLeft ==
    CASE pc = "reading"   -> 3 + (RequestLimit - total)
      [] pc = "deciding"  -> 2
      [] pc = "answering" -> 1
      [] OTHER -> 0

Position(c) == CHOOSE i \in 1 .. Len(queue) : queue[i] = c

Wait(c) == Position(c) * (RequestLimit + 4) + ServiceLeft

(* Nobody overtakes: while a client waits, whatever the others send, however *)
(* slowly, and whoever else connects, its wait never grows, and every step   *)
(* of the daemon shortens it.                                                *)
ServedInTurn ==
    [][\A c \in Connections :
          conn[c] = "queued" /\ conn'[c] = "queued" =>
              /\ Wait(c)' \in 0 .. Wait(c)
              /\ DaemonStep => Wait(c)' \in 0 .. Wait(c) - 1]_vars

(* What a requester has left to do, in its own steps. *)
RequesterLeft(r) ==
    5 * Cardinality(todo[r]) +
        CASE reqPc[r] = "connecting" -> 5
          [] reqPc[r] = "sending"    -> 4
          [] reqPc[r] = "reading"    -> 3
          [] reqPc[r] = "importing"  -> 2
          [] reqPc[r] = "choosing"   -> 1
          [] reqPc[r] \in {"idle", "done"} -> 0

(* A requester attempts each agent once: whatever the daemon does or does   *)
(* not answer, nothing takes it back, and every step of its own brings it   *)
(* nearer to its end.                                                       *)
NoStepBack ==
    [][\A r \in Requesters : reqPc[r] # "idle" =>
          /\ RequesterLeft(r)' \in 0 .. RequesterLeft(r)
          /\ RequesterStep(r) => RequesterLeft(r)' \in 0 .. RequesterLeft(r) - 1]_vars

(* Whoever connects is served in the end, or cut off with the daemon: no     *)
(* client, silent or slow, keeps the others waiting for ever.                *)
QueuedIsServed == \A c \in Connections : conn[c] = "queued" ~> conn[c] # "queued"

(* A requester comes to an end, whatever the daemon does.                    *)
RequestsEnd == \A r \in Requesters : reqPc[r] = "choosing" ~> reqPc[r] = "done"

(* README.md:95: "It keeps serving until Ctrl-C, including after failed      *)
(* requests or unavailable credentials".                                     *)
KeepsServing == pc = "stopped" => ended = "interrupt"

Promise == INSTANCE RequestPromise WITH told <- result

(* Every request is one atomic read of the serving machine, and its import   *)
(* happens by that read or not at all (RequestPromise).                      *)
KeepsPromise == Promise!Spec
---------------------------------------------------------------------------
(* What makes these invariant. *)

(* A message is about a request that was made, and a response, wherever it  *)
(* is delivered, carries what was read for the request it names.            *)
Faithful(m) ==
    m \in Messages =>
        /\ m.agent = m.nonce[2] /\ result[m.nonce] # "none"
        /\ m.type = "credential-response" => m.content \in seen[m.nonce]

RepliesInv == \A c \in Connections : Faithful(resp[c])

Known(c) == c \in Attempts => result[c] # "none"

DaemonInv ==
    /\ Faithful(heard)
    /\ \A i \in 1..Len(queue) : Known(queue[i])
    /\ pc \in {"reading", "deciding", "answering"} =>
          /\ serving \in Connections /\ Known(serving)
          /\ budget > 0 => held + budget = ExchangeTimeout
    /\ pc = "answering" => IsRequest(heard) /\ answer \in seen[heard.nonce]

Attempting(r) == reqPc[r] \in {"connecting", "sending", "reading", "importing"}

Told(n) == result[n] \in {"imported", "refused", "failed"}

(* What has been asked for is still to do, under way, or told. *)
Progress(r) ==
    /\ reqPc[r] = "idle" => \A a \in Agents : result[<<r, a>>] = "none"
    /\ reqPc[r] # "idle" => job[r] \in Jobs
    /\ reqPc[r] = "choosing" => todo[r] # {}
    /\ reqPc[r] = "choosing" \/ Attempting(r) =>
          /\ todo[r] \subseteq job[r].agents
          /\ \A a \in todo[r] : result[<<r, a>>] = "none"
          /\ \A a \in job[r].agents \ todo[r] : (Attempting(r) /\ a = trying[r]) \/ Told(<<r, a>>)
    /\ Attempting(r) => trying[r] \in job[r].agents \ todo[r] /\ result[Current(r)] = "asked"

Exits(r) ==
    /\ exit[r] = "none" <=> reqPc[r] # "done"
    /\ exit[r] \in {"success", "failure"} => \A a \in job[r].agents : Told(<<r, a>>)
    /\ exit[r] = "success" <=>
          exit[r] # "interrupted" /\ reqPc[r] = "done"
          /\ \A a \in job[r].agents : result[<<r, a>>] = "imported"

Imports(r) ==
    reqPc[r] = "importing" =>
        /\ payload[r] \in seen[Current(r)] \ Failures
        /\ Usable(trying[r], payload[r]) /\ forced[r] = ForceWrite(r)

RequestersInv == \A r \in Requesters : Progress(r) /\ Exits(r) /\ Imports(r)

(* What the queue and the connections rest on: no attempt has a connection  *)
(* before it asks for one.                                                  *)
QueueInv ==
    /\ OneAtATime
    /\ serving # Nothing <=> pc \in {"reading", "deciding", "answering"}
    /\ ~Up => queue = <<>>
    /\ \A n \in Attempts : result[n] = "none" => conn[n] = "none"
    /\ \A r \in Requesters : reqPc[r] = "connecting" => conn[Current(r)] = "none"
    /\ total <= RequestLimit
    /\ serving = Nothing => total = 0

IInv == TypeOK /\ RequestersInv /\ RepliesInv /\ DaemonInv
===========================================================================
