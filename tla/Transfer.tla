----------------------------- MODULE Transfer -----------------------------
(***************************************************************************)
(* One-shot transfer: `--send' to `--receive' (cli.py).                    *)
(*                                                                         *)
(* A receiver binds a port, accepts ONE connection, reads it to its end,   *)
(* verifies, decrypts, unwraps and validates what it read, writes the      *)
(* store the label names, acknowledges on the same connection and exits;   *)
(* it may be started again.  Senders run beside it: each connects, writes  *)
(* its frame block by block, half-closes and reads the acknowledgement.    *)
(* A sender is named by the salt it draws.  Nothing stops whoever recorded *)
(* a frame from sending it again: Replayers are connections that may do    *)
(* so, instead of a sender's.                                              *)
(*                                                                         *)
(* The kernels' part, seen from the code's system calls: a backlog of      *)
(* connections not accepted yet, a window of blocks in flight per          *)
(* connection, FIN and RST.                                                *)
(***************************************************************************)
EXTENDS Wire, FiniteSets

CONSTANTS
    Nothing,       \* no job, no acknowledgement, no frame, no peer, no options
    Jobs,          \* what a sender may be asked to send, and how
    Configs,       \* the options a receiver may be started with
    InitialStore,  \* the document each agent has before any transfer
    Backlog,       \* connections the kernel completes ahead of accept()
    Window,        \* blocks in flight on one connection
    MaxPayload,    \* blocks a receiver reads before it gives up
    Faults,        \* the network faults of this instance
    Hung,          \* the senders that may stop for ever
    Replayers,     \* connections that whoever has recorded a frame may take
    MaxRuns,       \* bound: how often the receiver is started
    MaxNow         \* bound: how far the clock runs

JobSet == [plain : Plaintexts, pw : Passphrases, size : Nat \ {0}, transport : {"native", "nc"}]

ConfigSet == [pin : Agents \cup {"any"}, force : BOOLEAN, verbose : BOOLEAN, pw : Passphrases]

ASSUME TransferAssumption ==
    /\ Nothing \notin Salts \cup Jobs \cup Acks \cup Frames
    /\ Jobs \subseteq JobSet
    /\ Configs \subseteq ConfigSet
    /\ InitialStore \in [Agents -> Documents]
    /\ Backlog \in Nat /\ Window \in Nat \ {0} /\ MaxPayload \in Nat
    /\ Faults \subseteq {"corrupt", "garble", "stale"}
    /\ Hung \subseteq Salts /\ Replayers \subseteq Hung
    /\ MaxRuns \in Nat /\ MaxNow \in Nat

VARIABLES
    \* the senders
    sendPc,    \* where each one is
    job,       \* what it sends
    origin,    \* whose frame it sends: its own, or a recorded one
    left,      \* blocks it has not handed to its kernel yet
    outcome,   \* what it has reported
    \* the connections
    link,      \* each connection, as the receiving host leaves it
    flight,    \* blocks sent and not yet read
    eof,       \* TRUE once the sender has half-closed or closed
    hurt,      \* what the network did to the frame
    reply,     \* the acknowledgement on its way back
    \* the receiver
    recvPc, cfg, peer, total, heard, exitCode,
    runs,      \* how often it has been started
    store,     \* the document in each agent's store
    imports,   \* history: every write, with what it was made for
    now

senderVars == <<sendPc, job, origin, left, outcome>>
linkVars == <<link, flight, eof, hurt, reply>>
recvVars == <<recvPc, cfg, peer, total, heard, exitCode, runs>>
storeVars == <<store, imports>>
vars == <<senderVars, linkVars, recvVars, storeVars, now>>

Listening == recvPc \notin {"off", "exited"}

Queued == {s \in Salts : link[s] = "queued"}

Init ==
    /\ sendPc = [s \in Salts |-> "idle"]
    /\ job = [s \in Salts |-> Nothing]
    /\ origin = [s \in Salts |-> s]
    /\ left = [s \in Salts |-> 0]
    /\ outcome = [s \in Salts |-> "none"]
    /\ link = [s \in Salts |-> "none"]
    /\ flight = [s \in Salts |-> 0]
    /\ eof = [s \in Salts |-> FALSE]
    /\ hurt = [s \in Salts |-> "none"]
    /\ reply = [s \in Salts |-> Nothing]
    /\ recvPc = "off" /\ cfg = Nothing /\ peer = Nothing /\ total = 0
    /\ heard = Nothing /\ exitCode = "none" /\ runs = 0
    /\ store = InitialStore /\ imports = {} /\ now = 0
---------------------------------------------------------------------------
(* The sender: _do_send, _send_frame_native, _send_frame_nc. *)

SendStart(s, j) ==
    /\ sendPc[s] = "idle"
    /\ sendPc' = [sendPc EXCEPT ![s] = "connecting"]
    /\ job' = [job EXCEPT ![s] = j]
    /\ left' = [left EXCEPT ![s] = j.size]
    /\ UNCHANGED <<origin, outcome, linkVars, recvVars, storeVars, now>>

Connect(s) ==
    /\ sendPc[s] = "connecting"
    /\ Listening /\ Cardinality(Queued) < Backlog
    /\ sendPc' = [sendPc EXCEPT ![s] = "sending"]
    /\ link' = [link EXCEPT ![s] = "queued"]
    /\ UNCHANGED <<job, origin, left, outcome, flight, eof, hurt, reply, recvVars, storeVars, now>>

(* sendall; the bytes sent to a receiver that has closed go nowhere. *)
SendBlock(s) ==
    /\ sendPc[s] = "sending" /\ left[s] > 0
    /\ left' = [left EXCEPT ![s] = @ - 1]
    /\ \/ /\ link[s] \in {"queued", "open"} /\ flight[s] < Window
          /\ flight' = [flight EXCEPT ![s] = @ + 1]
       \/ link[s] = "closed" /\ UNCHANGED flight
    /\ UNCHANGED <<sendPc, job, origin, outcome, link, eof, hurt, reply, recvVars, storeVars, now>>

(* shutdown(SHUT_WR), or nc at the end of its input. *)
Shutdown(s) ==
    /\ sendPc[s] = "sending" /\ left[s] = 0 /\ link[s] # "reset"
    /\ sendPc' = [sendPc EXCEPT ![s] = "waiting"]
    /\ eof' = [eof EXCEPT ![s] = TRUE]
    /\ UNCHANGED <<job, origin, left, outcome, link, flight, hurt, reply, recvVars, storeVars, now>>

(* The command ends with outcome o; its socket closes, and the blocks in   *)
(* flight still arrive.                                                    *)
SenderExits(s, o) ==
    /\ sendPc' = [sendPc EXCEPT ![s] = "done"]
    /\ outcome' = [outcome EXCEPT ![s] = o]
    /\ eof' = [eof EXCEPT ![s] = TRUE]
    /\ UNCHANGED <<job, origin, left, link, flight, hurt, reply, recvVars, storeVars, now>>

(* Connection refused, or any call before the wait for the acknowledgement *)
(* timing out or failing: "could not send".                                *)
SendFails(s) ==
    /\ \/ sendPc[s] = "connecting"
       \/ sendPc[s] = "sending" /\ (left[s] > 0 \/ link[s] = "reset")
    /\ SenderExits(s, "unsent")

SenderKey(s) == MacKeyForFrame(Encrypt(job[s].plain, job[s].pw, s), job[s].pw)

(* _report_send_ack *)
ReportSendAck(s, ack) ==
    IF ack # Nothing /\ AckVerifies(ack, SenderKey(s)) THEN ack.status ELSE "unknown"

(* recv(65535) returns what has arrived of the acknowledgement, which may  *)
(* be a part of it; nc hands over all of it once the receiver has closed.  *)
ReceiveAck(s) ==
    /\ sendPc[s] = "waiting" /\ reply[s] # Nothing
    /\ \/ link[s] \in {"open", "closed"} /\ job[s].transport = "native"
          /\ \E ack \in {reply[s], Garbled(reply[s])} : SenderExits(s, ReportSendAck(s, ack))
       \/ link[s] = "closed" /\ job[s].transport = "nc"
          /\ SenderExits(s, ReportSendAck(s, reply[s]))

(* The connection ends without an acknowledgement. *)
LoseAck(s) ==
    /\ sendPc[s] = "waiting"
    /\ \/ link[s] = "closed" /\ reply[s] = Nothing /\ SenderExits(s, ReportSendAck(s, Nothing))
       \/ link[s] = "reset" /\ SenderExits(s, "unsent")

(* Mutant: the native socket waits for its acknowledgement without a timeout. *)
AckTimeoutForNcOnly(s) ==
    /\ sendPc[s] = "waiting" /\ job[s].transport = "nc"
    /\ SenderExits(s, "unsent")

(* Mutant: a sender whose acknowledgement is late sends again. *)
AckTimeoutTriesAgain(s) ==
    /\ sendPc[s] = "waiting" /\ link[s] \in {"closed", "reset"}
    /\ sendPc' = [sendPc EXCEPT ![s] = "connecting"]
    /\ left' = [left EXCEPT ![s] = job[s].size]
    /\ link' = [link EXCEPT ![s] = "none"] /\ eof' = [eof EXCEPT ![s] = FALSE]
    /\ UNCHANGED <<job, origin, outcome, flight, hurt, reply, recvVars, storeVars, now>>

(* The wait times out: an empty acknowledgement for the native socket; nc  *)
(* may say so (exit status 0), or be killed by the timeout around it.      *)
AckTimeout(s) ==
    /\ sendPc[s] = "waiting"
    /\ \/ SenderExits(s, ReportSendAck(s, Nothing))
       \/ job[s].transport = "nc" /\ SenderExits(s, "unsent")

(* Ctrl-C or a kill: the kernel closes the connection in good order. *)
SenderInterrupted(s) ==
    /\ sendPc[s] \in {"connecting", "sending", "waiting"}
    /\ SenderExits(s, "interrupted")
---------------------------------------------------------------------------
(* The network. *)

(* A frame altered on its way: in its ciphertext or tag, in its salt, or   *)
(* so that it no longer reads as a frame.                                  *)
Corrupt(s) ==
    /\ "corrupt" \in Faults /\ hurt[s] = "none" /\ flight[s] > 0
    /\ \E h \in {"body", "salt", "shape"} : hurt' = [hurt EXCEPT ![s] = h]
    /\ UNCHANGED <<senderVars, link, flight, eof, reply, recvVars, storeVars, now>>

(* A frame whose bytes have all been sent, recorded, and sent again on a   *)
(* connection of its own: it carries no nonce of the receiver's, and no    *)
(* receiver remembers the frames before it.                                *)
Replay(r, t) ==
    /\ r \in Replayers /\ sendPc[r] = "idle"
    /\ origin[t] = t /\ sendPc[t] \notin {"idle", "connecting"} /\ left[t] = 0
    /\ sendPc' = [sendPc EXCEPT ![r] = "connecting"]
    /\ job' = [job EXCEPT ![r] = job[t]]
    /\ origin' = [origin EXCEPT ![r] = t]
    /\ left' = [left EXCEPT ![r] = job[t].size]
    /\ UNCHANGED <<outcome, linkVars, recvVars, storeVars, now>>

(* An acknowledgement altered on its way. *)
GarbleReply(s) ==
    /\ "garble" \in Faults /\ reply[s] # Nothing
    /\ reply' = [reply EXCEPT ![s] = Garbled(@)]
    /\ UNCHANGED <<senderVars, link, flight, eof, hurt, recvVars, storeVars, now>>

(* The acknowledgement of another transfer in the place of one's own. *)
StaleReply(s, t) ==
    /\ "stale" \in Faults /\ link[s] # "none" /\ reply[t] # Nothing
    /\ reply' = [reply EXCEPT ![s] = reply[t]]
    /\ UNCHANGED <<senderVars, link, flight, eof, hurt, recvVars, storeVars, now>>

Tick ==
    /\ now < MaxNow
    /\ now' = now + 1
    /\ UNCHANGED <<senderVars, linkVars, recvVars, storeVars>>
---------------------------------------------------------------------------
(* The receiver: _do_receive. *)

Launch(c) ==
    /\ recvPc \in {"off", "exited"} /\ runs < MaxRuns
    /\ recvPc' = "listening" /\ cfg' = c /\ runs' = runs + 1
    /\ peer' = Nothing /\ total' = 0 /\ heard' = Nothing /\ exitCode' = "none"
    /\ UNCHANGED <<senderVars, linkVars, storeVars, now>>

(* conn.close() and srv.close(): a connection with unread data is reset,   *)
(* and so is one that was never accepted.                                  *)
Closed(s) ==
    IF link[s] = "queued" \/ (link[s] = "open" /\ flight[s] > 0) THEN "reset"
    ELSE IF link[s] = "open" THEN "closed" ELSE link[s]

ReceiverExits(code) ==
    /\ recvPc' = "exited" /\ exitCode' = code
    /\ link' = [s \in Salts |-> Closed(s)]
    /\ UNCHANGED <<senderVars, flight, eof, hurt, cfg, peer, total, heard, runs, now>>

(* The same, leaving the store and the replies as they are. *)
GivesUpWith(code) == ReceiverExits(code) /\ UNCHANGED <<reply, storeVars>>

GivesUp == GivesUpWith("failure")

(* _send_ack, then exit; the acknowledgement of a sender that has gone     *)
(* reaches no one.                                                         *)
AcksAndExits(status, code) ==
    /\ ReceiverExits(code)
    /\ reply' = [reply EXCEPT ![peer] = Ack(MacKeyForFrame(heard, cfg.pw), status)]
    /\ UNCHANGED storeVars

Accept(s) ==
    /\ recvPc = "listening" /\ link[s] = "queued"
    /\ recvPc' = "reading" /\ peer' = s
    /\ link' = [link EXCEPT ![s] = "open"]
    /\ UNCHANGED <<senderVars, flight, eof, hurt, reply, cfg, total, heard, exitCode, runs,
                   storeVars, now>>

WithinLimit(n) == n <= MaxPayload

RecvBlock ==
    /\ recvPc = "reading" /\ flight[peer] > 0 /\ WithinLimit(total + 1)
    /\ flight' = [flight EXCEPT ![peer] = @ - 1]
    /\ total' = total + 1
    /\ UNCHANGED <<senderVars, link, eof, hurt, reply, recvPc, cfg, peer, heard, exitCode, runs,
                   storeVars, now>>

(* total > MAX_PAYLOAD *)
RecvTooMuch ==
    /\ recvPc = "reading" /\ flight[peer] > 0 /\ ~WithinLimit(total + 1)
    /\ GivesUp

(* Mutant: an idle timeout is answered by another recv. *)
RecvIdleTriesAgain ==
    /\ recvPc = "reading" /\ flight[peer] = 0 /\ ~eof[peer]
    /\ UNCHANGED vars

(* Mutant: after an idle timeout the next connection is accepted. *)
RecvIdleAcceptsAnother ==
    /\ recvPc = "reading" /\ flight[peer] = 0 /\ ~eof[peer]
    /\ recvPc' = "listening" /\ total' = 0
    /\ link' = [link EXCEPT ![peer] = "closed"]
    /\ UNCHANGED <<senderVars, flight, eof, hurt, reply, cfg, peer, heard, exitCode, runs, storeVars, now>>

(* RECV_TIMEOUT seconds without a byte *)
RecvIdle ==
    /\ recvPc = "reading" /\ flight[peer] = 0 /\ ~eof[peer]
    /\ GivesUp

Transmitted(s) ==
    LET sent == Encrypt(job[s].plain, job[s].pw, origin[s])
    IN  CASE hurt[s] = "none"  -> sent
          [] hurt[s] = "body"  -> [sent EXCEPT !.body = "altered"]
          [] hurt[s] = "salt"  -> [sent EXCEPT !.body = "altered", !.salt = Scrambled]
          [] hurt[s] = "shape" -> [sent EXCEPT !.body = "malformed"]

(* A connection that ends before the last block leaves a stump; only when  *)
(* all it withheld is the last newline does the frame still read as whole. *)
Delivered(s) ==
    LET stump == [Transmitted(s) EXCEPT !.body = "malformed"]
    IN  (IF left[s] <= 1 THEN {Transmitted(s)} ELSE {}) \cup (IF left[s] > 0 THEN {stump} ELSE {})

RecvEof ==
    /\ recvPc = "reading" /\ flight[peer] = 0 /\ eof[peer] /\ total > 0
    /\ recvPc' = "deciding"
    /\ heard' \in Delivered(peer)
    /\ UNCHANGED <<senderVars, linkVars, cfg, peer, total, exitCode, runs, storeVars, now>>

RecvEmpty ==
    /\ recvPc = "reading" /\ flight[peer] = 0 /\ eof[peer] /\ total = 0
    /\ GivesUp

(* An OSError from bind, accept or recv. *)
RecvFails ==
    /\ recvPc \in {"listening", "reading"}
    /\ GivesUp

(* Ctrl-C or a kill, at any point. *)
ReceiverInterrupted ==
    /\ Listening
    /\ GivesUpWith("interrupted")
---------------------------------------------------------------------------
(* The receiver: _process_received_frame. *)

PinAllows(label) == cfg.pin \in {"any", label}

(* The checks in the code's order: decrypt and unwrap, the pin, parse_blob, *)
(* validate_blob.  Each is reached when those before it passed.             *)
Opens(frame) == Decrypts(frame, cfg.pw) /\ Unwraps(frame.plain)

Pinned(frame) == Opens(frame) /\ PinAllows(frame.plain.label)

(* Mutant: a payload that parses is written, whatever its shape. *)
ValidOnceParsed(frame) ==
    Pinned(frame) /\ Parses(frame.plain.label, frame.plain.doc)

Valid(frame) ==
    /\ Pinned(frame)
    /\ Parses(frame.plain.label, frame.plain.doc)
    /\ ValidateBlob(frame.plain.label, frame.plain.doc, cfg.force, now)

(* parse_blob raises something that is no ValueError, and no one catches it. *)
Overwhelms(frame) ==
    /\ Pinned(frame)
    /\ ~Parses(frame.plain.label, frame.plain.doc)
    /\ ~RaisesValueError(frame.plain.label, frame.plain.doc)

(* The status acknowledged for a frame that is not Valid. *)
Refusal(frame) ==
    IF Opens(frame) /\ ~PinAllows(frame.plain.label) THEN "agent-mismatch" ELSE "rejected"

(* Mutant: the exit status of a refusal is lost. *)
RefuseWithSuccess ==
    /\ recvPc = "deciding" /\ WellFormed(heard)
    /\ ~Valid(heard) /\ ~Overwhelms(heard)
    /\ AcksAndExits(Refusal(heard), "success")

Refuse ==
    /\ recvPc = "deciding" /\ WellFormed(heard)
    /\ ~Valid(heard) /\ ~Overwhelms(heard)
    /\ AcksAndExits(Refusal(heard), "failure")

(* No key to acknowledge with, or no one left to acknowledge. *)
RefuseSilently ==
    /\ recvPc = "deciding" /\ (~WellFormed(heard) \/ Overwhelms(heard))
    /\ GivesUp

(* Mutant: "ok" is acknowledged as soon as the payload is known to be good. *)
ValidateAndAck ==
    /\ recvPc = "deciding" /\ Valid(heard)
    /\ recvPc' = "writing"
    /\ reply' = [reply EXCEPT ![peer] = Ack(MacKeyForFrame(heard, cfg.pw), "ok")]
    /\ UNCHANGED <<senderVars, link, flight, eof, hurt, cfg, peer, total, heard, exitCode, runs,
                   storeVars, now>>

Validate ==
    /\ recvPc = "deciding" /\ Valid(heard)
    /\ recvPc' = "writing"
    /\ UNCHANGED <<senderVars, linkVars, cfg, peer, total, heard, exitCode, runs, storeVars, now>>

(* creds.write(payload): the store of the label's agent, and its history. *)
WriteStore ==
    LET agent == Unwrap(heard.plain).agent
        payload == Unwrap(heard.plain).payload
    IN  /\ WriteAccepts(agent, payload, cfg.force, now)
        /\ store' = [store EXCEPT ![agent] = Stored(agent, payload)]
        /\ imports' = imports \cup {[from |-> origin[peer], via |-> peer, agent |-> agent,
                                      doc |-> payload, opts |-> cfg, run |-> runs]}

Write ==
    /\ recvPc = "writing"
    /\ WriteStore
    /\ recvPc' = "written"
    /\ UNCHANGED <<senderVars, linkVars, cfg, peer, total, heard, exitCode, runs, now>>

(* write raises: the backend's own validation, run again and a little      *)
(* later, an OSError on the way, or no Keychain item to update.            *)
WriteFails ==
    /\ recvPc = "writing"
    /\ GivesUp

(* Mutant: a write that timed out is acknowledged as a refusal. *)
WriteTimesOutAsRefusal ==
    /\ recvPc = "writing"
    /\ KeychainService /\ Unwrap(heard.plain).agent = "claude"
    /\ WriteStore
    /\ ReceiverExits("failure")
    /\ reply' = [reply EXCEPT ![peer] = Ack(MacKeyForFrame(heard, cfg.pw), "rejected")]

(* `security' is killed by its timeout after it has changed the Keychain;  *)
(* nothing catches subprocess.TimeoutExpired.                              *)
WriteTimesOut ==
    /\ recvPc = "writing"
    /\ KeychainService /\ Unwrap(heard.plain).agent = "claude"
    /\ WriteStore
    /\ ReceiverExits("failure")
    /\ UNCHANGED reply

(* With --verbose the tokens are shown before the acknowledgement is sent. *)
CanReport == cfg.verbose => Presentable(Unwrap(heard.plain).agent, Unwrap(heard.plain).payload)

Report ==
    /\ recvPc = "written" /\ CanReport
    /\ AcksAndExits("ok", "success")

ReportRaises ==
    /\ recvPc = "written" /\ ~CanReport
    /\ GivesUp
---------------------------------------------------------------------------
SenderStep(s) ==
    \/ SendBlock(s) \/ Shutdown(s) \/ SendFails(s)
    \/ ReceiveAck(s) \/ LoseAck(s) \/ AckTimeout(s)

ReceiverStep ==
    \/ RecvBlock \/ RecvTooMuch \/ RecvIdle \/ RecvEof \/ RecvEmpty
    \/ Refuse \/ RefuseSilently \/ Validate
    \/ Write \/ WriteFails \/ WriteTimesOut
    \/ Report \/ ReportRaises

NetworkStep ==
    \/ \E s \in Salts : Corrupt(s) \/ GarbleReply(s)
    \/ \E s, t \in Salts : StaleReply(s, t)

Next ==
    \/ \E s \in Salts, j \in Jobs : SendStart(s, j)
    \/ \E r \in Replayers, t \in Salts : Replay(r, t)
    \/ \E s \in Salts : Connect(s) \/ SenderStep(s) \/ SenderInterrupted(s)
    \/ \E c \in Configs : Launch(c)
    \/ \E s \in Salts : Accept(s)
    \/ ReceiverStep \/ RecvFails \/ ReceiverInterrupted
    \/ NetworkStep \/ Tick

Spec == Init /\ [][Next]_vars

(* Every system call of a command that runs returns or times out:          *)
(* create_connection, sendall and the wait for the acknowledgement have    *)
(* SEND_TIMEOUT, recv has RECV_TIMEOUT.  Only accept() has no timeout, and *)
(* nothing obliges anyone to start a command.  A sender in Hung may be     *)
(* suspended for ever, its connection left as it is; nothing obliges a     *)
(* replayer to anything.                                                   *)
Fairness ==
    /\ WF_vars(ReceiverStep)
    /\ \A s \in Salts \ Hung : WF_vars(SenderStep(s))

FairSpec == Spec /\ Fairness
---------------------------------------------------------------------------
(* Properties *)

ImportSet ==
    [from : Salts, via : Salts, agent : Agents, doc : Documents, opts : Configs, run : Nat]

TypeOK ==
    /\ sendPc \in [Salts -> {"idle", "connecting", "sending", "waiting", "done"}]
    /\ job \in [Salts -> Jobs \cup {Nothing}]
    /\ origin \in [Salts -> Salts]
    /\ left \in [Salts -> Nat]
    /\ outcome \in [Salts -> {"none", "unsent", "unknown", "interrupted"} \cup Statuses]
    /\ link \in [Salts -> {"none", "queued", "open", "closed", "reset"}]
    /\ flight \in [Salts -> Nat]
    /\ eof \in [Salts -> BOOLEAN]
    /\ hurt \in [Salts -> {"none", "body", "salt", "shape"}]
    /\ reply \in [Salts -> Acks \cup {Nothing}]
    /\ recvPc \in {"off", "listening", "reading", "deciding", "writing", "written", "exited"}
    /\ cfg \in Configs \cup {Nothing}
    /\ peer \in Salts \cup {Nothing}
    /\ total \in Nat
    /\ heard \in Frames \cup {Nothing}
    /\ exitCode \in {"none", "success", "failure", "interrupted"}
    /\ runs \in Nat
    /\ store \in [Agents -> Documents]
    /\ imports \subseteq ImportSet
    /\ now \in Nat

(* `--send' exits 0 only when its credentials, under its own label, have   *)
(* been written to the receiver's store, whatever the network did and      *)
(* whoever else was sending (_report_send_ack: "the tool told me it        *)
(* landed" is never decided by anyone but the receiver).                   *)
Landed(s) == \E i \in imports :
    i.from = s /\ i.agent = job[s].plain.label /\ i.doc = job[s].plain.doc

SentMeansStored == \A s \in Salts : outcome[s] = "ok" => Landed(s)

(* Somebody has sent the frame of s a second time. *)
Resent(s) == \E r \in Salts \ {s} : origin[r] = s

(* A sender told "rejected" or "agent-mismatch" has left no trace in any   *)
(* store, then or later ("neither store is touched"), unless its frame was *)
(* recorded and sent again: that one may land after the refusal.           *)
RefusedMeansNotStored == \A s \in Salts :
    outcome[s] \in {"rejected", "agent-mismatch"} => Resent(s) \/ \A i \in imports : i.from # s

(* What was written is what one sender sealed, even when another sent it   *)
(* again: undamaged, under the receiver's passphrase, labelled for the     *)
(* store it went to, and allowed by the receiver's pin.                    *)
ImportsAreFaithful == \A i \in imports :
    /\ job[i.from] # Nothing
    /\ i.agent = job[i.from].plain.label /\ i.doc = job[i.from].plain.doc
    /\ i.opts.pw = job[i.from].pw
    /\ i.opts.pin \in {"any", i.agent}

(* No transfer turns a store its agent can start from into one it cannot:  *)
(* another agent's document, or one that is no document, never gets in.    *)
StoreStaysUsable == \A a \in Agents : Usable(a, InitialStore[a]) => Usable(a, store[a])

(* `--receive' exits 0 only after this very run wrote the store. *)
SuccessMeansWritten == exitCode = "success" => \E i \in imports : i.run = runs

(* cli.py:439: "the receiver's own exit code and stderr are authoritative   *)
(* for what happened to the store": a run that was not interrupted and      *)
(* exits 1 has written nothing.                                             *)
ExitCodeAuthoritative == exitCode = "failure" => \A i \in imports : i.run # runs

(* Without --force no Codex token is written that has expired by the time  *)
(* of the write, however long the receiver took since it validated it.     *)
NeverWritesExpired ==
    [][\A i \in imports' \ imports :
          i.agent = "codex" /\ ~i.opts.force => Unexpired(i.doc, now)]_vars

(* One run of `--receive' imports one frame at most, and one connection is *)
(* imported from once at most, whoever is started again; so a frame is     *)
(* imported twice only when somebody has sent it again, which nothing in   *)
(* the protocol prevents.                                                  *)
OneShot == \A i, j \in imports :
    /\ i.run = j.run \/ i.via = j.via => i = j
    /\ i.from = j.from => i = j \/ Resent(i.from)

(* What each side has left to do, counted in its own steps. *)
ReceiverLeft ==
    CASE recvPc = "listening" -> 5 + MaxPayload
      [] recvPc = "reading"  -> 4 + (MaxPayload - total)
      [] recvPc = "deciding" -> 3
      [] recvPc = "writing"  -> 2
      [] recvPc = "written"  -> 1
      [] OTHER -> 0

SenderLeft(s) ==
    CASE sendPc[s] = "connecting" -> left[s] + 3
      [] sendPc[s] = "sending"    -> left[s] + 2
      [] sendPc[s] = "waiting"    -> 1
      [] OTHER -> 0

(* Whatever the other side, the network and time do, a receiver and a      *)
(* sender that have started are never thrown back, and every step of their *)
(* own brings them nearer to their end: a receiver takes no more than      *)
(* MAX_PAYLOAD from a sender that never stops, and accepts no second one.  *)
NoStepBack ==
    [][/\ Listening => ReceiverLeft' \in 0 .. ReceiverLeft
       /\ ReceiverStep => ReceiverLeft' \in 0 .. ReceiverLeft - 1
       /\ \A s \in Salts :
             /\ sendPc[s] # "idle" => SenderLeft(s)' \in 0 .. SenderLeft(s)
             /\ SenderStep(s) => SenderLeft(s)' \in 0 .. SenderLeft(s) - 1]_vars

(* A receiver that has accepted its connection comes to an end, even when  *)
(* the sender is slow, stops, dies or never stops sending.                 *)
ReceptionEnds == recvPc = "reading" ~> recvPc = "exited"

(* A sender that has started ends with an outcome, even when nobody ever   *)
(* listens or its connection is never accepted.                            *)
SendingEnds == \A s \in Salts \ Hung : sendPc[s] = "connecting" ~> sendPc[s] = "done"

(* The sender's view of the whole: outcomes and imports behave as          *)
(* TransferPromise says.                                                   *)
Told(s) ==
    CASE outcome[s] = "none" -> "pending"
      [] outcome[s] = "ok" -> "ok"
      [] outcome[s] \in {"rejected", "agent-mismatch"} -> "refused"
      [] outcome[s] \in {"unsent", "unknown", "interrupted"} -> "unsure"

Promise == INSTANCE TransferPromise WITH
    Transfers <- Salts,
    sent <- {<<origin[c], c>> : c \in {s \in Salts : sendPc[s] # "idle"}},
    landed <- {<<i.from, i.via>> : i \in imports},
    told <- [s \in Salts |-> Told(s)]

(* Every behaviour of the two commands is one TransferPromise allows.      *)
KeepsPromise == Promise!Spec
---------------------------------------------------------------------------
(* Why SentMeansStored and RefusedMeansNotStored hold: the inductive        *)
(* invariant of TransferProofs.                                             *)

ImportedVia(s) == \E i \in imports : i.via = s

(* A connection the receiver is done with, and took nothing from. *)
Barred(s) == link[s] \in {"closed", "reset"} /\ ~ImportedVia(s)

TellsTruth(status, s) ==
    /\ status = "ok" => Landed(s)
    /\ status # "ok" => Barred(s) \/ Resent(s)

SendersInv == \A s \in Salts :
    /\ sendPc[s] # "idle" => job[s] \in Jobs
    /\ sendPc[s] \in {"idle", "connecting"} => link[s] = "none"
    /\ sendPc[s] # "done" => outcome[s] = "none"
    /\ link[s] \in {"none", "queued"} => ~ImportedVia(s)
    /\ outcome[s] \in Statuses => TellsTruth(outcome[s], s)

(* Whose frame a connection carries, and whose was imported from it. *)
OriginInv ==
    /\ \A s \in Salts : origin[s] # s => s \in Replayers /\ sendPc[s] # "idle"
    /\ \A s \in Salts : sendPc[s] # "idle" =>
          /\ origin[origin[s]] = origin[s]
          /\ sendPc[origin[s]] # "idle"
          /\ job[s] = job[origin[s]]
    /\ \A i \in imports : i.from = origin[i.via] /\ sendPc[i.via] # "idle"

(* An acknowledgement that names a transfer's salt and carries its          *)
(* passphrase was made by a receiver that held that transfer's frame.       *)
RepliesInv == \A s \in Salts :
    LET t == reply[s].key.salt
    IN  (reply[s] # Nothing /\ t # Scrambled) =>
            /\ sendPc[t] # "idle"
            /\ reply[s].key.pw = job[t].pw => TellsTruth(reply[s].status, t)

Hearing == recvPc \in {"deciding", "writing", "written"}

ReceiverInv ==
    /\ Listening => cfg \in Configs
    /\ recvPc \in {"reading", "deciding", "writing", "written"} =>
          peer \in Salts /\ link[peer] = "open" /\ sendPc[peer] # "idle"
    /\ recvPc \in {"reading", "deciding", "writing"} => ~ImportedVia(peer)
    /\ Hearing =>
          /\ heard \in Frames
          /\ heard.salt \in {origin[peer], Scrambled}
          /\ heard.body = "intact" => heard = Encrypt(job[peer].plain, job[peer].pw, origin[peer])
    /\ recvPc \in {"writing", "written"} =>
          /\ Decrypts(heard, cfg.pw) /\ Unwraps(heard.plain)
          /\ PinAllows(heard.plain.label) /\ Usable(heard.plain.label, heard.plain.doc)
    /\ recvPc = "written" => Landed(origin[peer]) /\ \E i \in imports : i.run = runs
    /\ exitCode = "success" => recvPc = "exited" /\ \E i \in imports : i.run = runs

(* Why OneShot holds: a run that has not written yet is in no record, and  *)
(* neither is the connection it holds.                                     *)
OneShotInv ==
    /\ OneShot
    /\ \A i \in imports : i.run <= runs
    /\ recvPc \in {"listening", "reading", "deciding", "writing"} => \A i \in imports : i.run # runs
    /\ total <= MaxPayload

IInv ==
    /\ TypeOK
    /\ SendersInv
    /\ OriginInv
    /\ RepliesInv
    /\ ReceiverInv
    /\ ImportsAreFaithful
    /\ StoreStaysUsable
===========================================================================
