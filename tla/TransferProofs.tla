-------------------------- MODULE TransferProofs --------------------------
(***************************************************************************)
(* Proofs about Transfer, for every set of senders, jobs, options, faults, *)
(* and every value of the bounds.                                          *)
(***************************************************************************)
EXTENDS Transfer, TLAPS

(* What reaches the receiver is a frame, of the salt it was made with or of *)
(* one nobody drew; when its tag covers it, it is the frame that was made.  *)
LEMMA DeliveredFrames ==
    ASSUME NEW s \in Salts, job[s] \in Jobs, origin[s] \in Salts,
           hurt[s] \in {"none", "body", "salt", "shape"},
           NEW f \in Delivered(s)
    PROVE  /\ f \in Frames
           /\ f.salt \in {origin[s], Scrambled}
           /\ f.body = "intact" => f = Encrypt(job[s].plain, job[s].pw, origin[s])
<1> DEFINE made == Encrypt(job[s].plain, job[s].pw, origin[s])
<1>1. job[s] \in JobSet
  BY TransferAssumption
<1>2. /\ made = [salt |-> origin[s], pw |-> job[s].pw, plain |-> job[s].plain, body |-> "intact"]
      /\ job[s].pw \in Passphrases /\ job[s].plain \in Plaintexts
  BY <1>1 DEF JobSet, Encrypt
<1>3. /\ Transmitted(s) \in Frames
      /\ Transmitted(s).salt \in {origin[s], Scrambled}
      /\ Transmitted(s).body = "intact" => Transmitted(s) = made
  <2> DEFINE as(salt, body) ==
               [salt |-> salt, pw |-> job[s].pw, plain |-> job[s].plain, body |-> body]
  <2>1. /\ hurt[s] = "none" => Transmitted(s) = as(origin[s], "intact")
        /\ hurt[s] = "body" => Transmitted(s) = as(origin[s], "altered")
        /\ hurt[s] = "salt" => Transmitted(s) = as(Scrambled, "altered")
        /\ hurt[s] = "shape" => Transmitted(s) = as(origin[s], "malformed")
    BY DEF Transmitted, Encrypt
  <2>2. \A salt \in {origin[s], Scrambled}, body \in {"intact", "altered", "malformed"} :
            as(salt, body) \in Frames /\ as(salt, body).salt = salt /\ as(salt, body).body = body
    BY <1>2 DEF Frames
  <2> QED
    BY <1>2, <2>1, <2>2
<1>4. CASE f = Transmitted(s)
  BY <1>3, <1>4
<1>5. CASE f = [Transmitted(s) EXCEPT !.body = "malformed"]
  BY <1>3, <1>5 DEF Frames
<1> QED
  BY <1>4, <1>5 DEF Delivered
---------------------------------------------------------------------------
LEMMA AckTypes ==
    ASSUME heard \in Frames, cfg \in Configs, NEW status \in Statuses
    PROVE  Ack(MacKeyForFrame(heard, cfg.pw), status) \in Acks
BY TransferAssumption DEF Ack, MacKeyForFrame, Acks, Keys, Frames, ConfigSet

LEMMA GarbledTypes ==
    ASSUME NEW ack \in Acks
    PROVE  /\ Garbled(ack) \in Acks /\ Garbled(ack).key.salt = Scrambled
<1>1. PICK pw \in Passphrases, salt \in Salts \cup {Scrambled}, status \in Statuses :
         ack = [key |-> [pw |-> pw, salt |-> salt], status |-> status]
  BY DEF Acks, Keys
<1>2. Garbled(ack) = [key |-> [pw |-> pw, salt |-> Scrambled], status |-> status]
  BY <1>1 DEF Garbled
<1> QED
  BY <1>2 DEF Acks, Keys

LEMMA StoredTypes ==
    ASSUME NEW a \in Agents, NEW d \in Documents
    PROVE  /\ Stored(a, d) \in Documents
           /\ Usable(a, d) => Usable(a, Stored(a, d))
<1>1. CASE a = "claude" /\ ~KeychainService
  <2>1. Stored(a, d) = [id |-> d.id, form |-> "object", shape |-> d.shape, exp |-> d.exp,
                        due |-> d.due]
    BY <1>1 DEF Stored, Documents
  <2> QED
    BY <1>1, <2>1 DEF Documents, Forms, Usable, Parses, Shaped
<1>2. CASE ~(a = "claude" /\ ~KeychainService)
  BY <1>2 DEF Stored
<1> QED
  BY <1>1, <1>2

(* A payload that arrives under an agent's label is a document. *)
LEMMA HeardTypes ==
    ASSUME heard \in Frames, Unwraps(heard.plain)
    PROVE  /\ Unwrap(heard.plain).agent = heard.plain.label
           /\ Unwrap(heard.plain).payload = heard.plain.doc
           /\ heard.plain.label \in Agents /\ heard.plain.doc \in Documents
BY DEF Frames, Plaintexts, Unwraps, Unwrap
---------------------------------------------------------------------------
(* What every end of a sender and of a receiver has in common. *)
LEMMA SenderExitTypes ==
    ASSUME TypeOK, NEW s \in Salts,
           NEW o \in {"none", "unsent", "unknown", "interrupted"} \cup Statuses,
           SenderExits(s, o)
    PROVE  TypeOK'
BY DEF TypeOK, SenderExits, linkVars, recvVars, storeVars

LEMMA ReportTypes ==
    ASSUME NEW s \in Salts, NEW ack \in Acks \cup {Nothing}
    PROVE  ReportSendAck(s, ack) \in {"unknown"} \cup Statuses
<1>1. CASE ack \in Acks
  BY <1>1 DEF ReportSendAck, Acks
<1>2. CASE ack = Nothing
  BY <1>2 DEF ReportSendAck
<1> QED
  BY <1>1, <1>2

LEMMA SenderTypes ==
    ASSUME TypeOK, NEW s \in Salts,
           Connect(s) \/ SenderStep(s) \/ SenderInterrupted(s)
    PROVE  TypeOK'
<1>1. CASE Connect(s)
  BY <1>1 DEF TypeOK, Connect, recvVars, storeVars
<1>2. CASE SendBlock(s)
  BY <1>2 DEF TypeOK, SendBlock, recvVars, storeVars
<1>3. CASE Shutdown(s)
  BY <1>3 DEF TypeOK, Shutdown, recvVars, storeVars
<1>4. CASE SendFails(s)
  BY <1>4, SenderExitTypes DEF SendFails
<1>5. CASE ReceiveAck(s)
  <2>1. reply[s] \in Acks /\ Garbled(reply[s]) \in Acks
    BY <1>5, GarbledTypes DEF ReceiveAck, TypeOK
  <2> QED
    BY <1>5, <2>1, ReportTypes, SenderExitTypes DEF ReceiveAck
<1>6. CASE LoseAck(s)
  BY <1>6, ReportTypes, SenderExitTypes DEF LoseAck
<1>7. CASE AckTimeout(s)
  BY <1>7, ReportTypes, SenderExitTypes DEF AckTimeout
<1>8. CASE SenderInterrupted(s)
  BY <1>8, SenderExitTypes DEF SenderInterrupted
<1> QED
  BY <1>1, <1>2, <1>3, <1>4, <1>5, <1>6, <1>7, <1>8 DEF SenderStep

LEMMA ReceiverExitTypes ==
    ASSUME TypeOK, NEW code \in {"success", "failure", "interrupted"}, ReceiverExits(code),
           reply' \in [Salts -> Acks \cup {Nothing}],
           store' \in [Agents -> Documents],
           imports' \subseteq ImportSet
    PROVE  TypeOK'
BY DEF TypeOK, ReceiverExits, Closed, senderVars

LEMMA GivesUpTypes ==
    ASSUME TypeOK, NEW code \in {"failure", "interrupted"}, GivesUpWith(code)
    PROVE  TypeOK'
<1>1. /\ reply' = reply /\ store' = store /\ imports' = imports
      /\ ReceiverExits(code)
  BY DEF GivesUpWith, storeVars
<1> QED
  BY <1>1, ReceiverExitTypes DEF TypeOK

LEMMA AckAndExitTypes ==
    ASSUME TypeOK, ReceiverInv, Hearing, NEW status \in Statuses,
           NEW code \in {"success", "failure"}, AcksAndExits(status, code)
    PROVE  TypeOK'
<1>1. heard \in Frames /\ cfg \in Configs
  BY DEF ReceiverInv, Hearing, Listening
<1>2. Ack(MacKeyForFrame(heard, cfg.pw), status) \in Acks
  BY <1>1, AckTypes
<1>3. /\ reply' \in [Salts -> Acks \cup {Nothing}]
      /\ store' = store /\ imports' = imports
  BY <1>2 DEF AcksAndExits, TypeOK, storeVars
<1> QED
  BY <1>3, ReceiverExitTypes DEF TypeOK, AcksAndExits

(* A write leaves a document in the store of the label's agent. *)
LEMMA WriteStoreTypes ==
    ASSUME TypeOK, ReceiverInv, recvPc = "writing", WriteStore
    PROVE  LET a == heard.plain.label
               d == heard.plain.doc
           IN  /\ a \in Agents /\ d \in Documents /\ Usable(a, d)
               /\ store' = [store EXCEPT ![a] = Stored(a, d)]
               /\ store' \in [Agents -> Documents]
               /\ imports' = imports \cup {[from |-> origin[peer], via |-> peer, agent |-> a, doc |-> d,
                                            opts |-> cfg, run |-> runs]}
               /\ imports' \subseteq ImportSet
<1>1. heard \in Frames /\ Unwraps(heard.plain) /\ Usable(heard.plain.label, heard.plain.doc)
      /\ peer \in Salts /\ cfg \in Configs
  BY DEF ReceiverInv, Hearing, Listening
<1>2. /\ Unwrap(heard.plain).agent = heard.plain.label
      /\ Unwrap(heard.plain).payload = heard.plain.doc
      /\ heard.plain.label \in Agents /\ heard.plain.doc \in Documents
  BY <1>1, HeardTypes
<1>3. Stored(heard.plain.label, heard.plain.doc) \in Documents
  BY <1>2, StoredTypes
<1> QED
  BY <1>1, <1>2, <1>3 DEF WriteStore, TypeOK, ImportSet

LEMMA ReceiverTypes ==
    ASSUME TypeOK, SendersInv, ReceiverInv, ReceiverStep
    PROVE  TypeOK'
<1>1. CASE RecvBlock
  <2>1. peer \in Salts /\ flight[peer] \in Nat /\ flight[peer] > 0
    BY <1>1 DEF RecvBlock, TypeOK, ReceiverInv
  <2> QED
    BY <1>1, <2>1 DEF RecvBlock, TypeOK, senderVars, storeVars
<1>2. CASE RecvTooMuch \/ RecvIdle \/ RecvEmpty \/ RefuseSilently \/ WriteFails \/ ReportRaises
  BY <1>2, GivesUpTypes
     DEF RecvTooMuch, RecvIdle, RecvEmpty, RefuseSilently, WriteFails, ReportRaises, GivesUp
<1>3. CASE RecvEof
  <2>1. /\ peer \in Salts /\ job[peer] \in Jobs /\ origin[peer] \in Salts
        /\ hurt[peer] \in {"none", "body", "salt", "shape"}
    BY <1>3 DEF RecvEof, TypeOK, ReceiverInv, SendersInv
  <2>2. heard' \in Frames
    BY <1>3, <2>1, DeliveredFrames DEF RecvEof
  <2> QED
    BY <1>3, <2>2 DEF RecvEof, TypeOK, senderVars, linkVars, storeVars
<1>4. CASE Refuse
  BY <1>4, AckAndExitTypes DEF Refuse, Refusal, Statuses, Hearing
<1>5. CASE Validate
  BY <1>5 DEF Validate, TypeOK, senderVars, linkVars, storeVars
<1>6. CASE Write
  BY <1>6, WriteStoreTypes DEF Write, TypeOK, senderVars, linkVars
<1>7. CASE WriteTimesOut
  BY <1>7, WriteStoreTypes, ReceiverExitTypes DEF WriteTimesOut, TypeOK
<1>8. CASE Report
  BY <1>8, AckAndExitTypes DEF Report, Statuses, Hearing
<1> QED
  BY <1>1, <1>2, <1>3, <1>4, <1>5, <1>6, <1>7, <1>8 DEF ReceiverStep

LEMMA TypeStep ==
    ASSUME IInv, [Next]_vars
    PROVE  TypeOK'
<1> USE DEF IInv
<1>1. ASSUME NEW s \in Salts, NEW j \in Jobs, SendStart(s, j)
      PROVE  TypeOK'
  <2>1. j.size \in Nat
    BY TransferAssumption DEF JobSet
  <2> QED
    BY <1>1, <2>1 DEF SendStart, TypeOK, linkVars, recvVars, storeVars
<1>2. ASSUME NEW s \in Salts, Connect(s) \/ SenderStep(s) \/ SenderInterrupted(s)
      PROVE  TypeOK'
  BY <1>2, SenderTypes
<1>3. ASSUME NEW c \in Configs, Launch(c)
      PROVE  TypeOK'
  BY <1>3 DEF Launch, TypeOK, senderVars, linkVars, storeVars
<1>4. ASSUME NEW s \in Salts, Accept(s)
      PROVE  TypeOK'
  BY <1>4 DEF Accept, TypeOK, senderVars, storeVars
<1>5. CASE ReceiverStep
  BY <1>5, ReceiverTypes
<1>6. CASE RecvFails \/ ReceiverInterrupted
  BY <1>6, GivesUpTypes DEF RecvFails, ReceiverInterrupted, GivesUp
<1>7. CASE NetworkStep
  <2>1. ASSUME NEW s \in Salts, Corrupt(s)
        PROVE  TypeOK'
    BY <2>1 DEF Corrupt, TypeOK, senderVars, recvVars, storeVars
  <2>2. ASSUME NEW s \in Salts, GarbleReply(s)
        PROVE  TypeOK'
    <3>1. Garbled(reply[s]) \in Acks
      BY <2>2, GarbledTypes DEF GarbleReply, TypeOK
    <3> QED
      BY <2>2, <3>1 DEF GarbleReply, TypeOK, senderVars, recvVars, storeVars
  <2>3. ASSUME NEW s \in Salts, NEW t \in Salts, StaleReply(s, t)
        PROVE  TypeOK'
    BY <2>3 DEF StaleReply, TypeOK, senderVars, recvVars, storeVars
  <2> QED
    BY <1>7, <2>1, <2>2, <2>3 DEF NetworkStep
<1>8. CASE Tick
  BY <1>8 DEF Tick, TypeOK, senderVars, linkVars, recvVars, storeVars
<1>9. CASE UNCHANGED vars
  BY <1>9 DEF vars, TypeOK, senderVars, linkVars, recvVars, storeVars
<1>10. ASSUME NEW r \in Replayers, NEW t \in Salts, Replay(r, t)
       PROVE  TypeOK'
  <2>1. job[t] \in Jobs /\ job[t].size \in Nat
    BY <1>10, TransferAssumption DEF Replay, SendersInv, JobSet
  <2> QED
    BY <1>10, <2>1 DEF Replay, TypeOK, linkVars, recvVars, storeVars
<1> QED
  BY <1>1, <1>2, <1>3, <1>4, <1>5, <1>6, <1>7, <1>8, <1>9, <1>10 DEF Next
---------------------------------------------------------------------------
(* The rest of IInv, action by action. *)

Safe ==
    /\ SendersInv /\ OriginInv /\ RepliesInv /\ ReceiverInv
    /\ ImportsAreFaithful /\ StoreStaysUsable

(* What is said of a transfer stays true while the history, the             *)
(* connections and the transfer's own job stay what they are.               *)
LEMMA SameTruth ==
    ASSUME NEW s \in Salts, UNCHANGED <<imports, origin>>, job'[s] = job[s]
    PROVE  /\ Landed(s)' <=> Landed(s)
           /\ ImportedVia(s)' <=> ImportedVia(s)
           /\ link'[s] = link[s] => \A status : TellsTruth(status, s)' <=> TellsTruth(status, s)
BY DEF Landed, ImportedVia, TellsTruth, Barred, Resent

(* Whose frame a connection carries is settled when it begins.              *)
LEMMA SameStore ==
    ASSUME IInv, UNCHANGED <<store, imports, job, origin>>,
           \A t \in Salts : sendPc[t] = "idle" <=> sendPc'[t] = "idle"
    PROVE  OriginInv' /\ ImportsAreFaithful' /\ StoreStaysUsable'
BY DEF IInv, OriginInv, ImportsAreFaithful, StoreStaysUsable, TypeOK, ImportSet

(* An end of a sender that reports nothing untrue. *)
LEMMA SenderExitSafe ==
    ASSUME IInv, NEW s \in Salts, NEW o, SenderExits(s, o), sendPc[s] # "idle",
           o \in Statuses => TellsTruth(o, s)
    PROVE  Safe'
<1> USE DEF IInv
<1>1. /\ UNCHANGED <<job, origin, link, reply, recvPc, cfg, peer, heard, exitCode, runs, store, imports>>
      /\ \A t \in Salts : t # s => sendPc'[t] = sendPc[t] /\ outcome'[t] = outcome[t]
      /\ sendPc'[s] = "done" /\ outcome'[s] = o
  BY DEF SenderExits, TypeOK, recvVars, storeVars
<1>2. SendersInv'
  <2> SUFFICES ASSUME NEW t \in Salts
               PROVE  /\ sendPc'[t] # "idle" => job'[t] \in Jobs
                      /\ sendPc'[t] \in {"idle", "connecting"} => link'[t] = "none"
                      /\ sendPc'[t] # "done" => outcome'[t] = "none"
                      /\ link'[t] \in {"none", "queued"} => ~ImportedVia(t)'
                      /\ outcome'[t] \in Statuses => TellsTruth(outcome[t], t)'
    BY DEF SendersInv
  <2> QED
    BY <1>1, SameTruth DEF SendersInv
<1>3. RepliesInv'
  BY <1>1, SameTruth, SaltAssumption DEF RepliesInv, TypeOK, Acks, Keys
<1>4. ReceiverInv'
  BY <1>1 DEF ReceiverInv, Listening, Hearing, ImportedVia, Landed, PinAllows
<1>5. OriginInv' /\ ImportsAreFaithful' /\ StoreStaysUsable'
  BY <1>1, SameStore
<1> QED
  BY <1>2, <1>3, <1>4, <1>5 DEF Safe

(* A report is what a verified acknowledgement says, or "unknown". *)
LEMMA ReportTells ==
    ASSUME IInv, NEW s \in Salts, sendPc[s] = "waiting",
           NEW ack \in {reply[s], Nothing} \cup
                       (IF reply[s] = Nothing THEN {} ELSE {Garbled(reply[s])}),
           ReportSendAck(s, ack) \in Statuses
    PROVE  TellsTruth(ReportSendAck(s, ack), s)
<1> USE DEF IInv
<1>1. ack # Nothing /\ AckVerifies(ack, SenderKey(s)) /\ ReportSendAck(s, ack) = ack.status
  BY DEF ReportSendAck, Statuses
<1>2. SenderKey(s).salt = s /\ SenderKey(s).pw = job[s].pw
  BY DEF SenderKey, MacKeyForFrame, Encrypt
<1>3. reply[s] # Nothing /\ reply[s] \in Acks
  BY <1>1 DEF TypeOK
<1>4. ack = reply[s]
  BY <1>1, <1>2, <1>3, GarbledTypes, SaltAssumption DEF AckVerifies
<1>5. reply[s].key.salt = s /\ reply[s].key.pw = job[s].pw
  BY <1>1, <1>2, <1>4 DEF AckVerifies
<1> QED
  BY <1>1, <1>3, <1>4, <1>5, SaltAssumption DEF RepliesInv

LEMMA SenderSafe ==
    ASSUME IInv, NEW s \in Salts,
           Connect(s) \/ SenderStep(s) \/ SenderInterrupted(s)
    PROVE  Safe'
<1> USE DEF IInv
<1>1. CASE Connect(s)
  <2>1. /\ UNCHANGED <<job, origin, outcome, reply, recvPc, cfg, peer, heard, exitCode, runs, store, imports>>
        /\ sendPc[s] = "connecting" /\ sendPc' = [sendPc EXCEPT ![s] = "sending"]
        /\ link' = [link EXCEPT ![s] = "queued"]
    BY <1>1 DEF Connect, recvVars, storeVars
  <2>2. link[s] = "none" /\ \A t \in Salts \ {s} : link'[t] = link[t]
    BY <2>1 DEF SendersInv, TypeOK
  <2>3. \A t \in Salts, status \in Statuses : TellsTruth(status, t) => TellsTruth(status, t)'
    BY <2>1, <2>2 DEF TellsTruth, Barred, Landed, ImportedVia, Resent, TypeOK
  <2>4. SendersInv'
    BY <2>1, <2>2, <2>3 DEF SendersInv, TypeOK, ImportedVia
  <2>5. RepliesInv'
    BY <2>1, <2>3, SaltAssumption DEF RepliesInv, TypeOK, Acks, Keys
  <2>6. ReceiverInv'
    BY <2>1, <2>2 DEF ReceiverInv, Listening, Hearing, ImportedVia, Landed, PinAllows, TypeOK
  <2> QED
    BY <2>1, <2>4, <2>5, <2>6, SameStore DEF Safe
<1>2. CASE SendBlock(s) \/ Shutdown(s)
  <2>1. /\ UNCHANGED <<job, origin, outcome, link, reply, recvPc, cfg, peer, heard, exitCode, runs, store,
                       imports>>
        /\ sendPc[s] = "sending"
        /\ sendPc' = sendPc \/ sendPc' = [sendPc EXCEPT ![s] = "waiting"]
    BY <1>2 DEF SendBlock, Shutdown, recvVars, storeVars
  <2>2. SendersInv'
    BY <2>1, SameTruth DEF SendersInv, TypeOK
  <2>3. RepliesInv'
    BY <2>1, SameTruth, SaltAssumption DEF RepliesInv, TypeOK, Acks, Keys
  <2>4. ReceiverInv'
    BY <2>1 DEF ReceiverInv, Listening, Hearing, ImportedVia, Landed, PinAllows, TypeOK
  <2> QED
    BY <2>1, <2>2, <2>3, <2>4, SameStore DEF Safe, TypeOK
<1>3. CASE SendFails(s)
  BY <1>3, SenderExitSafe DEF SendFails, Statuses
<1>4. CASE ReceiveAck(s)
  BY <1>4, ReportTells, SenderExitSafe DEF ReceiveAck
<1>5. CASE LoseAck(s)
  BY <1>5, ReportTells, SenderExitSafe DEF LoseAck, Statuses
<1>6. CASE AckTimeout(s)
  BY <1>6, ReportTells, SenderExitSafe DEF AckTimeout, Statuses
<1>7. CASE SenderInterrupted(s)
  BY <1>7, SenderExitSafe DEF SenderInterrupted, Statuses
<1> QED
  BY <1>1, <1>2, <1>3, <1>4, <1>5, <1>6, <1>7 DEF SenderStep

(* A new sender draws a salt that no one has heard of. *)
LEMMA SendStartSafe ==
    ASSUME IInv, NEW s \in Salts, NEW j \in Jobs, SendStart(s, j)
    PROVE  Safe'
<1> USE DEF IInv
<1>1. /\ UNCHANGED <<origin, outcome, link, reply, recvPc, cfg, peer, heard, exitCode, runs, store,
                     imports>>
      /\ sendPc[s] = "idle" /\ sendPc' = [sendPc EXCEPT ![s] = "connecting"]
      /\ job' = [job EXCEPT ![s] = j]
  BY DEF SendStart, linkVars, recvVars, storeVars
<1>2. link[s] = "none" /\ outcome[s] = "none" /\ origin[s] \in Salts
      /\ \A i \in imports : i.from # s /\ i.via # s
  BY <1>1 DEF SendersInv, OriginInv, TypeOK, ImportSet
<1>3. \A t \in Salts \ {s} : job'[t] = job[t] /\ sendPc'[t] = sendPc[t]
  BY <1>1 DEF TypeOK
<1>4. SendersInv'
  BY <1>1, <1>2, <1>3, SameTruth DEF SendersInv, TypeOK, Statuses, ImportedVia
<1>5. RepliesInv'
  BY <1>1, <1>3, SameTruth, SaltAssumption DEF RepliesInv, TypeOK, Acks, Keys
<1>6. ReceiverInv'
  BY <1>1, <1>2, <1>3 DEF ReceiverInv, Listening, Hearing, ImportedVia, Landed, PinAllows, TypeOK
<1>7. ImportsAreFaithful' /\ StoreStaysUsable'
  BY <1>1, <1>2, <1>3 DEF ImportsAreFaithful, StoreStaysUsable, TypeOK, ImportSet
<1>8. OriginInv'
  BY <1>1, <1>2, <1>3 DEF OriginInv, SendStart, TypeOK, ImportSet
<1> QED
  BY <1>4, <1>5, <1>6, <1>7, <1>8 DEF Safe

(* A recorded frame, sent again: what was true of any transfer stays true.  *)
LEMMA ReplaySafe ==
    ASSUME IInv, NEW r \in Replayers, NEW t \in Salts, Replay(r, t)
    PROVE  Safe'
<1> USE DEF IInv
<1>1. /\ UNCHANGED <<outcome, link, reply, recvPc, cfg, peer, heard, exitCode, runs, store, imports>>
      /\ sendPc[r] = "idle" /\ sendPc' = [sendPc EXCEPT ![r] = "connecting"]
      /\ sendPc[t] # "idle" /\ origin[t] = t
      /\ job' = [job EXCEPT ![r] = job[t]] /\ origin' = [origin EXCEPT ![r] = t]
  BY DEF Replay, linkVars, recvVars, storeVars
<1>2. /\ r \in Salts /\ link[r] = "none" /\ outcome[r] = "none" /\ job[t] \in Jobs
      /\ \A i \in imports : i.from # r /\ i.via # r
      /\ \A s \in Salts : sendPc[s] # "idle" => origin[s] # r
  BY <1>1, TransferAssumption DEF SendersInv, OriginInv, TypeOK, ImportSet
<1>3. \A s \in Salts \ {r} : job'[s] = job[s] /\ sendPc'[s] = sendPc[s] /\ origin'[s] = origin[s]
  BY <1>1 DEF TypeOK
<1>4. ASSUME NEW s \in Salts, s # r, NEW status, TellsTruth(status, s)
      PROVE  TellsTruth(status, s)'
  <2>1. (Landed(s)' <=> Landed(s)) /\ (Barred(s)' <=> Barred(s))
    BY <1>1, <1>3, <1>4 DEF Landed, Barred, ImportedVia
  <2>2. Resent(s) => Resent(s)'
    <3> SUFFICES ASSUME NEW u \in Salts \ {s}, origin[u] = s
                 PROVE  origin'[u] = s
      BY DEF Resent
    <3>1. u # r
      BY <1>1, <1>2 DEF OriginInv
    <3> QED
      BY <1>3, <3>1
  <2> QED
    BY <1>4, <2>1, <2>2 DEF TellsTruth
<1>5. SendersInv'
  BY <1>1, <1>2, <1>3, <1>4 DEF SendersInv, TypeOK, Statuses, ImportedVia
<1>6. RepliesInv'
  BY <1>1, <1>3, <1>4, SaltAssumption DEF RepliesInv, TypeOK, Acks, Keys
<1>7. ReceiverInv'
  BY <1>1, <1>2, <1>3
     DEF ReceiverInv, OriginInv, Listening, Hearing, ImportedVia, Landed, PinAllows, TypeOK
<1>8. ImportsAreFaithful' /\ StoreStaysUsable'
  BY <1>1, <1>2, <1>3 DEF ImportsAreFaithful, StoreStaysUsable, TypeOK, ImportSet
<1>9. OriginInv'
  BY <1>1, <1>2, <1>3 DEF OriginInv, TypeOK, ImportSet
<1> QED
  BY <1>5, <1>6, <1>7, <1>8, <1>9 DEF Safe

(* The network can move acknowledgements about and spoil them, not make     *)
(* one that lies.                                                           *)
LEMMA NetworkSafe ==
    ASSUME IInv, NetworkStep
    PROVE  Safe'
<1> USE DEF IInv
<1>1. /\ UNCHANGED <<sendPc, job, origin, outcome, link, recvPc, cfg, peer, heard, exitCode, runs, store,
                     imports>>
  BY DEF NetworkStep, Corrupt, GarbleReply, StaleReply, senderVars, recvVars, storeVars
<1>2. ASSUME NEW s \in Salts
      PROVE  \/ reply'[s] = Nothing
             \/ reply'[s] # Nothing /\ reply'[s].key.salt = Scrambled
             \/ \E t \in Salts : reply'[s] = reply[t]
  <2>1. CASE \E t \in Salts : Corrupt(t)
    BY <2>1 DEF Corrupt
  <2>2. ASSUME NEW t \in Salts, GarbleReply(t)
        PROVE  reply'[s] = reply[s] \/ (reply'[s] # Nothing /\ reply'[s].key.salt = Scrambled)
    <3>1. reply[t] \in Acks /\ reply' = [reply EXCEPT ![t] = Garbled(reply[t])]
      BY <2>2 DEF GarbleReply, TypeOK
    <3> QED
      BY <3>1, GarbledTypes, TransferAssumption DEF TypeOK
  <2>3. ASSUME NEW t \in Salts, NEW u \in Salts, StaleReply(t, u)
        PROVE  reply'[s] = reply[s] \/ reply'[s] = reply[u]
    BY <2>3 DEF StaleReply, TypeOK
  <2> QED
    BY <2>1, <2>2, <2>3 DEF NetworkStep
<1>3. SendersInv'
  BY <1>1, SameTruth DEF SendersInv
<1>4. RepliesInv'
  BY <1>1, <1>2, SameTruth DEF RepliesInv, TypeOK, Acks, Keys
<1>5. ReceiverInv'
  BY <1>1 DEF ReceiverInv, Listening, Hearing, ImportedVia, Landed, PinAllows
<1> QED
  BY <1>1, <1>3, <1>4, <1>5, SameStore DEF Safe

(* The receiver's steps before it decides, and the decision to write. *)
LEMMA ReadingSafe ==
    ASSUME IInv,
           \/ \E c \in Configs : Launch(c)
           \/ \E s \in Salts : Accept(s)
           \/ RecvBlock \/ RecvEof \/ Validate
    PROVE  Safe'
<1> USE DEF IInv
<1>1. UNCHANGED <<sendPc, job, origin, outcome, reply, store, imports>>
  BY DEF Launch, Accept, RecvBlock, RecvEof, Validate, senderVars, linkVars, storeVars
<1>2. \A t \in Salts : \/ link'[t] = link[t]
                       \/ link[t] = "queued" /\ link'[t] = "open" /\ sendPc[t] \notin {"idle", "connecting"}
  BY DEF Launch, Accept, RecvBlock, RecvEof, Validate, linkVars, TypeOK, SendersInv
<1>3. \A t \in Salts, status \in Statuses : TellsTruth(status, t) => TellsTruth(status, t)'
  BY <1>1, <1>2 DEF TellsTruth, Barred, Landed, ImportedVia, Resent
<1>4. SendersInv'
  BY <1>1, <1>2, <1>3 DEF SendersInv, ImportedVia, TypeOK
<1>5. RepliesInv'
  BY <1>1, <1>3, SaltAssumption DEF RepliesInv, TypeOK, Acks, Keys
<1>6. ReceiverInv'
  <2>1. ASSUME NEW c \in Configs, Launch(c)
        PROVE  ReceiverInv'
    BY <2>1 DEF Launch, ReceiverInv, Listening, Hearing
  <2>2. ASSUME NEW s \in Salts, Accept(s)
        PROVE  ReceiverInv'
    BY <2>2 DEF Accept, ReceiverInv, SendersInv, Listening, Hearing, ImportedVia, senderVars,
                storeVars, TypeOK
  <2>3. CASE RecvBlock
    BY <2>3 DEF RecvBlock, ReceiverInv, Listening, Hearing, ImportedVia, senderVars, storeVars
  <2>4. CASE RecvEof
    <3>1. /\ job[peer] \in Jobs /\ peer \in Salts /\ hurt[peer] \in {"none", "body", "salt", "shape"}
          /\ origin[peer] \in Salts
      BY <2>4 DEF RecvEof, ReceiverInv, SendersInv, TypeOK
    <3>2. /\ heard' \in Frames /\ heard'.salt \in {origin[peer], Scrambled}
          /\ heard'.body = "intact" => heard' = Encrypt(job[peer].plain, job[peer].pw, origin[peer])
      BY <2>4, <3>1, DeliveredFrames DEF RecvEof
    <3> QED
      BY <2>4, <3>2 DEF RecvEof, ReceiverInv, Listening, Hearing, ImportedVia, senderVars, linkVars,
                        storeVars, Encrypt
  <2>5. CASE Validate
    BY <2>5 DEF Validate, Valid, Pinned, Opens, ValidateBlob, Usable, ReceiverInv, Listening, Hearing,
                ImportedVia, PinAllows, senderVars, linkVars, storeVars
  <2> QED
    BY <2>1, <2>2, <2>3, <2>4, <2>5
<1> QED
  BY <1>1, <1>4, <1>5, <1>6, SameStore DEF Safe

(* The end of a run closes its connections, and none of them opens again. *)
Shut(t) ==
    /\ link[t] = "none" => link'[t] = "none"
    /\ link[t] # "none" => link'[t] \in {"closed", "reset"}

LEMMA ClosingTruth ==
    ASSUME IInv, NEW code, ReceiverExits(code)
    PROVE  /\ UNCHANGED <<sendPc, job, origin, outcome, cfg, peer, heard, runs>>
           /\ recvPc' = "exited" /\ exitCode' = code
           /\ \A t \in Salts : Shut(t)
BY DEF Shut, ReceiverExits, Closed, IInv, TypeOK, senderVars

LEMMA GivesUpSafe ==
    ASSUME IInv, NEW code \in {"failure", "interrupted"}, GivesUpWith(code)
    PROVE  Safe'
<1> USE DEF IInv
<1>1. /\ UNCHANGED <<reply, store, imports>> /\ ReceiverExits(code)
      /\ UNCHANGED <<sendPc, job, origin, outcome, cfg, peer, heard, runs>>
      /\ recvPc' = "exited" /\ exitCode' = code
      /\ \A t \in Salts : Shut(t)
  BY ClosingTruth DEF GivesUpWith, storeVars
<1>2. \A t \in Salts, status \in Statuses : TellsTruth(status, t) => TellsTruth(status, t)'
  BY <1>1 DEF Shut, TellsTruth, Barred, Landed, ImportedVia, Resent
<1>3. SendersInv'
  BY <1>1, <1>2 DEF Shut, SendersInv, ImportedVia, TypeOK
<1>4. RepliesInv'
  BY <1>1, <1>2, SaltAssumption DEF RepliesInv, TypeOK, Acks, Keys
<1>5. ReceiverInv'
  BY <1>1 DEF ReceiverInv, Listening, Hearing
<1> QED
  BY <1>1, <1>3, <1>4, <1>5, SameStore DEF Safe

(* An acknowledgement that names a salt and is sealed with the passphrase   *)
(* that goes with it is one for the frame of that salt, be it sent again; it may be wrong only about   *)
(* a frame that verified, and is not.                                       *)
LEMMA AckSafe ==
    ASSUME IInv, Hearing, NEW status \in Statuses, NEW code \in {"success", "failure"},
           AcksAndExits(status, code),
           status = "ok" => Landed(origin[peer]),
           status # "ok" => ~ImportedVia(peer),
           code = "success" => recvPc = "written"
    PROVE  Safe'
<1> USE DEF IInv
<1>1. /\ UNCHANGED <<store, imports>> /\ ReceiverExits(code)
      /\ UNCHANGED <<sendPc, job, origin, outcome, cfg, peer, heard, runs>>
      /\ recvPc' = "exited" /\ exitCode' = code
      /\ \A t \in Salts : Shut(t)
      /\ reply' = [reply EXCEPT ![peer] = Ack(MacKeyForFrame(heard, cfg.pw), status)]
  BY ClosingTruth DEF AcksAndExits, storeVars
<1>2. /\ peer \in Salts /\ link[peer] = "open" /\ sendPc[peer] # "idle"
      /\ heard.salt \in {origin[peer], Scrambled}
      /\ origin[peer] \in Salts /\ sendPc[origin[peer]] # "idle"
  BY DEF ReceiverInv, OriginInv, Hearing, TypeOK
<1>3. \A t \in Salts, st \in Statuses : TellsTruth(st, t) => TellsTruth(st, t)'
  BY <1>1 DEF Shut, TellsTruth, Barred, Landed, ImportedVia, Resent
<1>4. TellsTruth(status, origin[peer])'
  BY <1>1, <1>2 DEF Shut, TellsTruth, Barred, Landed, ImportedVia, Resent
<1>5. SendersInv'
  BY <1>1, <1>3 DEF Shut, SendersInv, ImportedVia, TypeOK
<1>6. RepliesInv'
  <2> SUFFICES ASSUME NEW s \in Salts, reply'[s] # Nothing, reply'[s].key.salt # Scrambled
               PROVE  /\ sendPc'[reply'[s].key.salt] # "idle"
                      /\ reply'[s].key.pw = job'[reply'[s].key.salt].pw =>
                            TellsTruth(reply[s].status, reply[s].key.salt)'
    BY DEF RepliesInv
  <2>1. CASE s = peer
    <3>1. reply'[s] = [key |-> [pw |-> cfg.pw, salt |-> heard.salt], status |-> status]
      BY <1>1, <2>1 DEF TypeOK, Ack, MacKeyForFrame
    <3>2. reply'[s].key.salt = origin[peer] /\ reply'[s].status = status
      BY <3>1, <1>2
    <3> QED
      BY <1>1, <1>2, <1>4, <3>2
  <2>2. CASE s # peer
    <3>1. reply'[s] = reply[s] /\ reply[s].key.salt \in Salts /\ reply[s].status \in Statuses
      BY <1>1, <2>2 DEF TypeOK, Acks, Keys
    <3> QED
      BY <1>1, <1>3, <3>1 DEF RepliesInv
  <2> QED
    BY <2>1, <2>2
<1>7. ReceiverInv'
  BY <1>1 DEF ReceiverInv, Listening, Hearing
<1> QED
  BY <1>1, <1>5, <1>6, <1>7, SameStore DEF Safe

(* The write of the peer's frame: it lands, under its own label, in a store *)
(* it leaves usable.                                                        *)
LEMMA WriteSafe ==
    ASSUME IInv, Write \/ WriteTimesOut
    PROVE  Safe'
<1> USE DEF IInv
<1> DEFINE a == heard.plain.label
           d == heard.plain.doc
           new == [from |-> origin[peer], via |-> peer, agent |-> a, doc |-> d, opts |-> cfg,
                   run |-> runs]
<1>1. /\ recvPc = "writing" /\ WriteStore
      /\ UNCHANGED <<sendPc, job, origin, outcome, reply, cfg, peer, heard, runs>>
  BY DEF Write, WriteTimesOut, ReceiverExits, senderVars, linkVars
<1>2. /\ a \in Agents /\ d \in Documents /\ Usable(a, d)
      /\ store' = [store EXCEPT ![a] = Stored(a, d)] /\ imports' = imports \cup {new}
  BY <1>1, WriteStoreTypes
<1>3. /\ peer \in Salts /\ link[peer] = "open" /\ sendPc[peer] # "idle" /\ ~ImportedVia(peer)
      /\ cfg \in Configs /\ Decrypts(heard, cfg.pw) /\ PinAllows(a)
      /\ heard = Encrypt(job[peer].plain, job[peer].pw, origin[peer])
      /\ origin[peer] \in Salts /\ job[origin[peer]] = job[peer]
  BY <1>1 DEF ReceiverInv, OriginInv, Listening, Hearing, Decrypts, TagVerifies, TypeOK
<1>4. /\ a = job[peer].plain.label /\ d = job[peer].plain.doc /\ cfg.pw = job[peer].pw
      /\ job[peer] # Nothing
  <2>1. job[peer] \in Jobs
    BY <1>3 DEF SendersInv
  <2> QED
    BY <1>3, <2>1, TransferAssumption DEF Encrypt, Decrypts, TagVerifies
<1>5. \A t \in Salts : Shut(t) \/ link'[t] = link[t]
  <2>1. CASE Write
    BY <2>1 DEF Write, linkVars
  <2>2. CASE WriteTimesOut
    BY <2>2, ClosingTruth DEF WriteTimesOut
  <2> QED
    BY <2>1, <2>2
<1>6. \A t \in Salts, status \in Statuses : TellsTruth(status, t) => TellsTruth(status, t)'
  <2> SUFFICES ASSUME NEW t \in Salts, NEW status \in Statuses, TellsTruth(status, t)
               PROVE  TellsTruth(status, t)'
    OBVIOUS
  <2>1. Landed(t) => Landed(t)'
    BY <1>1, <1>2 DEF Landed
  <2>2. Barred(t) => Barred(t)'
    BY <1>2, <1>3, <1>5 DEF Barred, Shut, ImportedVia
  <2>3. Resent(t) => Resent(t)'
    BY <1>1 DEF Resent
  <2> QED
    BY <2>1, <2>2, <2>3 DEF TellsTruth
<1>7. SendersInv'
  BY <1>1, <1>2, <1>3, <1>5, <1>6 DEF SendersInv, Shut, ImportedVia, TypeOK
<1>8. RepliesInv'
  BY <1>1, <1>6, SaltAssumption DEF RepliesInv, TypeOK, Acks, Keys
<1>9. ReceiverInv'
  <2>1. CASE Write
    <3>1. /\ new \in imports' /\ new.run = runs
          /\ new.from = origin[peer] /\ new.agent = a /\ new.doc = d
      BY <1>2
    <3>2. Landed(origin[peer])' /\ \E i \in imports' : i.run = runs
      BY <1>1, <1>3, <1>4, <3>1 DEF Landed
    <3> QED
      BY <1>1, <1>3, <2>1, <3>2
         DEF Write, ReceiverInv, Listening, Hearing, PinAllows, senderVars, linkVars, Landed
  <2>2. CASE WriteTimesOut
    BY <2>2 DEF WriteTimesOut, ReceiverExits, ReceiverInv, Listening, Hearing
  <2> QED
    BY <2>1, <2>2
<1>10. ImportsAreFaithful'
  BY <1>1, <1>2, <1>3, <1>4 DEF ImportsAreFaithful, PinAllows
<1>11. StoreStaysUsable'
  BY <1>2, StoredTypes DEF StoreStaysUsable, TypeOK
<1>12. OriginInv'
  BY <1>1, <1>2, <1>3 DEF OriginInv
<1> QED
  BY <1>7, <1>8, <1>9, <1>10, <1>11, <1>12 DEF Safe

LEMMA SafeStep ==
    ASSUME IInv, [Next]_vars
    PROVE  Safe'
<1>1. ASSUME NEW s \in Salts, NEW j \in Jobs, SendStart(s, j)
      PROVE  Safe'
  BY <1>1, SendStartSafe
<1>2. ASSUME NEW s \in Salts, Connect(s) \/ SenderStep(s) \/ SenderInterrupted(s)
      PROVE  Safe'
  BY <1>2, SenderSafe
<1>3. CASE \/ \E c \in Configs : Launch(c)
           \/ \E s \in Salts : Accept(s)
           \/ RecvBlock \/ RecvEof \/ Validate
  BY <1>3, ReadingSafe
<1>4. CASE \/ RecvTooMuch \/ RecvIdle \/ RecvEmpty \/ RefuseSilently \/ WriteFails \/ ReportRaises
           \/ RecvFails \/ ReceiverInterrupted
  BY <1>4, GivesUpSafe
     DEF RecvTooMuch, RecvIdle, RecvEmpty, RefuseSilently, WriteFails, ReportRaises, RecvFails,
         ReceiverInterrupted, GivesUp
<1>5. CASE Refuse
  BY <1>5, AckSafe DEF Refuse, Refusal, Statuses, Hearing, IInv, ReceiverInv
<1>6. CASE Report
  BY <1>6, AckSafe DEF Report, Statuses, Hearing, IInv, ReceiverInv
<1>7. CASE Write \/ WriteTimesOut
  BY <1>7, WriteSafe
<1>8. CASE NetworkStep
  BY <1>8, NetworkSafe
<1>9. CASE Tick \/ UNCHANGED vars
  <2>1. UNCHANGED <<sendPc, job, origin, outcome, link, reply, recvPc, cfg, peer, heard, exitCode, runs,
                    store, imports>>
    BY <1>9 DEF Tick, vars, senderVars, linkVars, recvVars, storeVars
  <2>2. SendersInv' /\ RepliesInv'
    BY <2>1 DEF IInv, SendersInv, RepliesInv, TellsTruth, Landed, Barred, ImportedVia, Resent
  <2>3. ReceiverInv'
    BY <2>1 DEF IInv, ReceiverInv, Listening, Hearing, ImportedVia, Landed, PinAllows
  <2> QED
    BY <2>1, <2>2, <2>3, SameStore DEF IInv, Safe
<1>10. ASSUME NEW r \in Replayers, NEW t \in Salts, Replay(r, t)
       PROVE  Safe'
  BY <1>10, ReplaySafe
<1> QED
  BY <1>1, <1>2, <1>3, <1>4, <1>5, <1>6, <1>7, <1>8, <1>9, <1>10 DEF Next, ReceiverStep
---------------------------------------------------------------------------
LEMMA InitInv ==
    ASSUME Init
    PROVE  IInv
<1>1. TypeOK
  BY TransferAssumption DEF Init, TypeOK
<1>2. SendersInv /\ RepliesInv /\ OriginInv
  BY DEF Init, SendersInv, RepliesInv, OriginInv, ImportedVia, Statuses
<1>3. ReceiverInv
  BY DEF Init, ReceiverInv, Listening, Hearing
<1> QED
  BY <1>1, <1>2, <1>3 DEF Init, IInv, ImportsAreFaithful, StoreStaysUsable

(* The inductive invariant holds in every behaviour. *)
THEOREM InductiveInvariant == Spec => []IInv
<1>1. IInv /\ [Next]_vars => IInv'
  BY TypeStep, SafeStep DEF IInv, Safe
<1> QED
  BY <1>1, InitInv, PTL DEF Spec

(* Every variable of sender, connection and receiver keeps its type. *)
THEOREM TypeCorrect == Spec => []TypeOK
BY InductiveInvariant, PTL DEF IInv

(* `--send' exits 0 only when its credentials are in the receiver's store.  *)
THEOREM OkIsNeverALie == Spec => []SentMeansStored
<1>1. IInv => SentMeansStored
  BY DEF IInv, SentMeansStored, SendersInv, TellsTruth, Statuses
<1> QED
  BY <1>1, InductiveInvariant, PTL

(* A sender that was refused left nothing in any store, and leaves nothing  *)
(* unless somebody recorded its frame and sends it again.                   *)
THEOREM RefusalIsFinal == Spec => []RefusedMeansNotStored
<1>1. IInv => RefusedMeansNotStored
  <2> SUFFICES ASSUME IInv, NEW s \in Salts, outcome[s] \in {"rejected", "agent-mismatch"},
                      ~Resent(s), NEW i \in imports
               PROVE  i.from # s
    BY DEF RefusedMeansNotStored
  <2>1. ~ImportedVia(s)
    BY DEF IInv, SendersInv, TellsTruth, Statuses, Barred
  <2>2. i.via \in Salts /\ i.from = origin[i.via]
    BY DEF IInv, TypeOK, ImportSet, OriginInv
  <2> QED
    BY <2>1, <2>2 DEF ImportedVia, Resent
<1> QED
  BY <1>1, InductiveInvariant, PTL

(* Only what a sender sealed, for that store and that receiver, is written. *)
THEOREM OnlyFaithfulImports == Spec => []ImportsAreFaithful
BY InductiveInvariant, PTL DEF IInv

(* No transfer breaks a store, on the Keychain or in a file. *)
THEOREM StoresStayUsable == Spec => []StoreStaysUsable
BY InductiveInvariant, PTL DEF IInv

(* `--receive' exits 0 only when it wrote. *)
THEOREM ExitZeroIsEarned == Spec => []SuccessMeansWritten
<1>1. IInv => SuccessMeansWritten
  BY DEF IInv, SuccessMeansWritten, ReceiverInv
<1> QED
  BY <1>1, InductiveInvariant, PTL
LEMMA OnlyWritesImport ==
    ASSUME [Next]_vars, imports' # imports
    PROVE  WriteStore
BY DEF Next, vars, SendStart, Replay, Connect, SenderStep, SendBlock, Shutdown, SendFails, ReceiveAck, LoseAck,
       AckTimeout, SenderInterrupted, SenderExits, Launch, Accept, ReceiverStep, RecvBlock, RecvTooMuch,
       RecvIdle, RecvEof, RecvEmpty, Refuse, RefuseSilently, Validate, Write, WriteFails, WriteTimesOut,
       Report, ReportRaises, RecvFails, ReceiverInterrupted, GivesUp, GivesUpWith, AcksAndExits,
       NetworkStep, Corrupt, GarbleReply, StaleReply, Tick, storeVars

(* A Codex token that is written without --force is live when it is.        *)
THEOREM OnlyLiveTokens == Spec => NeverWritesExpired
<1>1. ASSUME [Next]_vars
      PROVE  [\A i \in imports' \ imports :
                i.agent = "codex" /\ ~i.opts.force => Unexpired(i.doc, now)]_vars
  <2> SUFFICES ASSUME NEW i \in imports' \ imports, i.agent = "codex", ~i.opts.force
               PROVE  Unexpired(i.doc, now)
    OBVIOUS
  <2>1. WriteStore
    BY <1>1, OnlyWritesImport
  <2> QED
    BY <2>1 DEF WriteStore, WriteAccepts, ValidateBlob
<1> QED
  BY <1>1, PTL DEF Spec, NeverWritesExpired
---------------------------------------------------------------------------
(* Nothing is imported twice that nobody sent twice. *)

BeforeWrite == {"listening", "reading", "deciding", "writing"}

LEMMA OnlyAFewStepsCount ==
    ASSUME [Next]_vars, ~(\E c \in Configs : Launch(c)), ~RecvBlock, ~Write, ~WriteTimesOut
    PROVE  /\ UNCHANGED <<imports, runs, total>>
           /\ recvPc' \in BeforeWrite => recvPc \in BeforeWrite
<1>1. CASE \/ \E s \in Salts, j \in Jobs : SendStart(s, j)
           \/ \E r \in Replayers, t \in Salts : Replay(r, t)
  BY <1>1 DEF SendStart, Replay, recvVars, storeVars
<1>2. CASE \E s \in Salts : Connect(s) \/ SenderStep(s) \/ SenderInterrupted(s)
  BY <1>2 DEF Connect, SenderStep, SendBlock, Shutdown, SendFails, ReceiveAck, LoseAck, AckTimeout,
              SenderInterrupted, SenderExits, recvVars, storeVars
<1>3. CASE \E s \in Salts : Accept(s)
  BY <1>3 DEF Accept, BeforeWrite, storeVars
<1>4. CASE ReceiverStep \/ RecvFails \/ ReceiverInterrupted
  BY <1>4 DEF ReceiverStep, RecvTooMuch, RecvIdle, RecvEof, RecvEmpty, Refuse, RefuseSilently, Validate,
              WriteFails, Report, ReportRaises, RecvFails, ReceiverInterrupted, GivesUp, GivesUpWith,
              AcksAndExits, ReceiverExits, BeforeWrite, storeVars
<1>5. CASE NetworkStep \/ Tick \/ UNCHANGED vars
  BY <1>5 DEF NetworkStep, Corrupt, GarbleReply, StaleReply, Tick, vars, recvVars, storeVars
<1> QED
  BY <1>1, <1>2, <1>3, <1>4, <1>5 DEF Next

(* Two connections that carry one frame: one of them sends it again. *)
LEMMA TwiceMeansResent ==
    ASSUME \A i, j \in imports' : i.run = j.run \/ i.via = j.via => i = j,
           \A i \in imports' : i.via \in Salts /\ i.from = origin'[i.via]
    PROVE  OneShot'
<1> SUFFICES ASSUME NEW i \in imports', NEW j \in imports', i.from = j.from, i # j
             PROVE  Resent(i.from)'
  BY DEF OneShot
<1>1. i.via # j.via /\ {i.via, j.via} \subseteq Salts
      /\ origin'[i.via] = i.from /\ origin'[j.via] = i.from
  OBVIOUS
<1> QED
  BY <1>1 DEF Resent

LEMMA OneShotStep ==
    ASSUME IInv, IInv', OneShotInv, [Next]_vars
    PROVE  OneShotInv'
<1> USE DEF IInv
<1>1. ASSUME NEW c \in Configs, Launch(c)
      PROVE  OneShotInv'
  BY <1>1, TransferAssumption DEF Launch, OneShotInv, OneShot, Resent, TypeOK, ImportSet, senderVars,
                              storeVars
<1>2. CASE RecvBlock
  BY <1>2 DEF RecvBlock, WithinLimit, OneShotInv, OneShot, Resent, senderVars, storeVars
<1>3. CASE Write \/ WriteTimesOut
  <2> DEFINE new == [from |-> origin[peer], via |-> peer, agent |-> heard.plain.label,
                     doc |-> heard.plain.doc, opts |-> cfg, run |-> runs]
  <2>1. /\ recvPc = "writing" /\ WriteStore /\ UNCHANGED <<origin, runs, total>>
        /\ recvPc' \in {"written", "exited"}
    BY <1>3 DEF Write, WriteTimesOut, ReceiverExits, senderVars
  <2>2. imports' = imports \cup {new}
    BY <2>1, WriteStoreTypes
  <2>3. \A i \in imports : i.via # peer /\ i.run # runs
    BY <2>1 DEF ReceiverInv, ImportedVia, OneShotInv
  <2>4. /\ new.from = origin[peer] /\ new.via = peer /\ new.run = runs /\ runs \in Nat
        /\ peer \in Salts
    BY <2>1 DEF TypeOK, ReceiverInv
  <2>5. OneShot'
    <3>1. \A i, j \in imports' : i.run = j.run \/ i.via = j.via => i = j
      BY <2>2, <2>3, <2>4 DEF OneShotInv, OneShot
    <3>2. \A i \in imports' : i.via \in Salts /\ i.from = origin'[i.via]
      BY <2>1, <2>2, <2>4 DEF OriginInv, TypeOK, ImportSet
    <3> QED
      BY <3>1, <3>2, TwiceMeansResent
  <2> QED
    BY <2>1, <2>2, <2>4, <2>5 DEF OneShotInv
<1>4. CASE UNCHANGED <<imports, runs, total>> /\ (recvPc' \in BeforeWrite => recvPc \in BeforeWrite)
  <2>1. OneShot'
    <3>1. \A i, j \in imports' : i.run = j.run \/ i.via = j.via => i = j
      BY <1>4 DEF OneShotInv, OneShot
    <3>2. \A i \in imports' : i.via \in Salts /\ i.from = origin'[i.via]
      BY <1>4 DEF OriginInv, TypeOK, ImportSet
    <3> QED
      BY <3>1, <3>2, TwiceMeansResent
  <2> QED
    BY <1>4, <2>1 DEF OneShotInv, BeforeWrite
<1> QED
  BY <1>1, <1>2, <1>3, <1>4, OnlyAFewStepsCount

(* Each connection is imported from once, and each run imports one frame;   *)
(* no run ever takes more than it may.                                      *)
THEOREM NothingTwice == Spec => []OneShotInv
<1>1. Init => OneShotInv
  BY TransferAssumption DEF Init, OneShotInv, OneShot
<1>2. IInv /\ IInv' /\ OneShotInv /\ [Next]_vars => OneShotInv'
  BY OneShotStep
<1> QED
  BY <1>1, <1>2, InductiveInvariant, PTL DEF Spec

(* A frame is imported twice only when it was sent again: the tool itself   *)
(* never does it, and does not prevent it.                                  *)
THEOREM OnceOnly == Spec => []OneShot
<1>1. OneShotInv => OneShot
  BY DEF OneShotInv
<1> QED
  BY <1>1, NothingTwice, PTL
---------------------------------------------------------------------------
(* Neither side is thrown back. *)

LEMMA ReceiverProceeds ==
    ASSUME IInv, OneShotInv, OneShotInv', [Next]_vars
    PROVE  /\ Listening => ReceiverLeft' \in 0 .. ReceiverLeft
           /\ ReceiverStep => ReceiverLeft' \in 0 .. ReceiverLeft - 1
<1> USE TransferAssumption DEF IInv, ReceiverLeft
<1>1. total \in Nat /\ total <= MaxPayload /\ MaxPayload \in Nat /\ ReceiverLeft \in Nat
  BY DEF TypeOK, OneShotInv
<1>2. CASE RecvBlock
  BY <1>1, <1>2 DEF RecvBlock, WithinLimit, Listening
<1>3. CASE RecvEof \/ Validate \/ Write
  BY <1>1, <1>3 DEF RecvEof, Validate, Write, Listening
<1>4. CASE recvPc' = "exited"
  <2>1. ReceiverStep => recvPc \in {"reading", "deciding", "writing", "written"}
    BY DEF ReceiverStep, RecvBlock, RecvTooMuch, RecvIdle, RecvEof, RecvEmpty, Refuse, RefuseSilently,
           Validate, Write, WriteFails, WriteTimesOut, Report, ReportRaises
  <2> QED
    BY <1>1, <1>4, <2>1 DEF Listening
<1>5. ASSUME ReceiverStep \/ RecvFails \/ ReceiverInterrupted
      PROVE  RecvBlock \/ RecvEof \/ Validate \/ Write \/ recvPc' = "exited"
  BY <1>5 DEF ReceiverStep, RecvTooMuch, RecvIdle, RecvEmpty, Refuse, RefuseSilently, WriteFails,
              WriteTimesOut, Report, ReportRaises, RecvFails, ReceiverInterrupted, GivesUp, GivesUpWith,
              AcksAndExits, ReceiverExits
<1>6. CASE /\ ~ReceiverStep
           /\ \/ UNCHANGED <<recvPc, total>>
              \/ recvPc = "listening" /\ recvPc' = "reading" /\ UNCHANGED total
              \/ ~Listening
  BY <1>1, <1>6 DEF Listening
<1>7. ASSUME ~ReceiverStep, ~RecvFails, ~ReceiverInterrupted
      PROVE  \/ UNCHANGED <<recvPc, total>>
             \/ recvPc = "listening" /\ recvPc' = "reading" /\ UNCHANGED total
             \/ ~Listening
  BY <1>7
     DEF Next, SendStart, Replay, Connect, SenderStep, SendBlock, Shutdown, SendFails, ReceiveAck, LoseAck,
         AckTimeout, SenderInterrupted, SenderExits, Launch, Accept, NetworkStep, Corrupt, GarbleReply,
         StaleReply, Tick, vars, recvVars, Listening
<1> QED
  BY <1>2, <1>3, <1>4, <1>5, <1>6, <1>7

LEMMA SenderProceeds ==
    ASSUME IInv, NEW s \in Salts, [Next]_vars
    PROVE  /\ sendPc[s] # "idle" => SenderLeft(s)' \in 0 .. SenderLeft(s)
           /\ SenderStep(s) => SenderLeft(s)' \in 0 .. SenderLeft(s) - 1
<1> USE DEF IInv, SenderLeft
<1>1. left[s] \in Nat /\ SenderLeft(s) \in Nat
  BY DEF TypeOK
<1>2. ASSUME UNCHANGED <<sendPc[s], left[s]>>, ~SenderStep(s)
      PROVE  /\ sendPc[s] # "idle" => SenderLeft(s)' \in 0 .. SenderLeft(s)
             /\ SenderStep(s) => SenderLeft(s)' \in 0 .. SenderLeft(s) - 1
  BY <1>1, <1>2
<1>3. ASSUME sendPc'[s] = "done", sendPc[s] \in {"connecting", "sending", "waiting"}
      PROVE  /\ sendPc[s] # "idle" => SenderLeft(s)' \in 0 .. SenderLeft(s)
             /\ SenderStep(s) => SenderLeft(s)' \in 0 .. SenderLeft(s) - 1
  BY <1>1, <1>3
<1>4. CASE SendBlock(s)
  BY <1>1, <1>4 DEF SendBlock, TypeOK
<1>5. CASE Shutdown(s)
  BY <1>1, <1>5 DEF Shutdown, TypeOK
<1>6. CASE SendFails(s) \/ ReceiveAck(s) \/ LoseAck(s) \/ AckTimeout(s) \/ SenderInterrupted(s)
  BY <1>3, <1>6 DEF SendFails, ReceiveAck, LoseAck, AckTimeout, SenderInterrupted, SenderExits, TypeOK
<1>7. CASE Connect(s)
  BY <1>1, <1>7 DEF Connect, SenderStep, SendBlock, Shutdown, SendFails, ReceiveAck, LoseAck, AckTimeout,
                    TypeOK
<1>8. ASSUME ~SenderStep(s), ~SenderInterrupted(s), ~Connect(s), sendPc[s] # "idle"
      PROVE  UNCHANGED <<sendPc[s], left[s]>>
  <2>1. ASSUME NEW t \in Salts, NEW j \in Jobs, SendStart(t, j)
        PROVE  UNCHANGED <<sendPc[s], left[s]>>
    BY <1>8, <2>1 DEF SendStart, TypeOK
  <2>2. ASSUME NEW t \in Salts, Connect(t) \/ SenderStep(t) \/ SenderInterrupted(t)
        PROVE  UNCHANGED <<sendPc[s], left[s]>>
    <3>1. t # s
      BY <1>8, <2>2
    <3> QED
      BY <2>2, <3>1
         DEF Connect, SenderStep, SendBlock, Shutdown, SendFails, ReceiveAck, LoseAck, AckTimeout,
             SenderInterrupted, SenderExits, TypeOK
  <2>3. CASE ReceiverStep \/ RecvFails \/ ReceiverInterrupted
    BY <2>3
       DEF ReceiverStep, RecvBlock, RecvTooMuch, RecvIdle, RecvEof, RecvEmpty, Refuse, RefuseSilently,
           Validate, Write, WriteFails, WriteTimesOut, Report, ReportRaises, RecvFails,
           ReceiverInterrupted, GivesUp, GivesUpWith, AcksAndExits, ReceiverExits, senderVars
  <2>4. CASE \/ \E c \in Configs : Launch(c)
             \/ \E t \in Salts : Accept(t)
             \/ NetworkStep \/ Tick \/ UNCHANGED vars
    BY <2>4 DEF Launch, Accept, NetworkStep, Corrupt, GarbleReply, StaleReply, Tick, vars, senderVars
  <2>5. ASSUME NEW r \in Replayers, NEW t \in Salts, Replay(r, t)
        PROVE  UNCHANGED <<sendPc[s], left[s]>>
    BY <1>8, <2>5 DEF Replay, TypeOK
  <2> QED
    BY <2>1, <2>2, <2>3, <2>4, <2>5 DEF Next
<1>9. sendPc[s] = "idle" => ~SenderStep(s)
  BY DEF SenderStep, SendBlock, Shutdown, SendFails, ReceiveAck, LoseAck, AckTimeout
<1> QED
  BY <1>2, <1>4, <1>5, <1>6, <1>7, <1>8, <1>9 DEF SenderStep

(* Both sides of a transfer make a bounded number of steps, for frames and  *)
(* limits of every size and any number of senders.                          *)
THEOREM NobodyIsThrownBack == Spec => NoStepBack
<1>1. IInv /\ OneShotInv /\ OneShotInv' /\ [Next]_vars =>
        [/\ Listening => ReceiverLeft' \in 0 .. ReceiverLeft
         /\ ReceiverStep => ReceiverLeft' \in 0 .. ReceiverLeft - 1
         /\ \A s \in Salts :
               /\ sendPc[s] # "idle" => SenderLeft(s)' \in 0 .. SenderLeft(s)
               /\ SenderStep(s) => SenderLeft(s)' \in 0 .. SenderLeft(s) - 1]_vars
  BY ReceiverProceeds, SenderProceeds
<1> QED
  BY <1>1, InductiveInvariant, NothingTwice, PTL DEF Spec, NoStepBack
---------------------------------------------------------------------------
(* Transfer implements TransferPromise. *)

OnTheWay == {<<origin[c], c>> : c \in {s \in Salts : sendPc[s] # "idle"}}

Imported == {<<i.from, i.via>> : i \in imports}

Answers == [s \in Salts |-> Told(s)]

SameView == UNCHANGED <<OnTheWay, Imported, Answers>>

LEMMA StillOnTheWay ==
    ASSUME UNCHANGED origin, \A s \in Salts : sendPc'[s] = "idle" <=> sendPc[s] = "idle"
    PROVE  UNCHANGED OnTheWay
BY DEF OnTheWay

LEMMA SameAnswers ==
    ASSUME \A s \in Salts : outcome'[s] = outcome[s]
    PROVE  UNCHANGED Answers
<1>1. \A s \in Salts : Told(s)' = Told(s)
  BY DEF Told
<1> QED
  BY <1>1 DEF Answers

(* A frame somebody has sent again is on a second carrier. *)
LEMMA ResentAgain ==
    ASSUME IInv, NEW s \in Salts, Resent(s)
    PROVE  \E c \in Salts \ {s} : <<s, c>> \in OnTheWay
<1>1. PICK c \in Salts \ {s} : origin[c] = s
  BY DEF Resent
<1>2. sendPc[c] # "idle"
  BY <1>1 DEF IInv, OriginInv
<1> QED
  BY <1>1, <1>2 DEF OnTheWay

(* A sender that has not reported yet, reporting. *)
LEMMA ExitTells ==
    ASSUME IInv, IInv', NEW s \in Salts, sendPc[s] \notin {"idle", "done"},
           NEW o \in {"unsent", "unknown", "interrupted"} \cup Statuses, SenderExits(s, o)
    PROVE  \E answer \in {"ok", "refused", "unsure"} : Promise!Tell(s, answer)
<1>1. /\ UNCHANGED <<imports, origin>> /\ outcome[s] = "none" /\ sendPc'[s] = "done"
      /\ outcome' = [outcome EXCEPT ![s] = o] /\ outcome'[s] = o
      /\ \A t \in Salts : t # s => outcome'[t] = outcome[t]
  BY DEF SenderExits, IInv, SendersInv, TypeOK, storeVars
<1>2. Told(s) = "pending" /\ Told(s)' \in {"ok", "refused", "unsure"}
  BY <1>1 DEF Told, Statuses
<1>3. Answers' = [Answers EXCEPT ![s] = Told(s)']
  <2>1. \A t \in Salts : t # s => Told(t)' = Told(t)
    BY <1>1 DEF Told
  <2> QED
    BY <2>1 DEF Answers
<1>4. UNCHANGED <<OnTheWay, Imported>>
  <2>1. \A t \in Salts : sendPc'[t] = "idle" <=> sendPc[t] = "idle"
    BY DEF SenderExits, IInv, TypeOK
  <2> QED
    BY <1>1, <2>1, StillOnTheWay DEF Imported
<1>5. ASSUME Told(s)' = "ok"
      PROVE  \E c \in Salts : <<s, c>> \in Imported
  <2>1. Landed(s)'
    BY <1>1, <1>5 DEF Told, IInv, SendersInv, TellsTruth, Statuses
  <2>2. PICK i \in imports : i.from = s
    BY <1>1, <2>1 DEF Landed
  <2>3. i.via \in Salts
    BY DEF IInv, TypeOK, ImportSet
  <2> QED
    BY <2>2, <2>3 DEF Imported
<1>6. ASSUME Told(s)' = "refused"
      PROVE  (\E c \in Salts \ {s} : <<s, c>> \in OnTheWay) \/ <<s, s>> \notin Imported
  <2>1. Barred(s)' \/ Resent(s)'
    BY <1>1, <1>6 DEF Told, IInv, SendersInv, TellsTruth, Statuses
  <2>2. CASE Barred(s)'
    BY <1>1, <2>2 DEF Barred, ImportedVia, Imported
  <2>3. CASE Resent(s)'
    BY <1>1, <2>3, ResentAgain DEF Resent
  <2> QED
    BY <2>1, <2>2, <2>3
<1>7. Promise!Tell(s, Told(s)')
  BY <1>1, <1>2, <1>3, <1>4, <1>5, <1>6
     DEF Promise!Tell, Promise!Again, OnTheWay, Imported, Answers
<1> QED
  BY <1>2, <1>7

LEMMA ViewIsAll ==
    ASSUME SameView
    PROVE  UNCHANGED Promise!vars
BY DEF SameView, Promise!vars, OnTheWay, Imported, Answers

LEMMA SenderRefines ==
    ASSUME IInv, IInv', NEW s \in Salts,
           Connect(s) \/ SenderStep(s) \/ SenderInterrupted(s)
    PROVE  Promise!Next \/ UNCHANGED Promise!vars
<1>1. CASE Connect(s) \/ SendBlock(s) \/ Shutdown(s)
  <2>1. /\ UNCHANGED <<outcome, imports, origin>>
        /\ \A t \in Salts : sendPc'[t] = "idle" <=> sendPc[t] = "idle"
    BY <1>1 DEF Connect, SendBlock, Shutdown, storeVars, IInv, TypeOK
  <2> QED
    BY <2>1, SameAnswers, StillOnTheWay, ViewIsAll DEF SameView, Imported
<1>2. CASE SendFails(s) \/ ReceiveAck(s) \/ LoseAck(s) \/ AckTimeout(s) \/ SenderInterrupted(s)
  <2>1. PICK o \in {"unsent", "unknown", "interrupted"} \cup Statuses : SenderExits(s, o)
    <3>1. \A ack \in {Nothing, reply[s]} \cup (IF reply[s] = Nothing THEN {} ELSE {Garbled(reply[s])}) :
             ReportSendAck(s, ack) \in {"unknown"} \cup Statuses
      BY ReportTypes, GarbledTypes DEF IInv, TypeOK
    <3> QED
      BY <1>2, <3>1 DEF SendFails, ReceiveAck, LoseAck, AckTimeout, SenderInterrupted
  <2>2. sendPc[s] \notin {"idle", "done"}
    BY <1>2 DEF SendFails, ReceiveAck, LoseAck, AckTimeout, SenderInterrupted
  <2> QED
    BY <2>1, <2>2, ExitTells DEF Promise!Next
<1> QED
  BY <1>1, <1>2 DEF SenderStep

LEMMA SendRefines ==
    ASSUME IInv, NEW s \in Salts, NEW j \in Jobs, SendStart(s, j)
    PROVE  Promise!Next
<1>1. /\ sendPc[s] = "idle" /\ UNCHANGED <<outcome, imports, origin>> /\ origin[s] = s
      /\ \A c \in Salts : sendPc'[c] # "idle" <=> sendPc[c] # "idle" \/ c = s
  BY DEF SendStart, storeVars, IInv, TypeOK, OriginInv
<1>2. OnTheWay' = OnTheWay \cup {<<s, s>>}
  BY <1>1 DEF OnTheWay
<1>3. \A u \in Salts : <<u, s>> \notin OnTheWay
  BY <1>1 DEF OnTheWay
<1>4. UNCHANGED <<Imported, Answers>>
  BY <1>1, SameAnswers DEF Imported
<1>5. Promise!Send(s, s)
  BY <1>2, <1>3, <1>4 DEF Promise!Send, OnTheWay, Imported, Answers
<1> QED
  BY <1>1, <1>5 DEF Promise!Next

LEMMA ReplayRefines ==
    ASSUME IInv, NEW r \in Replayers, NEW t \in Salts, Replay(r, t)
    PROVE  Promise!Next
<1>1. /\ sendPc[r] = "idle" /\ UNCHANGED <<outcome, imports>> /\ r \in Salts
      /\ sendPc[t] # "idle" /\ origin[t] = t /\ origin \in [Salts -> Salts]
      /\ origin' = [origin EXCEPT ![r] = t]
      /\ \A c \in Salts : sendPc'[c] # "idle" <=> sendPc[c] # "idle" \/ c = r
  BY TransferAssumption DEF Replay, storeVars, IInv, TypeOK, OriginInv
<1>2. OnTheWay' = OnTheWay \cup {<<t, r>>}
  BY <1>1 DEF OnTheWay
<1>3. <<t, t>> \in OnTheWay /\ \A u \in Salts : <<u, r>> \notin OnTheWay
  BY <1>1 DEF OnTheWay
<1>4. UNCHANGED <<Imported, Answers>>
  BY <1>1, SameAnswers DEF Imported
<1>5. Promise!Send(t, r)
  BY <1>1, <1>2, <1>3, <1>4 DEF Promise!Send, OnTheWay, Imported, Answers
<1> QED
  BY <1>1, <1>5 DEF Promise!Next

LEMMA WriteRefines ==
    ASSUME IInv, IInv', Write \/ WriteTimesOut
    PROVE  Promise!Next
<1> DEFINE t == origin[peer]
<1>1. recvPc = "writing" /\ WriteStore /\ UNCHANGED <<outcome, sendPc, origin>>
  BY DEF Write, WriteTimesOut, ReceiverExits, senderVars
<1>2. /\ peer \in Salts /\ link[peer] = "open" /\ ~ImportedVia(peer) /\ sendPc[peer] # "idle"
      /\ t \in Salts
  BY <1>1 DEF IInv, ReceiverInv, OriginInv, TypeOK
<1>3. Imported' = Imported \cup {<<t, peer>>}
  <2>1. PICK new : new.from = t /\ new.via = peer /\ imports' = imports \cup {new}
    BY <1>1 DEF WriteStore
  <2> QED
    BY <2>1 DEF Imported
<1>4. <<t, peer>> \in OnTheWay \ Imported
  BY <1>2 DEF OnTheWay, Imported, ImportedVia
<1>5. ASSUME Told(t) = "refused"
      PROVE  \E c \in Salts \ {t} : <<t, c>> \in OnTheWay
  <2>1. Barred(t) \/ Resent(t)
    BY <1>2, <1>5 DEF Told, IInv, SendersInv, TellsTruth, Statuses, TypeOK
  <2>2. CASE Barred(t)
    BY <1>2, <1>4, <2>2 DEF Barred
  <2> QED
    BY <1>2, <2>1, <2>2, ResentAgain
<1>6. UNCHANGED <<OnTheWay, Answers>>
  BY <1>1, SameAnswers, StillOnTheWay
<1>7. Answers[t] = Told(t)
  BY <1>2 DEF Answers
<1>8. PICK u, c \in Salts : u = t /\ c = peer
  BY <1>2
<1>9. Promise!Land(u, c)
  BY <1>3, <1>4, <1>5, <1>6, <1>7, <1>8
     DEF Promise!Land, Promise!Again, OnTheWay, Imported, Answers
<1> QED
  BY <1>8, <1>9 DEF Promise!Next

LEMMA StepRefines ==
    ASSUME IInv, IInv', [Next]_vars
    PROVE  Promise!Next \/ UNCHANGED Promise!vars
<1>1. ASSUME NEW s \in Salts, Connect(s) \/ SenderStep(s) \/ SenderInterrupted(s)
      PROVE  Promise!Next \/ UNCHANGED Promise!vars
  BY <1>1, SenderRefines
<1>2. CASE Write \/ WriteTimesOut
  BY <1>2, WriteRefines
<1>3. CASE UNCHANGED <<sendPc, origin, outcome, imports>>
  BY <1>3, SameAnswers, StillOnTheWay, ViewIsAll DEF SameView, Imported
<1>4. ASSUME NEW s \in Salts, NEW j \in Jobs, SendStart(s, j)
      PROVE  Promise!Next
  BY <1>4, SendRefines DEF SendStart
<1>5. ASSUME NEW r \in Replayers, NEW t \in Salts, Replay(r, t)
      PROVE  Promise!Next
  BY <1>5, ReplayRefines
<1>6. ASSUME \/ \E c \in Configs : Launch(c)
             \/ \E s \in Salts : Accept(s)
             \/ ReceiverStep \/ RecvFails \/ ReceiverInterrupted,
             ~(Write \/ WriteTimesOut)
      PROVE  UNCHANGED <<sendPc, origin, outcome, imports>>
  BY <1>6
     DEF Launch, Accept, ReceiverStep, RecvBlock, RecvTooMuch, RecvIdle, RecvEof, RecvEmpty, Refuse,
         RefuseSilently, Validate, WriteFails, Report, ReportRaises, RecvFails, ReceiverInterrupted,
         GivesUp, GivesUpWith, AcksAndExits, ReceiverExits, senderVars, storeVars
<1>7. CASE NetworkStep \/ Tick \/ UNCHANGED vars
  BY <1>3, <1>7
     DEF NetworkStep, Corrupt, GarbleReply, StaleReply, Tick, vars, senderVars, storeVars
<1> QED
  BY <1>1, <1>2, <1>3, <1>4, <1>5, <1>6, <1>7 DEF Next

(* Every behaviour of senders, receiver and replayers is one the promise    *)
(* allows: at most one landing per carrier, "ok" only after one, and none   *)
(* after a refusal but by a copy.                                           *)
THEOREM TransferKeepsPromise == Spec => KeepsPromise
<1>1. Init => Promise!Init
  BY DEF Init, Promise!Init, Told
<1>2. IInv /\ IInv' /\ [Next]_vars => [Promise!Next]_Promise!vars
  BY StepRefines
<1> QED
  BY <1>1, <1>2, InductiveInvariant, PTL DEF Spec, KeepsPromise, Promise!Spec
===========================================================================
