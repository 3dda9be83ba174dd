--------------------------- MODULE CommandsProofs ---------------------------
(***************************************************************************)
(* Proofs about Commands, for any number of processes, accounts and calls, *)
(* for both platforms and both kinds of token server.                      *)
(***************************************************************************)
EXTENDS Commands, TLAPS

LEMMA Choices == AnyCall \in Calls /\ AuthPath \in Accounts
BY CommandsAssumption DEF AnyCall, AuthPath

LEMMA CallTypes ==
    ASSUME NEW c \in Calls
    PROVE  /\ c.mode \in Modes /\ c.agent \in Agents /\ c.force \in BOOLEAN
           /\ c.doc \in Docs /\ c.doc.token <= 1
BY CommandsAssumption DEF CallSet

LEMMA StoredTypes ==
    ASSUME NEW a \in Agents, NEW d \in Docs
    PROVE  /\ Stored(a, d) \in Docs /\ Stored(a, d).token = d.token /\ Stored(a, d).rest = d.rest
           /\ Stored("codex", d) = d
           /\ Usable(a, d) => Usable(a, Stored(a, d))
<1>1. CASE a = "claude" /\ ~KeychainService
  <2>1. Stored(a, d) = [form |-> "object", shape |-> d.shape, exp |-> d.exp, due |-> d.due,
                        token |-> d.token, rest |-> d.rest]
    BY <1>1 DEF Stored, Docs
  <2>2. Stored("codex", d) = d
    BY DEF Stored
  <2> QED
    BY <1>1, <2>1, <2>2 DEF Docs, Forms, Usable, Parses, Shaped
<1>2. CASE ~(a = "claude" /\ ~KeychainService)
  BY <1>2 DEF Stored
<1> QED
  BY <1>1, <1>2

LEMMA MergedTypes ==
    ASSUME TypeOK, NEW p \in Processes, NEW d \in Docs
    PROVE  /\ Merged(p, d) \in Docs /\ Merged(p, d).token = fresh[p] /\ Merged(p, d).rest = d.rest
           /\ sound[p] => Usable("claude", Merged(p, d))
<1> DEFINE shape == IF sound[p] THEN "claude" ELSE "neither"
<1>1. Merged(p, d) = [form |-> "object", shape |-> shape, exp |-> d.exp, due |-> "fine",
                      token |-> fresh[p], rest |-> d.rest]
  BY DEF Merged
<1>2. fresh[p] \in Nat /\ d.exp \in Nat /\ d.rest \in Nat
  BY DEF TypeOK, Docs
<1>3. "object" \in Forms /\ shape \in Shapes
  BY DEF Forms, Shapes, Agents
<1>4. Merged(p, d) \in Docs
  BY <1>1, <1>2, <1>3 DEF Docs
<1> QED
  BY <1>1, <1>4 DEF Usable, Parses, Shaped

LEMMA ItemTypes ==
    ASSUME TypeOK, NEW n \in Existing
    PROVE  /\ n \in Accounts /\ n \in Places /\ store[n] \in Docs
           /\ store[n].token \in Held /\ store[n].rest \in Versions
           /\ store[n].token \in Nat /\ store[n].rest \in Nat
<1>1. n \in Accounts /\ n \in Places /\ store[n] \in Docs
  BY DEF TypeOK, Existing, Places
<1> QED
  BY <1>1 DEF Held, Versions, Docs

LEMMA TokenTypes ==
    ASSUME TypeOK
    PROVE  Held \subseteq Nat /\ Versions \subseteq Nat
BY ItemTypes DEF Held, Versions
---------------------------------------------------------------------------
(* Steps of one process leave the locals of the others as they are. *)

OthersSame(p) ==
    \A q \in Processes \ {p} :
        /\ pc'[q] = pc[q] /\ call'[q] = call[q] /\ payload'[q] = payload[q]
        /\ fresh'[q] = fresh[q] /\ sound'[q] = sound[q]
        /\ account'[q] = account[q] /\ forceWrite'[q] = forceWrite[q]

LEMMA OthersKeep ==
    ASSUME NEW p, OthersSame(p), NEW q \in Processes, q # p
    PROVE  /\ Known(q)' = Known(q) /\ Holding(q)' = Holding(q)
           /\ UsesKeychain(q)' = UsesKeychain(q)
           /\ pc'[q] = pc[q] /\ payload'[q] = payload[q] /\ fresh'[q] = fresh[q]
           /\ account'[q] = account[q]
           /\ Stage(q) => Stage(q)'
BY DEF OthersSame, Known, Holding, UsesKeychain, Stage, Mode, Agent

(* A step of a process that leaves store and server alone. *)
LocalStep(p) ==
    /\ OthersSame(p)
    /\ \A q \in Processes \ {p} : raced'[q] = raced[q] /\ since'[q] = since[q]
    /\ UNCHANGED <<store, live, issued, rotates>>

LEMMA LocalInv ==
    ASSUME IInv, NEW p \in Processes, LocalStep(p), TypeOK', Stage(p)', NotOvertaken(p)', Late(p)',
           payload'[p].token <= issued, fresh'[p] <= issued,
           \/ Known(p)' = {}
           \/ ~raced'[p] => ~raced[p] /\ \/ Known(p)' = Known(p)
                                         \/ Known(p)' \subseteq Held /\ Single,
           excused \subseteq excused',
           Holding(p)' => Holding(p) /\ fresh'[p] = fresh[p],
           Holding(p) => (Holding(p)' /\ fresh'[p] = fresh[p]) \/ fresh[p] \in excused'
    PROVE  IInv'
<1>0. OthersSame(p) /\ UNCHANGED <<store, live, issued, rotates, Held, Existing, Versions, Single>>
  BY DEF LocalStep, Held, Existing, Versions, Single
<1>1. \A q \in Processes : Stage(q)' /\ NotOvertaken(q)' /\ Late(q)'
  <2>1. ASSUME NEW q \in Processes, q # p
        PROVE  Stage(q)' /\ NotOvertaken(q)' /\ Late(q)'
    BY <1>0, <2>1, OthersKeep DEF IInv, LocalStep, NotOvertaken, Late
  <2> QED
    BY <2>1
<1>2. Numbered'
  BY <1>0, OthersKeep DEF IInv, Numbered
<1>3. OneLive'
  <2>1. \A q \in Processes \ {p} : Known(q)' = Known(q) /\ raced'[q] = raced[q]
    BY <1>0, OthersKeep DEF LocalStep
  <2>2. CASE Known(p)' = {}
    BY <1>0, <2>1, <2>2 DEF IInv, OneLive
  <2>3. CASE raced'[p]
    BY <1>0, <2>1, <2>3 DEF IInv, OneLive
  <2>4. CASE ~raced'[p] /\ ~raced[p] /\ Known(p)' = Known(p)
    BY <1>0, <2>1, <2>4 DEF IInv, OneLive
  <2>5. CASE ~raced'[p] /\ ~raced[p] /\ Known(p)' \subseteq Held /\ Single
    <3>1. \A s, t \in Held : s = t
      BY <2>5 DEF Held, Single
    <3>2. \A t \in Known(p)' : t \in Held
      BY <2>5
    <3> QED
      BY <1>0, <2>1, <2>5, <3>1, <3>2 DEF IInv, OneLive
  <2> QED
    BY <2>2, <2>3, <2>4, <2>5
<1>4. Custody'
  <2> SUFFICES ASSUME NEW t \in live, t \notin Held, t \notin excused'
               PROVE  \E q \in Processes : Holding(q)' /\ t = fresh'[q]
    BY <1>0 DEF Custody
  <2> PICK q \in Processes : Holding(q) /\ t = fresh[q]
    BY DEF IInv, Custody
  <2> QED
    BY <1>0, OthersKeep
<1>5. \A q \in Processes : Alone(q)'
  <2> SUFFICES ASSUME NEW q \in Processes, Holding(q)'
               PROVE  IF rotates
                      THEN ~raced'[q] => /\ Held \cap live = {}
                                         /\ \A r \in Processes \ {q} : ~raced'[r] => Known(r)' \cap live = {}
                      ELSE fresh'[q] \in live \cup {0}
    BY <1>0 DEF Alone
  <2>1. Holding(q) /\ fresh'[q] = fresh[q] /\ Known(q)' # {}
    <3>1. Known(q)' = {fresh'[q]}
      BY DEF Known, Holding
    <3>2. Holding(q) /\ fresh'[q] = fresh[q]
      BY <1>0, OthersKeep
    <3> QED
      BY <3>1, <3>2
  <2>2. \A r \in Processes \ {p} : Known(r)' = Known(r) /\ raced'[r] = raced[r]
    BY <1>0, OthersKeep DEF LocalStep
  <2>3. CASE ~rotates
    BY <2>1, <2>3 DEF IInv, Alone
  <2>4. CASE rotates /\ ~raced'[q] /\ ~raced[q]
    BY <2>1, <2>2, <2>4 DEF IInv, Alone
  <2>5. ~raced'[q] => ~raced[q]
    BY <2>1, <2>2
  <2> QED
    BY <2>3, <2>4, <2>5
<1> QED
  BY <1>1, <1>2, <1>3, <1>4, <1>5 DEF IInv
---------------------------------------------------------------------------
(* The steps of a process that change only itself *)

LEMMA StartInv ==
    ASSUME IInv, NEW p \in Processes, NEW c \in Calls, Start(p, c)
    PROVE  IInv'
<1> USE DEF IInv
<1>1. /\ pc' = [pc EXCEPT ![p] = "entered"] /\ call' = [call EXCEPT ![p] = c]
      /\ exit' = [exit EXCEPT ![p] = "none"] /\ calls' = calls + 1
      /\ raced' = [raced EXCEPT ![p] = ~Single]
      /\ UNCHANGED <<payload, fresh, sound, account, store, live, issued, rotates, edits, since, excused>>
  BY DEF Start, serverVars
<1>2. /\ backend' \in [Processes -> Agents]
      /\ forceWrite' \in [Processes -> BOOLEAN]
      /\ \A q \in Processes \ {p} : forceWrite'[q] = forceWrite[q]
      /\ c.mode = "import" /\ c.agent = "codex" => forceWrite'[p] = c.force
  <2>1. CASE c.mode = "request"
    BY <2>1 DEF Start, TypeOK
  <2>2. CASE c.mode # "request"
    <3> PICK a \in {c.agent} \cup (IF c.mode = "receive" THEN {"claude"} ELSE {}) :
               SetBackend(p, a, c.mode = "import" /\ c.force)
      BY <2>2 DEF Start
    <3>1. a \in Agents /\ (c.mode = "import" => a = c.agent)
      BY CallTypes DEF Agents
    <3>2. (c.mode = "import" /\ c.force) \in BOOLEAN
      OBVIOUS
    <3> QED
      BY <3>1, <3>2, CallTypes DEF SetBackend, TypeOK
  <2> QED
    BY <2>1, <2>2
<1>3. TypeOK'
  <2>1. (~Single) \in BOOLEAN
    BY Zenon
  <2>2. raced' \in [Processes -> BOOLEAN]
    BY <1>1, <2>1 DEF TypeOK
  <2> QED
    BY <1>1, <1>2, <2>2 DEF TypeOK
<1>4. LocalStep(p)
  BY <1>1, <1>2 DEF LocalStep, OthersSame, TypeOK
<1>5. pc'[p] = "entered" /\ call'[p] = c /\ raced'[p] = ~Single
  BY <1>1 DEF TypeOK
<1>6. Stage(p)' /\ Late(p)' /\ Known(p)' = {} /\ ~Holding(p)'
  BY <1>2, <1>5 DEF Stage, Late, Known, Holding, Mode, Agent
<1>7. NotOvertaken(p)'
  BY <1>1, <1>5 DEF NotOvertaken, Single, Existing
<1>8. ~Holding(p)
  BY DEF Start, Holding
<1> QED
  BY <1>1, <1>3, <1>4, <1>6, <1>7, <1>8, LocalInv DEF Numbered

(* What ToWrite leads to. *)
LEMMA ToWriteTypes ==
    ASSUME IInv, NEW p \in Processes, NEW d \in Docs, ToWrite(p, d)
    PROVE  /\ pc' = [pc EXCEPT ![p] = IF UsesKeychain(p) THEN "finding" ELSE "writing"]
           /\ pc'[p] = IF UsesKeychain(p) THEN "finding" ELSE "writing"
           /\ payload' = [payload EXCEPT ![p] = d] /\ payload'[p] = d
           /\ account' \in [Processes -> Places]
           /\ \A q \in Processes \ {p} : account'[q] = account[q]
           /\ account'[p] = IF Agent(p) = "codex" THEN "codex" ELSE AuthPath
BY Choices DEF ToWrite, Aim, IInv, TypeOK, Places

LEMMA DispatchInv ==
    ASSUME IInv, NEW p \in Processes, Dispatch(p)
    PROVE  IInv'
<1> USE DEF IInv
<1>1. /\ pc[p] = "entered"
      /\ UNCHANGED <<call, backend, fresh, sound, forceWrite, exit, calls, store, live, issued, rotates,
                     edits, raced, since, excused>>
  BY DEF Dispatch, serverVars
<1>2. call[p] \in Calls /\ call[p].agent \in Agents
  BY CallTypes DEF TypeOK
<1>3. CASE Mode(p) = "import" /\ ToWrite(p, call[p].doc)
  <2>1. call[p].doc \in Docs /\ call[p].doc.token <= issued
    BY <1>2, CallTypes DEF Numbered, TypeOK, Docs
  <2>2. TypeOK' /\ LocalStep(p)
    BY <1>1, <1>3, <2>1, ToWriteTypes DEF TypeOK, LocalStep, OthersSame
  <2>3. Stage(p)'
    BY <1>1, <1>2, <1>3, <2>1, ToWriteTypes, Choices DEF Stage, Holding, UsesKeychain, Mode, Agent, Agents
  <2>4. ~Holding(p) /\ ~Holding(p)' /\ Known(p)' = {}
    BY <1>1, <1>3, <2>1, ToWriteTypes DEF Holding, Known, Mode
  <2>5. NotOvertaken(p)'
    BY <1>1, <1>3, <2>1, ToWriteTypes DEF NotOvertaken, Single, Existing, UsesKeychain, Agent
  <2>6. Late(p)'
    BY <2>4 DEF Late
  <2> QED
    BY <1>1, <1>3, <2>1, <2>2, <2>3, <2>4, <2>5, <2>6, ToWriteTypes, LocalInv DEF Numbered
<1>4. CASE \/ Mode(p) = "refresh" /\ pc' = [pc EXCEPT ![p] = "extracting"]
              /\ UNCHANGED <<payload, account>>
           \/ Mode(p) \in {"receive", "request"} /\ pc' = [pc EXCEPT ![p] = "validating"]
              /\ UNCHANGED <<payload, account>>
  <2>1. pc'[p] \in {"extracting", "validating"} /\ UNCHANGED <<payload, account>>
    BY <1>4 DEF TypeOK
  <2>2. TypeOK' /\ LocalStep(p)
    BY <1>1, <1>4 DEF TypeOK, LocalStep, OthersSame
  <2>3. ~Holding(p) /\ ~Holding(p)' /\ Known(p)' = {}
    BY <1>1, <2>1 DEF Holding, Known
  <2>4. NotOvertaken(p)' /\ Late(p)'
    BY <1>1, <2>1, <2>3 DEF NotOvertaken, Single, Existing, Late
  <2>5. Stage(p)'
    BY <1>1, <1>4, <2>1, <2>3 DEF Stage, Mode, Agent, TypeOK
  <2> QED
    BY <1>1, <2>1, <2>2, <2>3, <2>4, <2>5, LocalInv DEF Numbered
<1> QED
  BY <1>3, <1>4 DEF Dispatch

(* A call that ends without a write. *)
LEMMA LeaveInv ==
    ASSUME IInv, NEW p \in Processes, NEW how \in {"success", "failure"}, Leaves(p, how),
           ResetForce(p) \/ UNCHANGED forceWrite, Forgets(p), UNCHANGED <<store, live, issued>>,
           excused \subseteq excused', excused' \subseteq Nat, Holding(p) => fresh[p] \in excused'
    PROVE  IInv'
<1> USE DEF IInv
<1>1. pc' = [pc EXCEPT ![p] = "idle"] /\ call' = [call EXCEPT ![p] = AnyCall]
      /\ payload' = [payload EXCEPT ![p] = FirstDoc] /\ fresh' = [fresh EXCEPT ![p] = 0]
      /\ sound' = [sound EXCEPT ![p] = TRUE] /\ account' = [account EXCEPT ![p] = "codex"]
      /\ exit' = [exit EXCEPT ![p] = how]
      /\ raced' = [raced EXCEPT ![p] = FALSE] /\ since' = [since EXCEPT ![p] = {}]
      /\ UNCHANGED <<backend, calls, rotates, edits>>
  BY DEF Leaves, Forgets
<1>2. forceWrite' \in [Processes -> BOOLEAN] /\ \A q \in Processes \ {p} : forceWrite'[q] = forceWrite[q]
  BY DEF ResetForce, TypeOK
<1>3. FirstDoc \in Docs /\ FirstDoc.token = 1 /\ "codex" \in Places
  BY CommandsAssumption DEF Places
<1>4. TypeOK'
  BY <1>1, <1>2, <1>3, Choices DEF TypeOK
<1>5. LocalStep(p)
  BY <1>1, <1>2 DEF LocalStep, OthersSame, TypeOK
<1>6. pc'[p] = "idle" /\ payload'[p] = FirstDoc /\ fresh'[p] = 0
  BY <1>1 DEF TypeOK
<1>7. Stage(p)' /\ NotOvertaken(p)' /\ Late(p)' /\ Known(p)' = {} /\ ~Holding(p)'
  BY <1>6 DEF Stage, NotOvertaken, Late, Known, Holding
<1>8. payload'[p].token <= issued /\ fresh'[p] <= issued
  BY <1>3, <1>6 DEF Numbered, TypeOK
<1> QED
  BY <1>4, <1>5, <1>7, <1>8, LocalInv

LEMMA ShowInv ==
    ASSUME IInv, NEW p \in Processes, Show(p)
    PROVE  IInv'
<1>1. pc[p] = "entered" /\ Leaves(p, "success") /\ ResetForce(p) /\ Forgets(p)
      /\ UNCHANGED <<store, live, issued, excused>>
  BY DEF Show, Returns
<1>2. ~Holding(p) /\ excused \subseteq Nat
  BY <1>1 DEF Holding, IInv, TypeOK
<1> QED
  BY <1>1, <1>2, LeaveInv

LEMMA FailsInv ==
    ASSUME IInv, NEW p \in Processes, Fails(p)
    PROVE  IInv'
<1>1. /\ Leaves(p, "failure") /\ (ResetForce(p) \/ UNCHANGED forceWrite) /\ Forgets(p)
      /\ UNCHANGED <<store, live, issued>>
      /\ excused' = excused \cup (IF Holding(p) THEN {fresh[p]} ELSE {})
  BY DEF Fails
<1>2. excused' \subseteq Nat
  BY <1>1 DEF IInv, TypeOK
<1> QED
  BY <1>1, <1>2, LeaveInv

LEMMA ExtractInv ==
    ASSUME IInv, NEW p \in Processes, Extract(p)
    PROVE  IInv'
<1> USE DEF IInv
<1> PICK n \in Existing : payload' = [payload EXCEPT ![p] = store[n]]
  BY DEF Extract
<1>1. /\ pc[p] = "extracting" /\ Agent(p) = "claude" /\ pc' = [pc EXCEPT ![p] = "posting"]
      /\ UNCHANGED <<call, backend, fresh, sound, account, forceWrite, exit, calls, store, live, issued,
                     rotates, edits, raced, since, excused>>
  BY DEF Extract, serverVars
<1>2. TypeOK' /\ LocalStep(p)
  BY <1>1, ItemTypes DEF TypeOK, LocalStep, OthersSame
<1>3. pc'[p] = "posting" /\ payload'[p] = store[n] /\ store[n].token \in Held
  BY <1>1, ItemTypes DEF TypeOK
<1>4. ~Holding(p) /\ ~Holding(p)' /\ Known(p)' \subseteq Held
  BY <1>1, <1>3 DEF Holding, Known
<1>5. NotOvertaken(p)' /\ Late(p)' /\ Stage(p)'
  BY <1>1, <1>3, <1>4 DEF NotOvertaken, Single, Existing, Late, Stage, Mode, Agent
<1>6. raced' = raced /\ (~raced[p] => Single)
  BY <1>1 DEF NotOvertaken
<1> QED
  BY <1>1, <1>2, <1>3, <1>4, <1>5, <1>6, LocalInv DEF Numbered

LEMMA ReReadInv ==
    ASSUME IInv, NEW p \in Processes, ReRead(p)
    PROVE  IInv'
<1> USE DEF IInv
<1> PICK n \in Existing : ToWrite(p, Merged(p, store[n]))
  BY DEF ReRead
<1>1. /\ pc[p] = "rereading"
      /\ UNCHANGED <<call, backend, fresh, sound, forceWrite, exit, calls, store, live, issued, rotates,
                     edits, raced, since, excused>>
  BY DEF ReRead, serverVars
<1> DEFINE d == Merged(p, store[n])
<1>2. d \in Docs /\ d.token = fresh[p] /\ d.rest \in Versions
      /\ (sound[p] => Usable("claude", d))
  BY ItemTypes, MergedTypes
<1> HIDE DEF d
<1>3. ToWrite(p, d)
  BY DEF d
<1>4. TypeOK' /\ LocalStep(p)
  BY <1>1, <1>2, <1>3, ToWriteTypes DEF TypeOK, LocalStep, OthersSame
<1>5. Holding(p) /\ Mode(p) = "refresh" /\ Agent(p) = "claude"
  BY <1>1 DEF Stage, Holding
<1>6. Holding(p)' /\ Known(p) = {fresh[p]} /\ Known(p)' = {fresh[p]}
  BY <1>1, <1>2, <1>3, <1>5, ToWriteTypes DEF Holding, Known, Mode
<1>7. Late(p)'
  BY <1>1, <1>2, <1>3, <1>5, ToWriteTypes DEF Late, Versions, Existing
<1>8. Stage(p)'
  BY <1>1, <1>2, <1>3, <1>5, <1>6, ToWriteTypes, Choices DEF Stage, UsesKeychain, Mode, Agent
<1>9. NotOvertaken(p)'
  BY <1>1, <1>2, <1>3, ToWriteTypes DEF NotOvertaken, Single, Existing, UsesKeychain, Agent
<1>10. payload'[p].token <= issued /\ fresh'[p] <= issued
  BY <1>1, <1>2, <1>3, ToWriteTypes DEF Numbered
<1> QED
  BY <1>1, <1>4, <1>5, <1>6, <1>7, <1>8, <1>9, <1>10, LocalInv

LEMMA ValidateInv ==
    ASSUME IInv, NEW p \in Processes, Validate(p)
    PROVE  IInv'
<1> USE DEF IInv
<1> DEFINE d == call[p].doc
<1>1. /\ pc[p] = "validating" /\ ToWrite(p, d)
      /\ UNCHANGED <<call, fresh, sound, exit, calls, store, live, issued, rotates, edits, raced, since,
                     excused>>
  BY DEF Validate, serverVars
<1>2. call[p] \in Calls /\ Agent(p) \in Agents /\ d \in Docs /\ d.token <= issued
  BY CallTypes DEF TypeOK, Numbered, Docs, Agent
<1>3. Usable(Agent(p), d)
  BY DEF Validate, ValidateBlob, Usable
<1>4. /\ backend' \in [Processes -> Agents] /\ forceWrite' \in [Processes -> BOOLEAN]
      /\ \A q \in Processes \ {p} : forceWrite'[q] = forceWrite[q]
      /\ Agent(p) = "codex" => forceWrite'[p] = call[p].force
  BY <1>2, CallTypes DEF Validate, SetBackend, TypeOK
<1>5. Mode(p) # "refresh"
  BY <1>1 DEF Stage
<1>6. ~Holding(p) /\ ~Holding(p)' /\ Known(p)' = {}
  BY <1>1, <1>2, <1>5, ToWriteTypes DEF Holding, Known, Mode
<1>7. TypeOK' /\ LocalStep(p)
  <2> HIDE DEF IInv, d
  <2>1. IInv /\ TypeOK
    BY DEF IInv
  <2>2. pc' \in [Processes -> {"idle", "entered", "extracting", "posting", "rereading", "validating",
                              "finding", "writing"}]
        /\ payload' \in [Processes -> Docs] /\ account' \in [Processes -> Places]
        /\ \A q \in Processes \ {p} :
              pc'[q] = pc[q] /\ payload'[q] = payload[q] /\ account'[q] = account[q]
    BY <1>1, <1>2, <2>1, ToWriteTypes DEF TypeOK
  <2>3. TypeOK'
    BY <1>1, <1>4, <2>1, <2>2 DEF TypeOK
  <2> QED
    BY <1>1, <1>4, <2>2, <2>3 DEF LocalStep, OthersSame
<1>8. Stage(p)'
  BY <1>1, <1>2, <1>3, <1>4, <1>6, ToWriteTypes, Choices DEF Stage, UsesKeychain, Mode, Agent, Agents
<1>9. NotOvertaken(p)' /\ Late(p)'
  BY <1>1, <1>2, <1>6, ToWriteTypes DEF NotOvertaken, Single, Existing, UsesKeychain, Agent, Late
<1> HIDE DEF d
<1> QED
  BY <1>1, <1>2, <1>6, <1>7, <1>8, <1>9, ToWriteTypes, LocalInv DEF Numbered

LEMMA FindInv ==
    ASSUME IInv, NEW p \in Processes, Find(p)
    PROVE  IInv'
<1> USE DEF IInv
<1> PICK n \in Existing : account' = [account EXCEPT ![p] = n]
  BY DEF Find
<1>1. /\ pc[p] = "finding" /\ pc' = [pc EXCEPT ![p] = "writing"]
      /\ UNCHANGED <<call, backend, payload, fresh, sound, forceWrite, exit, calls, store, live, issued,
                     rotates, edits, raced, since, excused>>
  BY DEF Find, serverVars
<1>2. TypeOK' /\ LocalStep(p) /\ pc'[p] = "writing" /\ account'[p] = n /\ n \in Accounts
  BY <1>1, ItemTypes DEF TypeOK, LocalStep, OthersSame
<1>3. UsesKeychain(p) /\ Agent(p) = "claude"
  BY <1>1 DEF Stage, UsesKeychain
<1>4. Holding(p)' = Holding(p) /\ Known(p)' = Known(p)
  BY <1>1, <1>2 DEF Holding, Known, Mode
<1>5. Stage(p)' /\ Late(p)'
  BY <1>1, <1>2, <1>3, <1>4 DEF Stage, Late, Versions, Existing, UsesKeychain, Mode, Agent
<1>6. NotOvertaken(p)'
  BY <1>1, <1>2 DEF NotOvertaken, Single, Existing
<1> QED
  BY <1>1, <1>2, <1>4, <1>5, <1>6, LocalInv DEF Numbered
---------------------------------------------------------------------------
(* The token server *)

LEMMA RotationTypes ==
    ASSUME IInv, NEW old \in Nat, Rotation(old)
    PROVE  /\ old \in live /\ rotates' = rotates /\ live' \subseteq Nat /\ issued' \in Nat
           /\ issued' >= 1 /\ issued <= issued' /\ 0 \notin live'
           /\ Successor(old) \in Nat /\ Successor(old) \in live' /\ Successor(old) <= issued'
           /\ \/ ~rotates /\ Successor(old) = old /\ UNCHANGED <<live, issued>>
              \/ /\ rotates /\ Successor(old) = issued + 1 /\ issued' = issued + 1
                 /\ live' = (live \ {old}) \cup {issued + 1}
           /\ \A t \in live' : t <= issued'
<1>1. live \subseteq Nat /\ issued \in Nat /\ issued >= 1 /\ 0 \notin live /\ \A t \in live : t <= issued
  BY DEF IInv, TypeOK, Numbered
<1>2. old \in live /\ rotates' = rotates
  BY DEF Rotation
<1>3. CASE rotates
  <2>1. issued' = issued + 1 /\ live' = (live \ {old}) \cup {issued + 1} /\ Successor(old) = issued + 1
    BY <1>3, Zenon DEF Rotation, Successor
  <2>2. issued + 1 \in Nat /\ issued + 1 >= 1 /\ issued <= issued + 1
        /\ \A t \in (live \ {old}) \cup {issued + 1} : t \in Nat /\ t <= issued + 1 /\ t # 0
    BY <1>1, SMT
  <2> QED
    BY <1>2, <1>3, <2>1, <2>2, Zenon
<1>4. CASE ~rotates
  <2>1. UNCHANGED <<live, issued>> /\ Successor(old) = old
    BY <1>4, Zenon DEF Rotation, Successor
  <2>2. old <= issued /\ issued <= issued
    BY <1>1, <1>2, SMT
  <2> QED
    BY <1>1, <1>2, <1>4, <2>1, <2>2, Zenon
<1> QED
  BY <1>3, <1>4

LEMMA KnownTypes ==
    ASSUME IInv, NEW q \in Processes
    PROVE  /\ \A t \in Known(q) : t \in Nat /\ t <= issued
           /\ Known(q) # {} => pc[q] # "idle"
<1>1. payload[q].token \in Nat /\ fresh[q] \in Nat
  BY DEF IInv, TypeOK, Docs
<1> QED
  BY <1>1 DEF Known, Holding, IInv, Numbered

(* Every holder but p goes on as before, and the token used up was p's. *)
LEMMA PostInv ==
    ASSUME IInv, NEW p \in Processes, Post(p)
    PROVE  IInv'
<1> USE DEF IInv
<1> DEFINE old == payload[p].token
<1> PICK good \in BOOLEAN, got \in {0, Successor(old)} :
           /\ good => got = Successor(old)
           /\ sound' = [sound EXCEPT ![p] = good] /\ fresh' = [fresh EXCEPT ![p] = got]
           /\ excused' = excused \cup (IF got = 0 THEN {Successor(old)} ELSE {})
  BY DEF Post
<1>1. /\ pc[p] = "posting" /\ Rotation(old) /\ since' = [since EXCEPT ![p] = Versions]
      /\ pc' = [pc EXCEPT ![p] = "rereading"]
      /\ UNCHANGED <<call, backend, payload, account, forceWrite, exit, calls, store, edits, raced>>
  BY DEF Post
<1>2. old \in Nat /\ got \in Nat /\ got \in live' \cup {0} /\ got <= issued'
      /\ (got = 0 => ~good /\ Successor(old) \in excused')
  <2>1. old \in Nat
    BY DEF TypeOK, Docs
  <2>2. Successor(old) \in live' /\ 0 \notin live' /\ Successor(old) \in Nat /\ Successor(old) <= issued'
        /\ issued' \in Nat
    BY <1>1, <2>1, RotationTypes
  <2> QED
    BY <2>1, <2>2
<1>3. TypeOK'
  <2>1. excused' \subseteq Nat
    BY <1>1, <1>2, RotationTypes DEF TypeOK
  <2> QED
    BY <1>1, <1>2, <2>1, RotationTypes, TokenTypes DEF TypeOK
<1>4. OthersSame(p) /\ UNCHANGED <<Held, Existing, Versions, Single>>
  BY <1>1 DEF OthersSame, TypeOK, Held, Existing, Versions, Single
<1>5. /\ pc'[p] = "rereading" /\ fresh'[p] = got /\ sound'[p] = good /\ since'[p] = Versions
      /\ Known(p) = {old} /\ Mode(p) = "refresh" /\ Agent(p) = "claude"
  BY <1>1 DEF TypeOK, Known, Stage
<1>6. Holding(p)' /\ ~Holding(p) /\ Known(p)' = {got} /\ Stage(p)' /\ Late(p)' /\ NotOvertaken(p)'
  BY <1>1, <1>2, <1>4, <1>5 DEF Holding, Known, Stage, Late, NotOvertaken, Mode, Agent
<1>7. \A q \in Processes : Stage(q)' /\ NotOvertaken(q)' /\ Late(q)'
  <2>1. ASSUME NEW q \in Processes, q # p
        PROVE  Stage(q)' /\ NotOvertaken(q)' /\ Late(q)'
    BY <1>1, <1>4, <2>1, OthersKeep DEF NotOvertaken, Late, TypeOK
  <2> QED
    BY <1>6, <2>1
<1>8. Numbered'
  <2>1. \A q \in Processes : fresh'[q] <= issued'
    BY <1>1, <1>2, <1>5, RotationTypes DEF Numbered, TypeOK
  <2>2. \A q \in Processes : payload[q].token <= issued'
    BY <1>1, <1>2, RotationTypes DEF Numbered, TypeOK, Docs
  <2>3. \A t \in Held : t <= issued'
    BY <1>1, <1>2, RotationTypes, TokenTypes DEF Numbered, TypeOK
  <2> QED
    BY <1>1, <1>2, <1>4, <2>1, <2>2, <2>3, RotationTypes DEF Numbered
<1>9. \A q \in Processes \ {p} : Known(q)' = Known(q)
  BY <1>4, OthersKeep
<1>10. OneLive'
  <2>1. CASE ~rotates
    BY <1>1, <1>2, <1>4, <1>5, <1>6, <1>9, <2>1, RotationTypes DEF OneLive
  <2>2. CASE rotates
    <3>1. live' = (live \ {old}) \cup {issued + 1} /\ Known(p)' \cap live' \subseteq {issued + 1}
      BY <1>1, <1>2, <1>6, <2>2, RotationTypes
    <3>2. \A t \in Held : t # issued + 1
      BY TokenTypes DEF Numbered, TypeOK
    <3>3. \A q \in Processes : \A t \in Known(q) : t # issued + 1
      BY KnownTypes DEF TypeOK
    <3>4. ~raced[p] => /\ Held \cap live' = {}
                       /\ \A q \in Processes \ {p} : ~raced[q] => Known(q) \cap live' = {}
      <4>1. ASSUME ~raced[p]
            PROVE  /\ \A s \in Held \cap live : s = old
                   /\ \A q \in Processes : ~raced[q] => \A s \in Known(q) \cap live : s = old
        BY <1>1, <1>2, <1>5, <4>1, RotationTypes DEF OneLive
      <4> QED
        BY <3>1, <3>2, <3>3, <4>1
    <3> QED
      BY <1>1, <1>4, <1>9, <3>1, <3>2, <3>3, <3>4 DEF OneLive
  <2> QED
    BY <2>1, <2>2 DEF TypeOK
<1>11. Custody'
  <2> SUFFICES ASSUME NEW t \in live', t \notin Held, t \notin excused'
               PROVE  \E q \in Processes : Holding(q)' /\ t = fresh'[q]
    BY <1>4 DEF Custody
  <2>1. CASE t = Successor(old)
    BY <1>2, <1>5, <1>6, <2>1
  <2>2. CASE t # Successor(old)
    <3> t \in live
      BY <1>1, <1>2, <2>2, RotationTypes
    <3> t \notin excused
      OBVIOUS
    <3> PICK q \in Processes : Holding(q) /\ t = fresh[q]
      BY DEF Custody
    <3> QED
      BY <1>4, <1>6, OthersKeep
  <2> QED
    BY <2>1, <2>2
<1>12. \A q \in Processes : Alone(q)'
  <2> SUFFICES ASSUME NEW q \in Processes, Holding(q)'
               PROVE  IF rotates
                      THEN ~raced[q] => /\ Held \cap live' = {}
                                        /\ \A r \in Processes \ {q} : ~raced[r] => Known(r)' \cap live' = {}
                      ELSE fresh'[q] \in live' \cup {0}
    BY <1>1, <1>2, <1>4, RotationTypes DEF Alone
  <2>1. CASE ~rotates
    BY <1>1, <1>2, <1>4, <1>5, <2>1, RotationTypes, OthersKeep DEF Alone
  <2>2. CASE rotates /\ ~raced[q]
    <3>1. live' = (live \ {old}) \cup {issued + 1} /\ old \in live
      BY <1>1, <1>2, <2>2, RotationTypes
    <3>2. \A t \in Held : t # issued + 1
      BY TokenTypes DEF Numbered, TypeOK
    <3>3. \A r \in Processes : \A t \in Known(r) : t # issued + 1
      BY KnownTypes DEF TypeOK
    <3>4. CASE q = p
      BY <1>5, <1>9, <2>2, <3>1, <3>2, <3>3, <3>4 DEF OneLive
    <3>5. CASE q # p
      <4>1. Holding(q)
        BY <1>4, <3>5, OthersKeep
      <4>2. Held \cap live = {} /\ \A r \in Processes \ {q} : ~raced[r] => Known(r) \cap live = {}
        BY <2>2, <4>1 DEF Alone
      <4>3. raced[p]
        BY <1>5, <3>1, <3>5, <4>2
      <4>4. Held \cap live' = {}
        BY <3>1, <3>2, <4>2
      <4>5. ASSUME NEW r \in Processes \ {q}, ~raced[r]
            PROVE  Known(r)' \cap live' = {}
        <5>1. Known(r)' = Known(r) /\ Known(r) \cap live = {}
          BY <1>9, <4>2, <4>3, <4>5
        <5> QED
          BY <3>1, <3>3, <5>1
      <4> QED
        BY <2>2, <4>4, <4>5
    <3> QED
      BY <3>4, <3>5
  <2> QED
    BY <2>1, <2>2
<1> QED
  BY <1>3, <1>7, <1>8, <1>10, <1>11, <1>12

(* A process keeps what it knows, or it gives up holding nothing. *)
Stays(q) ==
    \/ /\ pc'[q] = pc[q] /\ call'[q] = call[q] /\ payload'[q] = payload[q]
       /\ fresh'[q] = fresh[q] /\ raced'[q] = raced[q]
    \/ ~Holding(q) /\ pc'[q] = "idle" /\ payload'[q].token = 1 /\ fresh'[q] = 0

LEMMA StaysKeep ==
    ASSUME NEW q \in Processes, Stays(q)
    PROVE  /\ Known(q)' = {} \/ (Known(q)' = Known(q) /\ raced'[q] = raced[q])
           /\ Holding(q) \/ Holding(q)' => Holding(q)' /\ Holding(q) /\ fresh'[q] = fresh[q] /\ Known(q)' # {}
BY DEF Stays, Known, Holding, Mode

(* A token is used up and its successor goes where no process sees it:     *)
(* processes that are not overtaken lose nothing by it.                    *)
LEMMA RotatedAwayInv ==
    ASSUME IInv, NEW old \in Nat, Rotation(old), UNCHANGED store,
           excused' = excused \cup {Successor(old)}, \A q \in Processes : Stays(q)
    PROVE  Numbered' /\ OneLive' /\ Custody' /\ \A q \in Processes : Alone(q)'
<1> USE DEF IInv
<1>1. UNCHANGED <<Held, Existing>>
  BY DEF Held, Existing
<1>2. Numbered'
  <2>1. ASSUME NEW q \in Processes
        PROVE  payload'[q].token <= issued' /\ fresh'[q] <= issued'
    <3>1. issued \in Nat /\ issued' \in Nat /\ issued <= issued' /\ issued' >= 1
          /\ payload[q].token \in Nat /\ fresh[q] \in Nat
      BY RotationTypes DEF TypeOK, Docs
    <3>2. payload[q].token <= issued /\ fresh[q] <= issued
      BY DEF Numbered
    <3>3. Stays(q)
      OBVIOUS
    <3> QED
      BY <3>1, <3>2, <3>3 DEF Stays
  <2>2. \A t \in Held : t <= issued'
    BY RotationTypes, TokenTypes DEF Numbered, TypeOK
  <2> QED
    BY <1>1, <2>1, <2>2, RotationTypes DEF Numbered
<1>3. \A t \in live' : t \in live \/ t = issued + 1
  BY RotationTypes
<1>4. \A t \in Held : t # issued + 1
  BY TokenTypes DEF Numbered, TypeOK
<1>5. \A q \in Processes : \A t \in Known(q) : t # issued + 1
  BY KnownTypes DEF TypeOK
<1>6. OneLive'
  <2> SUFFICES ASSUME NEW q \in Processes, ~raced'[q], NEW t \in Known(q)' \cap live'
               PROVE  /\ \A s \in Held \cap live' : s = t
                      /\ \A r \in Processes : ~raced'[r] => \A s \in Known(r)' \cap live' : s = t
    BY <1>1 DEF OneLive
  <2>1. ~raced[q] /\ t \in Known(q) /\ t \in live
    BY <1>3, <1>5, StaysKeep
  <2>2. \A s \in Held \cap live' : s = t
    BY <1>3, <1>4, <2>1 DEF OneLive
  <2>3. ASSUME NEW r \in Processes, ~raced'[r], NEW s \in Known(r)' \cap live'
        PROVE  s = t
    <3>1. ~raced[r] /\ s \in Known(r) /\ s \in live
      BY <1>3, <1>5, <2>3, StaysKeep
    <3> QED
      BY <2>1, <3>1 DEF OneLive
  <2> QED
    BY <2>2, <2>3
<1>7. Custody'
  <2> SUFFICES ASSUME NEW t \in live', t \notin Held, t \notin excused'
               PROVE  \E q \in Processes : Holding(q)' /\ t = fresh'[q]
    BY <1>1 DEF Custody
  <2> t \in live /\ t \notin excused
    BY RotationTypes
  <2> PICK q \in Processes : Holding(q) /\ t = fresh[q]
    BY DEF Custody
  <2> QED
    BY StaysKeep
<1>8. ASSUME NEW q \in Processes
      PROVE  Alone(q)'
  <2> SUFFICES ASSUME Holding(q)'
               PROVE  IF rotates
                      THEN ~raced'[q] => /\ Held \cap live' = {}
                                         /\ \A r \in Processes \ {q} : ~raced'[r] => Known(r)' \cap live' = {}
                      ELSE fresh'[q] \in live' \cup {0}
    BY <1>1, RotationTypes DEF Alone
  <2>1. Holding(q) /\ fresh'[q] = fresh[q] /\ raced'[q] = raced[q]
    BY StaysKeep
  <2>2. CASE ~rotates
    BY <2>1, <2>2, RotationTypes DEF Alone
  <2>3. CASE rotates /\ ~raced[q]
    <3>1. Held \cap live = {} /\ \A r \in Processes \ {q} : ~raced[r] => Known(r) \cap live = {}
      BY <2>1, <2>3 DEF Alone
    <3>2. Held \cap live' = {}
      BY <1>3, <1>4, <3>1
    <3>3. ASSUME NEW r \in Processes \ {q}, ~raced'[r]
          PROVE  Known(r)' \cap live' = {}
      <4>1. Known(r)' = {} \/ (Known(r)' = Known(r) /\ ~raced[r])
        BY <3>3, StaysKeep
      <4> QED
        BY <1>3, <1>5, <3>1, <4>1
    <3> QED
      BY <2>3, <3>2, <3>3
  <2> QED
    BY <2>1, <2>2, <2>3
<1> QED
  BY <1>2, <1>6, <1>7, <1>8

LEMMA PostLostInv ==
    ASSUME IInv, NEW p \in Processes, PostLost(p)
    PROVE  IInv'
<1> USE DEF IInv
<1> DEFINE old == payload[p].token
<1>1. /\ pc[p] = "posting" /\ Rotation(old) /\ excused' = excused \cup {Successor(old)}
      /\ Leaves(p, "failure") /\ ResetForce(p) /\ Forgets(p) /\ UNCHANGED store
  BY DEF PostLost, Returns
<1>2. old \in Nat /\ FirstDoc \in Docs /\ FirstDoc.token = 1 /\ "codex" \in Places
  BY CommandsAssumption DEF TypeOK, Docs, Places
<1>3. /\ forceWrite' \in [Processes -> BOOLEAN]
      /\ \A q \in Processes \ {p} : forceWrite'[q] = forceWrite[q]
  BY <1>1 DEF ResetForce, TypeOK
<1>4. TypeOK'
  BY <1>1, <1>2, <1>3, RotationTypes, Choices DEF TypeOK, Leaves, Forgets
<1>5. OthersSame(p) /\ \A q \in Processes \ {p} : raced'[q] = raced[q] /\ since'[q] = since[q]
  BY <1>1, <1>3 DEF OthersSame, Leaves, Forgets, TypeOK
<1>6. /\ pc'[p] = "idle" /\ payload'[p] = FirstDoc /\ fresh'[p] = 0 /\ ~Holding(p)
  BY <1>1 DEF Leaves, TypeOK, Holding
<1>7. \A q \in Processes : Stays(q)
  BY <1>2, <1>5, <1>6 DEF Stays, OthersSame
<1>8. UNCHANGED <<Existing, Versions, Single>>
  BY <1>1 DEF Existing, Versions, Single
<1>9. \A q \in Processes : Stage(q)' /\ NotOvertaken(q)' /\ Late(q)'
  <2>1. ASSUME NEW q \in Processes, q # p
        PROVE  Stage(q)' /\ NotOvertaken(q)' /\ Late(q)'
    BY <1>5, <1>8, <2>1, OthersKeep DEF NotOvertaken, Late
  <2>2. Stage(p)' /\ NotOvertaken(p)' /\ Late(p)'
    BY <1>6 DEF Stage, NotOvertaken, Late, Holding
  <2> QED
    BY <2>1, <2>2
<1>10. Numbered' /\ OneLive' /\ Custody' /\ \A q \in Processes : Alone(q)'
  BY <1>1, <1>2, <1>7, RotatedAwayInv
<1> QED
  BY <1>4, <1>9, <1>10
---------------------------------------------------------------------------
(* The agent *)

LEMMA RefreshElsewhereInv ==
    ASSUME IInv, NEW t \in live, RefreshElsewhere(t)
    PROVE  IInv'
<1> USE DEF IInv
<1>1. /\ t \in Nat /\ Rotation(t) /\ excused' = excused \cup {Successor(t)}
      /\ UNCHANGED <<pc, call, backend, payload, fresh, sound, account, forceWrite, exit, calls, rotates,
                     store, edits, raced, since>>
  BY DEF RefreshElsewhere, AgentStep, processVars, localVars, TypeOK
<1>2. TypeOK'
  BY <1>1, RotationTypes DEF TypeOK
<1>3. \A q \in Processes : Stays(q)
  BY <1>1 DEF Stays
<1>4. \A q \in Processes : Stage(q)' /\ NotOvertaken(q)' /\ Late(q)'
  BY <1>1 DEF Stage, NotOvertaken, Late, Holding, UsesKeychain, Mode, Agent, Single, Existing, Versions
<1> QED
  BY <1>1, <1>2, <1>3, <1>4, RotatedAwayInv

(* One field of a document is replaced. *)
LEMMA FieldTypes ==
    ASSUME NEW d \in Docs, NEW x \in Nat
    PROVE  /\ [d EXCEPT !.token = x] \in Docs /\ [d EXCEPT !.token = x].token = x
           /\ [d EXCEPT !.token = x].rest = d.rest
           /\ [d EXCEPT !.rest = x] \in Docs /\ [d EXCEPT !.rest = x].rest = x
           /\ [d EXCEPT !.rest = x].token = d.token
BY DEF Docs

LEMMA AgentStepKeeps ==
    ASSUME IInv, AgentStep, UNCHANGED raced, UNCHANGED Existing, NEW q \in Processes
    PROVE  /\ Known(q)' = Known(q) /\ Holding(q)' = Holding(q) /\ fresh'[q] = fresh[q]
           /\ payload'[q] = payload[q] /\ raced'[q] = raced[q] /\ pc'[q] = pc[q]
           /\ Stage(q)' /\ NotOvertaken(q)'
<1>1. UNCHANGED <<pc, call, backend, payload, fresh, sound, account, forceWrite, rotates>>
  BY DEF AgentStep, processVars, localVars
<1>2. UNCHANGED Single
  BY DEF Single
<1> QED
  BY <1>1, <1>2 DEF IInv, Known, Holding, Stage, NotOvertaken, UsesKeychain, Mode, Agent

LEMMA EditInv ==
    ASSUME IInv, NEW n \in Accounts, Edit(n)
    PROVE  IInv'
<1> USE DEF IInv
<1>1. /\ n \in Existing /\ edits' = edits + 1 /\ AgentStep /\ since' = Shows(edits + 1)
      /\ store' = [store EXCEPT ![n] = [store[n] EXCEPT !.rest = edits + 1]]
      /\ UNCHANGED <<live, issued, raced, excused>>
  BY DEF Edit
<1>2. edits + 1 \in Nat
  BY DEF TypeOK
<1> DEFINE d == [store[n] EXCEPT !.rest = edits + 1]
<1>3. d \in Docs /\ d.rest = edits + 1 /\ d.token = store[n].token /\ store[n] # Nothing
      /\ d # Nothing /\ n \in Places
  <2>1. store[n] \in Docs /\ n \in Places /\ Nothing \notin Docs
    BY <1>1, ItemTypes, CommandsAssumption
  <2> QED
    BY <1>2, <2>1, FieldTypes
<1> HIDE DEF d
<1>4. store' = [store EXCEPT ![n] = d]
  BY <1>1 DEF d
<1>5. /\ store' \in [Places -> Docs \cup {Nothing}] /\ store'[n] = d
      /\ \A m \in Places \ {n} : store'[m] = store[m]
  BY <1>3, <1>4 DEF TypeOK
<1>6. UNCHANGED Existing
  BY <1>3, <1>5 DEF Existing, Places
<1>7. UNCHANGED Held /\ Versions' \subseteq Versions \cup {edits + 1}
  BY <1>3, <1>5, <1>6 DEF Held, Versions, Existing, Places
<1>8. since' \in [Processes -> SUBSET Nat]
  BY <1>1, <1>2 DEF Shows, TypeOK
<1>9. TypeOK'
  BY <1>1, <1>2, <1>5, <1>8 DEF TypeOK, AgentStep, processVars, localVars
<1>10. \A q \in Processes : Late(q)'
  <2> SUFFICES ASSUME NEW q \in Processes, Holding(q)'
               PROVE  Versions' \subseteq since'[q] /\ (pc'[q] # "rereading" => payload'[q].rest \in since'[q])
    BY DEF Late
  <2>1. Holding(q) /\ pc'[q] = pc[q] /\ payload'[q] = payload[q]
    BY <1>1, <1>6, AgentStepKeeps
  <2>2. since'[q] = since[q] \cup {edits + 1}
    BY <1>1, <2>1 DEF Shows
  <2> QED
    BY <1>7, <2>1, <2>2 DEF Late
<1>11. \A q \in Processes : Stage(q)' /\ NotOvertaken(q)'
  BY <1>1, <1>6, AgentStepKeeps
<1>12. Numbered'
  BY <1>1, <1>6, <1>7, AgentStepKeeps DEF Numbered
<1>13. OneLive'
  <2>1. \A q \in Processes : Known(q)' = Known(q) /\ raced'[q] = raced[q]
    BY <1>1, <1>6, AgentStepKeeps
  <2> QED
    BY <1>1, <1>7, <2>1 DEF OneLive
<1>14. Custody'
  <2> SUFFICES ASSUME NEW t \in live, t \notin Held, t \notin excused
               PROVE  \E q \in Processes : Holding(q)' /\ t = fresh'[q]
    BY <1>1, <1>7 DEF Custody
  <2> PICK q \in Processes : Holding(q) /\ t = fresh[q]
    BY DEF Custody
  <2> QED
    BY <1>1, <1>6, AgentStepKeeps
<1>15. \A q \in Processes : Alone(q)'
  <2>1. \A q \in Processes :
           Known(q)' = Known(q) /\ raced'[q] = raced[q] /\ Holding(q)' = Holding(q) /\ fresh'[q] = fresh[q]
    BY <1>1, <1>6, AgentStepKeeps
  <2>2. rotates' = rotates
    BY <1>1 DEF AgentStep
  <2> QED
    BY <1>1, <1>7, <2>1, <2>2 DEF Alone
<1> QED
  BY <1>9, <1>10, <1>11, <1>12, <1>13, <1>14, <1>15

LEMMA AgentRefreshInv ==
    ASSUME IInv, NEW n \in Accounts, AgentRefresh(n)
    PROVE  IInv'
<1> USE DEF IInv
<1> DEFINE old == store[n].token
           new == issued + 1
           d == [store[n] EXCEPT !.token = new]
<1>1. /\ n \in Existing /\ rotates /\ Rotation(old) /\ AgentStep
      /\ store' = [store EXCEPT ![n] = d]
      /\ UNCHANGED <<edits, raced, since, excused>>
  BY Zenon DEF AgentRefresh, Successor
<1>2. /\ old \in Nat /\ old \in live /\ new \in Nat
      /\ issued' = new /\ live' = (live \ {old}) \cup {new} /\ live' \subseteq Nat
      /\ issued' >= 1 /\ \A t \in live' : t <= issued'
  BY <1>1, ItemTypes, RotationTypes DEF TypeOK
<1>3. d \in Docs /\ d.rest = store[n].rest /\ d.token = new /\ store[n] # Nothing
      /\ d # Nothing /\ n \in Places
  <2>1. store[n] \in Docs /\ n \in Places /\ Nothing \notin Docs
    BY <1>1, ItemTypes, CommandsAssumption
  <2> QED
    BY <1>2, <2>1, FieldTypes
<1> HIDE DEF d
<1>4. /\ store' \in [Places -> Docs \cup {Nothing}] /\ store'[n] = d
      /\ \A m \in Places \ {n} : store'[m] = store[m]
  BY <1>1, <1>3 DEF TypeOK
<1>5. UNCHANGED Existing
  BY <1>3, <1>4 DEF Existing, Places
<1>6. UNCHANGED Versions
  BY <1>3, <1>4, <1>5 DEF Versions, Existing, Places
<1>7. /\ \A t \in Held' : t = new \/ t \in Held
      /\ \A t \in Held : t = old \/ t \in Held'
      /\ new \in Held' /\ old \in Held
  BY <1>1, <1>3, <1>4, <1>5 DEF Held, Existing, Places
<1>8. TypeOK'
  BY <1>1, <1>2, <1>4 DEF TypeOK, AgentStep, processVars, localVars
<1>9. \A q \in Processes : Stage(q)' /\ NotOvertaken(q)'
  BY <1>1, <1>5, AgentStepKeeps
<1>10. \A q \in Processes : Late(q)'
  <2>1. \A q \in Processes : Holding(q)' = Holding(q) /\ pc'[q] = pc[q] /\ payload'[q] = payload[q]
    BY <1>1, <1>5, AgentStepKeeps
  <2> QED
    BY <1>1, <1>6, <2>1 DEF Late
<1>11. Numbered'
  <2>1. \A t \in Held' : t <= issued'
    BY <1>2, <1>7, TokenTypes DEF Numbered, TypeOK
  <2>2. ASSUME NEW q \in Processes
        PROVE  payload'[q].token <= issued' /\ fresh'[q] <= issued'
    BY <1>1, <1>2, <1>5, AgentStepKeeps DEF Numbered, TypeOK, Docs
  <2> QED
    BY <1>2, <2>1, <2>2 DEF Numbered
<1>12. OneLive'
  <2> SUFFICES ASSUME NEW q \in Processes, ~raced'[q], NEW t \in Known(q)' \cap live'
               PROVE  FALSE
    BY DEF OneLive
  <2>1. ~raced[q] /\ t \in Known(q) /\ t \in Nat /\ t <= issued
    BY <1>1, <1>5, AgentStepKeeps, KnownTypes
  <2>2. t \in live /\ t # old
    BY <1>2, <2>1 DEF TypeOK
  <2> QED
    BY <1>2, <1>7, <2>1, <2>2 DEF OneLive
<1>13. Custody'
  <2> SUFFICES ASSUME NEW t \in live', t \notin Held', t \notin excused
               PROVE  \E q \in Processes : Holding(q)' /\ t = fresh'[q]
    BY <1>1 DEF Custody
  <2> t \in live /\ t \notin Held
    BY <1>2, <1>7
  <2> PICK q \in Processes : Holding(q) /\ t = fresh[q]
    BY DEF Custody
  <2> QED
    BY <1>1, <1>5, AgentStepKeeps
<1>14. \A q \in Processes : Alone(q)'
  <2>1. \A q \in Processes : raced'[q] = raced[q] /\ Holding(q)' = Holding(q) /\ rotates' = rotates
    BY <1>1, <1>5, AgentStepKeeps DEF AgentStep
  <2>2. \A q \in Processes : Holding(q) => raced[q]
    BY <1>1, <1>2, <1>7 DEF Alone
  <2> QED
    BY <1>1, <2>1, <2>2 DEF Alone
<1> QED
  BY <1>8, <1>9, <1>10, <1>11, <1>12, <1>13, <1>14

(* Whoever is at work has been overtaken. *)
LEMMA OvertakenKeeps ==
    ASSUME IInv, AgentStep, RacesAll, NEW q \in Processes
    PROVE  /\ Known(q)' = Known(q) /\ Holding(q)' = Holding(q) /\ fresh'[q] = fresh[q]
           /\ payload'[q] = payload[q] /\ pc'[q] = pc[q]
           /\ Stage(q)' /\ NotOvertaken(q)'
           /\ Known(q)' # {} => raced'[q]
<1>1. UNCHANGED <<pc, call, backend, payload, fresh, sound, account, forceWrite, rotates>>
  BY DEF AgentStep, processVars, localVars
<1>2. raced'[q] = (raced[q] \/ pc[q] # "idle")
  BY DEF RacesAll
<1>3. Known(q)' = Known(q) /\ Holding(q)' = Holding(q)
  BY <1>1 DEF Known, Holding, Mode
<1>4. Stage(q)'
  BY <1>1, <1>3 DEF IInv, Stage, UsesKeychain, Mode, Agent
<1>5. NotOvertaken(q)'
  BY <1>1, <1>2 DEF NotOvertaken
<1> QED
  BY <1>1, <1>2, <1>3, <1>4, <1>5, KnownTypes

LEMMA OvertakenInv ==
    ASSUME IInv, AgentStep, RacesAll, TypeOK', live \subseteq live', issued <= issued',
           \A t \in live' : t <= issued' /\ t # 0, \A t \in Held' : t <= issued',
           \A t \in live' : t \in live \/ t \in Held',
           excused' = excused \cup Held, \A q \in Processes : Late(q)'
    PROVE  IInv'
<1>1. Numbered'
  <2>1. issued' >= 1
    BY DEF IInv, TypeOK, Numbered
  <2>2. ASSUME NEW q \in Processes
        PROVE  payload'[q].token <= issued' /\ fresh'[q] <= issued'
    <3>1. payload'[q] = payload[q] /\ fresh'[q] = fresh[q]
      BY OvertakenKeeps
    <3>2. payload[q].token \in Nat /\ fresh[q] \in Nat /\ payload[q].token <= issued /\ fresh[q] <= issued
          /\ issued \in Nat /\ issued' \in Nat
      BY DEF IInv, Numbered, TypeOK, Docs
    <3> QED
      BY <3>1, <3>2
  <2> QED
    BY <2>1, <2>2 DEF Numbered
<1>2. OneLive'
  BY OvertakenKeeps DEF OneLive
<1>3. Custody'
  <2> SUFFICES ASSUME NEW t \in live', t \notin Held', t \notin excused'
               PROVE  \E q \in Processes : Holding(q)' /\ t = fresh'[q]
    BY DEF Custody
  <2> PICK q \in Processes : Holding(q) /\ t = fresh[q]
    BY DEF IInv, Custody
  <2> QED
    BY OvertakenKeeps
<1>4. \A q \in Processes : Alone(q)'
  <2> SUFFICES ASSUME NEW q \in Processes, Holding(q)'
               PROVE  raced'[q] /\ (~rotates' => fresh'[q] \in live' \cup {0})
    BY DEF Alone
  <2>1. Holding(q) /\ Known(q) # {} /\ fresh'[q] = fresh[q]
    BY OvertakenKeeps DEF Known, Holding
  <2>2. raced'[q] /\ rotates' = rotates
    BY <2>1, OvertakenKeeps DEF AgentStep
  <2> QED
    BY <2>1, <2>2 DEF IInv, Alone
<1> QED
  BY <1>1, <1>2, <1>3, <1>4, OvertakenKeeps DEF IInv

LEMMA RacesAllTypes ==
    ASSUME TypeOK, RacesAll
    PROVE  raced' \in [Processes -> BOOLEAN]
<1>1. ASSUME NEW q \in Processes
      PROVE  (raced[q] \/ pc[q] # "idle") \in BOOLEAN
  BY Zenon
<1> QED
  BY <1>1 DEF RacesAll

LEMMA LogoutInv ==
    ASSUME IInv, Logout
    PROVE  IInv'
<1>1. /\ store' = [m \in Places |-> IF m = "codex" THEN store[m] ELSE Nothing]
      /\ excused' = excused \cup Held /\ RacesAll /\ AgentStep
      /\ UNCHANGED <<live, issued, edits, since>>
  BY DEF Logout
<1>2. "codex" \in Places /\ "codex" \notin Accounts /\ Accounts \subseteq Places
  BY CommandsAssumption DEF Places
<1>3. Existing' = {}
  BY <1>1, <1>2 DEF Existing
<1>4. Held' = {} /\ Versions' = {}
  BY <1>3 DEF Held, Versions
<1>5. store' \in [Places -> Docs \cup {Nothing}] /\ excused' \subseteq Nat
  BY <1>1, <1>2, TokenTypes DEF IInv, TypeOK
<1>6. TypeOK'
  BY <1>1, <1>5, RacesAllTypes DEF IInv, TypeOK, AgentStep, processVars, localVars
<1>7. \A t \in live : t \in Held \/ t \notin Held
  OBVIOUS
<1>8. ASSUME NEW q \in Processes
      PROVE  Late(q)'
  <2>1. Holding(q)' = Holding(q) /\ pc'[q] = pc[q] /\ payload'[q] = payload[q]
    BY <1>1, OvertakenKeeps
  <2> QED
    BY <1>1, <1>4, <2>1 DEF IInv, Late
<1> QED
  BY <1>1, <1>4, <1>6, <1>8, OvertakenInv DEF IInv, TypeOK, Numbered

LEMMA LoginInv ==
    ASSUME IInv, Login
    PROVE  IInv'
<1> DEFINE d == [FirstDoc EXCEPT !.token = issued + 1]
<1> PICK n \in Accounts :
        store' = [m \in Places |-> IF m = n THEN d ELSE IF m = "codex" THEN store[m] ELSE Nothing]
  BY DEF Login
<1>1. /\ issued' = issued + 1 /\ live' = live \cup {issued + 1}
      /\ excused' = excused \cup Held /\ RacesAll /\ AgentStep
      /\ since' = Shows(FirstDoc.rest) /\ UNCHANGED edits
  BY DEF Login
<1>2. "codex" \in Places /\ "codex" \notin Accounts /\ Accounts \subseteq Places /\ FirstDoc \in Docs
      /\ Nothing \notin Docs
  BY CommandsAssumption DEF Places
<1>3. issued \in Nat /\ issued + 1 \in Nat /\ live \subseteq Nat /\ issued >= 1
      /\ \A t \in live : t <= issued /\ t # 0
  BY DEF IInv, TypeOK, Numbered
<1>4. d \in Docs /\ d.token = issued + 1 /\ d.rest = FirstDoc.rest /\ FirstDoc.rest \in Nat /\ d # Nothing
  BY <1>2, <1>3, FieldTypes DEF Docs
<1> HIDE DEF d
<1>5. store' \in [Places -> Docs \cup {Nothing}] /\ store'[n] = d
      /\ \A m \in Accounts : m # n => store'[m] = Nothing
  BY <1>2, <1>4 DEF IInv, TypeOK
<1>6. Existing' = {n}
  BY <1>4, <1>5 DEF Existing
<1>7. Held' = {issued + 1} /\ Versions' = {FirstDoc.rest}
  BY <1>4, <1>5, <1>6 DEF Held, Versions
<1>8. since' \in [Processes -> SUBSET Nat] /\ excused' \subseteq Nat
  BY <1>1, <1>4, TokenTypes DEF Shows, IInv, TypeOK
<1>9. live' \subseteq Nat /\ issued' \in Nat
  BY <1>1, <1>3
<1>10. TypeOK'
  BY <1>1, <1>5, <1>8, <1>9, RacesAllTypes DEF IInv, TypeOK, AgentStep, processVars, localVars
<1>11. ASSUME NEW q \in Processes
       PROVE  Late(q)'
  <2>1. Holding(q)' = Holding(q) /\ pc'[q] = pc[q] /\ payload'[q] = payload[q]
    BY <1>1, OvertakenKeeps
  <2>2. Holding(q) => since'[q] = since[q] \cup {FirstDoc.rest}
    BY <1>1 DEF Shows
  <2> QED
    BY <1>7, <2>1, <2>2 DEF IInv, Late
<1>12. /\ live \subseteq live' /\ issued <= issued'
       /\ \A t \in live' : t <= issued' /\ t # 0 /\ (t \in live \/ t \in Held')
       /\ \A t \in Held' : t <= issued'
  BY <1>1, <1>3, <1>7
<1> QED
  BY <1>1, <1>10, <1>11, <1>12, OvertakenInv
---------------------------------------------------------------------------
(* The write *)

Text(p) == Stored(Agent(p), payload[p])

(* What a write does to the store. *)
LEMMA PutTypes ==
    ASSUME IInv, NEW p \in Processes, Put(p)
    PROVE  /\ pc[p] = "writing" /\ Agent(p) \in Agents
           /\ Text(p) \in Docs /\ Text(p) # Nothing
           /\ Text(p).token = payload[p].token /\ Text(p).rest = payload[p].rest
           /\ store' \in [Places -> Docs \cup {Nothing}] /\ store'[account[p]] = Text(p)
           /\ \A m \in Places : m # account[p] => store'[m] = store[m]
           /\ "codex" \notin Accounts /\ Accounts \subseteq Places
           /\ account[p] \in Places
           /\ IF Agent(p) = "codex" THEN account[p] = "codex" ELSE account[p] \in Accounts
<1>1. pc[p] = "writing" /\ store' = [store EXCEPT ![account[p]] = Text(p)] /\ Stage(p)
  BY DEF Put, IInv, Text
<1>2. call[p] \in Calls /\ payload[p] \in Docs /\ account[p] \in Places
      /\ store \in [Places -> Docs \cup {Nothing}]
  BY DEF IInv, TypeOK
<1>3. Agent(p) \in Agents
  BY <1>2, CallTypes DEF Agent
<1>4. Text(p) \in Docs /\ Text(p) # Nothing
      /\ Text(p).token = payload[p].token /\ Text(p).rest = payload[p].rest
  BY <1>2, <1>3, StoredTypes, CommandsAssumption DEF Text
<1>5. /\ store' \in [Places -> Docs \cup {Nothing}] /\ store'[account[p]] = Text(p)
      /\ \A m \in Places : m # account[p] => store'[m] = store[m]
  BY <1>1, <1>2, <1>4
<1>6. "codex" \notin Accounts /\ Accounts \subseteq Places
  BY CommandsAssumption DEF Places
<1> QED
  BY <1>1, <1>2, <1>3, <1>4, <1>5, <1>6 DEF Stage

LEMMA PutCodex ==
    ASSUME IInv, NEW p \in Processes, Put(p), Agent(p) = "codex"
    PROVE  UNCHANGED <<Existing, Held, Versions, Single>>
<1>1. \A n \in Accounts : store'[n] = store[n]
  BY PutTypes
<1>2. Existing' = Existing
  BY <1>1 DEF Existing
<1> QED
  BY <1>1, <1>2 DEF Held, Versions, Single, Existing

LEMMA PutClaude ==
    ASSUME IInv, NEW p \in Processes, Put(p), Agent(p) # "codex"
    PROVE  /\ Existing' = Existing \cup {account[p]}
           /\ \A t \in Held' : t \in Held \/ t = Text(p).token
           /\ \A v \in Versions' : v \in Versions \/ v = Text(p).rest
           /\ Text(p).token \in Held'
           /\ \A n \in Existing : n # account[p] => store[n].token \in Held'
<1>1. /\ account[p] \in Accounts /\ store'[account[p]] = Text(p) /\ Text(p) # Nothing
      /\ \A n \in Accounts : n # account[p] => store'[n] = store[n]
  BY PutTypes
<1>2. Existing' = Existing \cup {account[p]}
  BY <1>1 DEF Existing
<1>3. \A t \in Held' : t \in Held \/ t = Text(p).token
  BY <1>1, <1>2 DEF Held, Existing
<1>4. \A v \in Versions' : v \in Versions \/ v = Text(p).rest
  BY <1>1, <1>2 DEF Versions, Existing
<1>5. Text(p).token \in Held'
  BY <1>1, <1>2 DEF Held
<1>6. \A n \in Existing : n # account[p] => store[n].token \in Held'
  BY <1>1, <1>2 DEF Held, Existing
<1> QED
  BY <1>2, <1>3, <1>4, <1>5, <1>6

LEMMA WritesInv ==
    ASSUME IInv, NEW p \in Processes, NEW how \in {"success", "failure"}, Put(p), Returns(p, how),
           excused' = excused \cup Overwritten(p)
    PROVE  IInv'
<1>1. /\ pc' = [pc EXCEPT ![p] = "idle"] /\ call' = [call EXCEPT ![p] = AnyCall]
      /\ payload' = [payload EXCEPT ![p] = FirstDoc] /\ fresh' = [fresh EXCEPT ![p] = 0]
      /\ sound' = [sound EXCEPT ![p] = TRUE] /\ account' = [account EXCEPT ![p] = "codex"]
      /\ exit' = [exit EXCEPT ![p] = how]
      /\ UNCHANGED <<backend, calls, rotates, edits, live, issued>>
  BY DEF Returns, Leaves, Put
<1>2. forceWrite' \in [Processes -> BOOLEAN] /\ \A q \in Processes \ {p} : forceWrite'[q] = forceWrite[q]
  BY DEF Returns, ResetForce, IInv, TypeOK
<1>3. FirstDoc \in Docs /\ FirstDoc.token = 1 /\ "codex" \in Places
  BY CommandsAssumption DEF Places
<1>4. /\ pc[p] = "writing" /\ Agent(p) \in Agents /\ Text(p) \in Docs
      /\ Text(p).token = payload[p].token /\ Text(p).rest = payload[p].rest
      /\ store' \in [Places -> Docs \cup {Nothing}]
  BY PutTypes
<1>5. /\ OthersSame(p)
      /\ pc'[p] = "idle" /\ payload'[p] = FirstDoc /\ fresh'[p] = 0
      /\ raced' = [q \in Processes |-> q # p /\ (raced[q] \/ (Replaces(p) /\ pc[q] # "idle"))]
      /\ since' = [IF Agent(p) = "claude" THEN Shows(payload[p].rest) ELSE since EXCEPT ![p] = {}]
  BY <1>1, <1>2 DEF OthersSame, IInv, TypeOK, Put, RacesOthers
<1>6. Stage(p)' /\ NotOvertaken(p)' /\ Late(p)' /\ Known(p)' = {} /\ ~Holding(p)'
  BY <1>5 DEF Stage, NotOvertaken, Late, Known, Holding
<1>7. TypeOK'
  <2>1. since' \in [Processes -> SUBSET Nat]
    <3>1. Shows(payload[p].rest) \in [Processes -> SUBSET Nat]
      BY <1>4 DEF IInv, TypeOK, Docs, Shows
    <3> QED
      BY <1>5, <3>1 DEF IInv, TypeOK
  <2>2. excused' \subseteq Nat
    <3>1. store[account[p]] # Nothing => store[account[p]].token \in Nat
      BY PutTypes DEF IInv, TypeOK, Docs
    <3> QED
      BY <3>1 DEF Overwritten, IInv, TypeOK
  <2>3. raced' \in [Processes -> BOOLEAN]
    <3>1. ASSUME NEW q \in Processes
          PROVE  (q # p /\ (raced[q] \/ (Replaces(p) /\ pc[q] # "idle"))) \in BOOLEAN
      BY Zenon
    <3> QED
      BY <1>5, <3>1
  <2> QED
    BY <1>1, <1>2, <1>3, <1>4, <2>1, <2>2, <2>3, Choices DEF IInv, TypeOK
(* A process that is not overtaken by this has been at work beside a write *)
(* of the other agent, or beside a refresh that was not overtaken either.  *)
<1>8. ASSUME NEW q \in Processes, ~raced'[q], pc'[q] # "idle"
      PROVE  /\ q # p /\ ~raced[q] /\ pc[q] = pc'[q] /\ Known(q)' = Known(q)
             /\ \/ Agent(p) = "codex"
                \/ Agent(p) = "claude" /\ Mode(p) = "refresh" /\ ~raced[p]
  <2>1. q # p
    BY <1>5, <1>8
  <2> QED
    BY <1>4, <1>5, <1>8, <2>1, OthersKeep DEF Replaces, Agents
<1>9. Agent(p) = "claude" /\ Mode(p) = "refresh" =>
         /\ Holding(p) /\ Known(p) = {fresh[p]} /\ Text(p).token = fresh[p]
         /\ ~raced[p] => Existing' = Existing \/ ~KeychainService
  <2> SUFFICES ASSUME Agent(p) = "claude", Mode(p) = "refresh"
               PROVE  /\ Holding(p) /\ Known(p) = {fresh[p]} /\ Text(p).token = fresh[p]
                      /\ ~raced[p] => Existing' = Existing \/ ~KeychainService
    OBVIOUS
  <2>1. Holding(p) /\ Known(p) = {fresh[p]}
    BY <1>4 DEF Holding, Known
  <2>2. Text(p).token = fresh[p]
    BY <1>4, <2>1 DEF IInv, Stage
  <2>3. ~raced[p] /\ KeychainService => Existing = {account[p]}
    BY <1>4 DEF IInv, NotOvertaken, UsesKeychain
  <2>4. Existing' = Existing \cup {account[p]}
    BY PutClaude
  <2> QED
    BY <2>1, <2>2, <2>3, <2>4
<1>10. \A q \in Processes : Stage(q)' /\ NotOvertaken(q)'
  <2>1. ASSUME NEW q \in Processes, q # p
        PROVE  Stage(q)'
    BY <1>5, <2>1, OthersKeep DEF IInv
  <2>2. ASSUME NEW q \in Processes, ~raced'[q], pc'[q] # "idle"
        PROVE  Single' /\ (pc'[q] = "writing" /\ UsesKeychain(q)' => Existing' = {account'[q]})
    <3>1. q # p /\ ~raced[q] /\ pc[q] = pc'[q] /\ UsesKeychain(q)' = UsesKeychain(q) /\ account'[q] = account[q]
      BY <1>5, <1>8, <2>2, OthersKeep
    <3>2. Single /\ (pc[q] = "writing" /\ UsesKeychain(q) => Existing = {account[q]})
      BY <2>2, <3>1 DEF IInv, NotOvertaken
    <3>3. UNCHANGED <<Existing, Single>> \/ ~KeychainService
      BY <1>8, <1>9, <2>2, PutCodex DEF Single
    <3>4. ~KeychainService => Single' /\ ~UsesKeychain(q)
      BY CommandsAssumption DEF Single, Existing, UsesKeychain
    <3> QED
      BY <3>1, <3>2, <3>3, <3>4
  <2> QED
    BY <1>6, <2>1, <2>2 DEF NotOvertaken
<1>11. ASSUME NEW q \in Processes
       PROVE  Late(q)'
  <2>1. CASE q # p /\ Holding(q)
    <3>1. Versions \subseteq since[q] /\ (pc[q] # "rereading" => payload[q].rest \in since[q])
      BY <2>1 DEF IInv, Late
    <3>2. pc'[q] = pc[q] /\ payload'[q] = payload[q]
      BY <1>5, <2>1, OthersKeep
    <3>3. CASE Agent(p) = "codex"
      <4>1. since'[q] = since[q]
        BY <1>5, <2>1, <3>3 DEF IInv, TypeOK
      <4>2. Versions' = Versions
        BY <3>3, PutCodex
      <4> QED
        BY <3>1, <3>2, <4>1, <4>2, Zenon DEF Late
    <3>4. CASE Agent(p) = "claude"
      <4>1. since'[q] = since[q] \cup {payload[p].rest}
        BY <1>5, <2>1, <3>4 DEF Shows
      <4>2. \A v \in Versions' : v \in Versions \/ v = payload[p].rest
        BY <1>4, <3>4, PutClaude
      <4> QED
        BY <3>1, <3>2, <4>1, <4>2, Zenon DEF Late
    <3> QED
      BY <1>4, <3>3, <3>4 DEF Agents
  <2>2. CASE q # p /\ ~Holding(q)
    BY <1>5, <2>2, OthersKeep DEF Late
  <2> QED
    BY <1>6, <2>1, <2>2
<1>12. \A t \in Held' : t \in Held \/ (Agent(p) = "claude" /\ t = payload[p].token)
  BY <1>4, PutCodex, PutClaude DEF Agents
<1>13. Numbered'
  <2>1. ASSUME NEW q \in Processes
        PROVE  payload'[q].token <= issued /\ fresh'[q] <= issued
    BY <1>3, <1>5, OthersKeep DEF IInv, Numbered, TypeOK
  <2> QED
    BY <1>1, <1>12, <2>1 DEF IInv, Numbered
<1>14. OneLive'
  <2> SUFFICES ASSUME NEW q \in Processes, ~raced'[q], NEW t \in Known(q)' \cap live
               PROVE  /\ \A x \in Held' \cap live : x = t
                      /\ \A r \in Processes : ~raced'[r] => \A x \in Known(r)' \cap live : x = t
    BY <1>1 DEF OneLive
  <2>1. pc'[q] # "idle"
    BY DEF Known, Holding
  <2>2. q # p /\ ~raced[q] /\ t \in Known(q)
    BY <1>8, <2>1
  <2>3. \A x \in Held' \cap live : x = t
    BY <1>4, <1>8, <1>9, <1>12, <2>1, <2>2, PutCodex DEF IInv, OneLive
  <2>4. ASSUME NEW r \in Processes, ~raced'[r], NEW x \in Known(r)' \cap live
        PROVE  x = t
    <3>1. pc'[r] # "idle"
      BY <2>4 DEF Known, Holding
    <3>2. ~raced[r] /\ x \in Known(r)
      BY <1>8, <2>4, <3>1
    <3> QED
      BY <2>2, <2>4, <3>2 DEF IInv, OneLive
  <2> QED
    BY <2>3, <2>4
<1>15. ASSUME NEW q \in Processes
       PROVE  Alone(q)'
  <2> SUFFICES ASSUME Holding(q)'
               PROVE  IF rotates
                      THEN ~raced'[q] => /\ Held' \cap live = {}
                                         /\ \A r \in Processes \ {q} : ~raced'[r] => Known(r)' \cap live = {}
                      ELSE fresh'[q] \in live \cup {0}
    BY <1>1 DEF Alone
  <2>1. q # p /\ Holding(q) /\ fresh'[q] = fresh[q] /\ pc'[q] # "idle"
    BY <1>5, <1>6, OthersKeep DEF Holding
  <2>2. CASE ~rotates
    BY <2>1, <2>2 DEF IInv, Alone
  <2>3. CASE rotates /\ ~raced'[q]
    <3>1. ~raced[q] /\ Held \cap live = {}
          /\ \A r \in Processes \ {q} : ~raced[r] => Known(r) \cap live = {}
      BY <1>8, <2>1, <2>3 DEF IInv, Alone
    <3>2. Held' \cap live = {}
      BY <1>4, <1>8, <1>9, <1>12, <2>1, <2>3, <3>1, PutCodex
    <3>3. ASSUME NEW r \in Processes \ {q}, ~raced'[r], NEW x \in Known(r)' \cap live
          PROVE  FALSE
      <4>1. pc'[r] # "idle"
        BY <3>3 DEF Known, Holding
      <4> QED
        BY <1>8, <3>1, <3>3, <4>1
    <3> QED
      BY <2>3, <3>2, <3>3
  <2> QED
    BY <2>2, <2>3
<1>16. Custody'
  <2> SUFFICES ASSUME NEW t \in live, t \notin Held', t \notin excused'
               PROVE  \E q \in Processes : Holding(q)' /\ t = fresh'[q]
    BY <1>1 DEF Custody
  <2>1. CASE t \notin Held
    <3> PICK q \in Processes : Holding(q) /\ t = fresh[q]
      BY <2>1 DEF IInv, Custody
    <3>1. q # p
      <4> SUFFICES ASSUME q = p
                   PROVE  FALSE
        OBVIOUS
      <4>1. Agent(p) = "claude" /\ Mode(p) = "refresh"
        BY DEF IInv, Stage, Holding
      <4> QED
        BY <1>9, <4>1, PutClaude
    <3> QED
      BY <1>5, <3>1, OthersKeep
  <2>2. CASE t \in Held
    <3> PICK n \in Existing : t = store[n].token
      BY <2>2 DEF Held
    <3>1. Agent(p) = "claude"
      BY <1>4, <2>2, PutCodex DEF Agents
    <3>2. n = account[p] /\ store[account[p]] # Nothing
      BY <3>1, PutClaude DEF Existing
    <3>3. Mode(p) = "refresh" /\ ~raced[p] /\ (Holding(p) => fresh[p] # 0)
      BY <3>1, <3>2 DEF Overwritten, Replaces
    <3>4. Holding(p) /\ fresh[p] \in Known(p) /\ fresh[p] \in Held'
      BY <1>9, <3>1, <3>3, PutClaude
    <3>5. CASE rotates
      BY <2>2, <3>3, <3>4, <3>5 DEF IInv, Alone
    <3>6. CASE ~rotates
      BY <2>2, <3>3, <3>4, <3>6 DEF IInv, Alone, OneLive
    <3> QED
      BY <3>5, <3>6
  <2> QED
    BY <2>1, <2>2
<1> QED
  BY <1>7, <1>10, <1>11, <1>13, <1>14, <1>15, <1>16 DEF IInv
---------------------------------------------------------------------------
(* The invariant *)

LEMMA InitInv ==
    ASSUME Init
    PROVE  IInv
<1> PICK n \in Accounts : store = [m \in Places |-> IF m = n THEN FirstDoc ELSE Nothing]
  BY DEF Init
<1>1. FirstDoc \in Docs /\ FirstDoc.token = 1 /\ FirstDoc.rest \in Nat /\ "codex" \in Places
      /\ FirstDoc # Nothing /\ Accounts \subseteq Places
  BY CommandsAssumption DEF Places, Docs
<1>2. /\ pc = [p \in Processes |-> "idle"] /\ raced = [p \in Processes |-> FALSE]
      /\ payload = [p \in Processes |-> FirstDoc] /\ fresh = [p \in Processes |-> 0]
      /\ sound = [p \in Processes |-> TRUE]
      /\ live = {1} /\ issued = 1 /\ excused = {}
  BY DEF Init
<1>3. TypeOK
  BY <1>1, Choices DEF Init, TypeOK, Agents
<1>4. Existing = {n} /\ Held = {1}
  <2>1. Existing = {n}
    BY <1>1 DEF Existing
  <2> QED
    BY <1>1, <2>1 DEF Held
<1>5. \A p \in Processes : Known(p) = {} /\ ~Holding(p) /\ Stage(p) /\ NotOvertaken(p) /\ Late(p) /\ Alone(p)
  BY <1>2 DEF Known, Holding, Stage, NotOvertaken, Late, Alone
<1>6. Numbered /\ OneLive /\ Custody
  BY <1>1, <1>2, <1>4, <1>5 DEF Numbered, OneLive, Custody
<1> QED
  BY <1>3, <1>5, <1>6 DEF IInv

LEMMA StutterInv ==
    ASSUME IInv, UNCHANGED vars
    PROVE  IInv'
<1>1. UNCHANGED <<pc, call, backend, payload, fresh, sound, account, forceWrite, exit, calls, store, live,
                  issued, rotates, edits, raced, since, excused>>
  BY DEF vars, processVars, localVars, serverVars
<1>2. UNCHANGED <<Existing, Held, Versions, Single>>
  BY <1>1 DEF Existing, Held, Versions, Single
<1>3. \A p \in Processes : Known(p)' = Known(p) /\ Holding(p)' = Holding(p)
  BY <1>1 DEF Known, Holding, Mode
<1>4. TypeOK' /\ Numbered'
  BY <1>1, <1>2 DEF IInv, TypeOK, Numbered
<1>5. OneLive' /\ Custody'
  BY <1>1, <1>2, <1>3 DEF IInv, OneLive, Custody
<1>6. \A p \in Processes : Stage(p)'
  BY <1>1, <1>3 DEF IInv, Stage, UsesKeychain, Mode, Agent
<1>7. \A p \in Processes : NotOvertaken(p)' /\ Late(p)' /\ Alone(p)'
  BY <1>1, <1>2, <1>3 DEF IInv, NotOvertaken, Late, Alone, UsesKeychain, Agent
<1> QED
  BY <1>4, <1>5, <1>6, <1>7 DEF IInv

LEMMA WriteInv ==
    ASSUME IInv, NEW p \in Processes, Write(p) \/ WriteThenFail(p)
    PROVE  IInv'
<1>1. CASE Write(p)
  BY <1>1, WritesInv DEF Write
<1>2. CASE WriteThenFail(p)
  BY <1>2, WritesInv DEF WriteThenFail
<1> QED
  BY <1>1, <1>2

LEMMA StepInv ==
    ASSUME IInv, [Next]_vars
    PROVE  IInv'
<1>1. ASSUME NEW p \in Processes, ProcessStep(p)
      PROVE  IInv'
  <2>1. ASSUME NEW c \in Calls, Start(p, c)
        PROVE  IInv'
    BY <2>1, StartInv
  <2>2. CASE Dispatch(p)
    BY <2>2, DispatchInv
  <2>3. CASE Show(p)
    BY <2>3, ShowInv
  <2>4. CASE Fails(p)
    BY <2>4, FailsInv
  <2>5. CASE Extract(p)
    BY <2>5, ExtractInv
  <2>6. CASE Post(p)
    BY <2>6, PostInv
  <2>7. CASE PostLost(p)
    BY <2>7, PostLostInv
  <2>8. CASE ReRead(p)
    BY <2>8, ReReadInv
  <2>9. CASE Validate(p)
    BY <2>9, ValidateInv
  <2>10. CASE Find(p)
    BY <2>10, FindInv
  <2>11. CASE Write(p) \/ WriteThenFail(p)
    BY <2>11, WriteInv
  <2> QED
    BY <1>1, <2>1, <2>2, <2>3, <2>4, <2>5, <2>6, <2>7, <2>8, <2>9, <2>10, <2>11 DEF ProcessStep
<1>2. CASE Login
  BY <1>2, LoginInv
<1>3. CASE Logout
  BY <1>3, LogoutInv
<1>4. ASSUME NEW n \in Accounts, Edit(n)
      PROVE  IInv'
  BY <1>4, EditInv
<1>5. ASSUME NEW n \in Accounts, AgentRefresh(n)
      PROVE  IInv'
  BY <1>5, AgentRefreshInv
<1>6. ASSUME NEW t \in live, RefreshElsewhere(t)
      PROVE  IInv'
  BY <1>6, RefreshElsewhereInv
<1>7. CASE UNCHANGED vars
  BY <1>7, StutterInv
<1> QED
  BY <1>1, <1>2, <1>3, <1>4, <1>5, <1>6, <1>7 DEF Next

(* The invariant holds in every state: in particular a refresh that nobody *)
(* overtook is alone with the live token.                                  *)
THEOREM InductiveInvariant == Spec => []IInv
<1>1. Init => IInv
  BY InitInv
<1>2. IInv /\ [Next]_vars => IInv'
  BY StepInv
<1> QED
  BY <1>1, <1>2, PTL DEF Spec

(* Every variable keeps its type. *)
THEOREM TypeCorrect == Spec => []TypeOK
<1>1. IInv => TypeOK
  BY DEF IInv
<1> QED
  BY <1>1, InductiveInvariant, PTL

(* No live refresh token is lost without a fault or a replacement: refresh *)
(* and write, cli.py:622 to 632, for any number of processes.              *)
THEOREM TokensAreKept == Spec => []Custody
<1>1. IInv => Custody
  BY DEF IInv
<1> QED
  BY <1>1, InductiveInvariant, PTL

(* What a refresh writes back the store has held since the answer came.    *)
THEOREM VersionIsLate == Spec => []MergesLateVersion
<1>1. IInv => MergesLateVersion
  BY DEF IInv, Late, MergesLateVersion
<1> QED
  BY <1>1, InductiveInvariant, PTL
---------------------------------------------------------------------------
(* What a step may do *)

(* A write passes the checks of its backend. *)
LEMMA PutPasses ==
    ASSUME IInv, NEW p \in Processes, Put(p)
    PROVE  /\ Agent(p) = "codex" => Text(p) = payload[p]
           /\ Agent(p) = "codex" => Unexpired(Text(p), 0) \/ call[p].force
           /\ (UsesKeychain(p) /\ Unchecked(p)) \/ Usable(Agent(p), Text(p))
<1>1. Stage(p) /\ pc[p] = "writing" /\ payload[p] \in Docs /\ Agent(p) \in Agents
  BY PutTypes DEF IInv, TypeOK
<1>2. WriteAccepts(Agent(p), payload[p], forceWrite[p], 0)
  BY DEF Put
<1>3. Agent(p) = "codex" => Text(p) = payload[p]
  BY <1>1, StoredTypes DEF Text
<1>4. ASSUME Agent(p) = "codex"
      PROVE  Unexpired(Text(p), 0) \/ call[p].force
  BY <1>1, <1>2, <1>3, <1>4 DEF WriteAccepts, ValidateBlob, Stage
<1>5. ASSUME ~(UsesKeychain(p) /\ Unchecked(p))
      PROVE  Usable(Agent(p), Text(p))
  <2>1. Usable(Agent(p), payload[p])
    BY <1>1, <1>2, <1>5 DEF WriteAccepts, ValidateBlob, Usable, Stage, UsesKeychain, Unchecked
  <2> QED
    BY <1>1, <2>1, StoredTypes DEF Text
<1> QED
  BY <1>3, <1>4, <1>5

(* Processes change the store by a write, the agents Claude's store only,  *)
(* by a document that is no worse.                                         *)
LEMMA StoreChanges ==
    ASSUME IInv, [Next]_vars, NEW m \in Places, store'[m] # store[m]
    PROVE  \/ \E p \in Processes : Put(p) /\ (Write(p) \/ WriteThenFail(p)) /\ m = account[p]
           \/ /\ m \in Accounts
              /\ \/ store'[m] = Nothing \/ Usable("claude", store'[m])
                 \/ store[m] # Nothing /\ ~Usable("claude", store[m])
<1>0. "codex" \notin Accounts /\ Places = Accounts \cup {"codex"} /\ Usable("claude", FirstDoc)
      /\ FirstDoc \in Docs /\ store \in [Places -> Docs \cup {Nothing}]
  BY CommandsAssumption DEF Places, IInv, TypeOK
<1>1. ASSUME NEW p \in Processes, ProcessStep(p)
      PROVE  Put(p) /\ (Write(p) \/ WriteThenFail(p)) /\ m = account[p]
  <2>1. Write(p) \/ WriteThenFail(p)
    BY <1>1 DEF ProcessStep, Start, Dispatch, Show, Fails, Extract, Post, PostLost, ReRead, Validate, Find
  <2>2. Put(p)
    BY <2>1 DEF Write, WriteThenFail
  <2> QED
    BY <2>1, <2>2, PutTypes
<1>2. CASE Login
  <2> PICK n \in Accounts :
          store' = [k \in Places |-> IF k = n THEN [FirstDoc EXCEPT !.token = issued + 1]
                                     ELSE IF k = "codex" THEN store[k] ELSE Nothing]
    BY <1>2 DEF Login
  <2>1. Usable("claude", [FirstDoc EXCEPT !.token = issued + 1])
    BY <1>0 DEF Usable, Parses, Shaped, Docs
  <2> QED
    BY <1>0, <2>1
<1>3. CASE Logout
  BY <1>0, <1>3 DEF Logout
<1>4. ASSUME NEW n \in Accounts, Edit(n) \/ AgentRefresh(n)
      PROVE  /\ m \in Accounts
             /\ Usable("claude", store'[m]) \/ (store[m] # Nothing /\ ~Usable("claude", store[m]))
  <2>1. n \in Existing /\ store[n] \in Docs /\ store[n] # Nothing
    BY <1>0, <1>4, ItemTypes DEF Edit, AgentRefresh, IInv, Existing
  <2>2. \A k \in Places : k # n => store'[k] = store[k]
    BY <1>0, <1>4 DEF Edit, AgentRefresh
  <2>3. store'[n].form = store[n].form /\ store'[n].shape = store[n].shape
    <3>1. CASE Edit(n)
      BY <1>0, <2>1, <3>1 DEF Edit, Docs
    <3>2. CASE AgentRefresh(n)
      BY <1>0, <2>1, <3>2 DEF AgentRefresh, Docs
    <3> QED
      BY <1>4, <3>1, <3>2
  <2> QED
    BY <2>1, <2>2, <2>3 DEF Usable, Parses, Shaped
<1>5. ASSUME NEW t \in live, RefreshElsewhere(t)
      PROVE  FALSE
  BY <1>5 DEF RefreshElsewhere
<1>6. CASE UNCHANGED vars
  BY <1>6 DEF vars
<1> QED
  BY <1>1, <1>2, <1>3, <1>4, <1>5, <1>6 DEF Next

(* A call succeeds by a write, or by showing what is there. *)
LEMMA ExitChanges ==
    ASSUME IInv, [Next]_vars, NEW p \in Processes, exit'[p] = "success", exit[p] # "success"
    PROVE  Write(p) \/ Mode(p) = "show"
<1>0. exit \in [Processes -> {"none", "success", "failure"}]
  BY DEF IInv, TypeOK
<1>1. ASSUME NEW q \in Processes, ProcessStep(q), ~Write(p), Mode(p) # "show"
      PROVE  FALSE
  <2>1. CASE Write(q)
    BY <1>0, <1>1, <2>1 DEF Write, Returns, Leaves
  <2>2. CASE Show(q)
    BY <1>0, <1>1, <2>2 DEF Show, Returns, Leaves
  <2>3. CASE Fails(q) \/ PostLost(q) \/ WriteThenFail(q)
    BY <1>0, <2>3 DEF Fails, PostLost, WriteThenFail, Returns, Leaves
  <2>4. ASSUME NEW c \in Calls, Start(q, c)
        PROVE  FALSE
    BY <1>0, <2>4 DEF Start
  <2>5. CASE Dispatch(q) \/ Extract(q) \/ Post(q) \/ ReRead(q) \/ Validate(q) \/ Find(q)
    BY <2>5 DEF Dispatch, Extract, Post, ReRead, Validate, Find
  <2> QED
    BY <1>1, <2>1, <2>2, <2>3, <2>4, <2>5 DEF ProcessStep
<1>2. CASE \E q \in Processes : ProcessStep(q)
  BY <1>1, <1>2
<1>3. CASE ~\E q \in Processes : ProcessStep(q)
  BY <1>3 DEF Next, Login, Logout, Edit, AgentRefresh, RefreshElsewhere, AgentStep, vars
<1> QED
  BY <1>2, <1>3

(* An expired Codex token enters the store by --force only, whatever set   *)
(* the flag before: credentials.py:18 to 33.                               *)
THEOREM ForceIsNotForgotten == Spec => OnlyForceWritesExpired
<1>1. ASSUME IInv, [Next]_vars
      PROVE  [store'["codex"] # store["codex"] =>
                \/ Unexpired(store'["codex"], 0)
                \/ \E p \in Processes :
                      pc[p] = "writing" /\ pc'[p] = "idle" /\ Agent(p) = "codex" /\ call[p].force]_vars
  <2> SUFFICES ASSUME store'["codex"] # store["codex"]
               PROVE  \/ Unexpired(store'["codex"], 0)
                      \/ \E p \in Processes :
                            pc[p] = "writing" /\ pc'[p] = "idle" /\ Agent(p) = "codex" /\ call[p].force
    OBVIOUS
  <2>1. "codex" \in Places /\ "codex" \notin Accounts
    BY CommandsAssumption DEF Places
  <2>2. PICK p \in Processes : Put(p) /\ (Write(p) \/ WriteThenFail(p)) /\ account[p] = "codex"
    BY <1>1, <2>1, StoreChanges
  <2>3. Agent(p) = "codex" /\ pc[p] = "writing" /\ store'["codex"] = Text(p)
    BY <1>1, <2>1, <2>2, PutTypes
  <2>4. pc'[p] = "idle"
    BY <1>1, <2>2 DEF Write, WriteThenFail, Returns, Leaves, IInv, TypeOK
  <2>5. Unexpired(Text(p), 0) \/ call[p].force
    BY <1>1, <2>2, <2>3, PutPasses
  <2> QED
    BY <2>3, <2>4, <2>5
<1> QED
  BY <1>1, InductiveInvariant, PTL DEF Spec, OnlyForceWritesExpired

(* A usable store becomes unusable in the Keychain only, by an --import or  *)
(* by a --refresh that was answered with something else than tokens.       *)
THEOREM OnlyUncheckedWritesSpoil == Spec => SpoiledOnlyUnchecked
<1>1. ASSUME IInv, [Next]_vars
      PROVE  [\A m \in Places :
                LET agent == IF m = "codex" THEN "codex" ELSE "claude"
                IN  store'[m] \notin {store[m], Nothing} =>
                       \/ Usable(agent, store'[m])
                       \/ store[m] # Nothing /\ ~Usable(agent, store[m])
                       \/ \E p \in Processes : pc[p] = "writing" /\ UsesKeychain(p) /\ Unchecked(p)]_vars
  <2> SUFFICES ASSUME NEW m \in Places, NEW agent, agent = IF m = "codex" THEN "codex" ELSE "claude",
                      store'[m] # store[m], store'[m] # Nothing
               PROVE  \/ Usable(agent, store'[m])
                      \/ store[m] # Nothing /\ ~Usable(agent, store[m])
                      \/ \E p \in Processes : pc[p] = "writing" /\ UsesKeychain(p) /\ Unchecked(p)
    OBVIOUS
  <2>1. "codex" \notin Accounts
    BY CommandsAssumption
  <2>2. ASSUME NEW p \in Processes, Put(p), m = account[p]
        PROVE  Usable(agent, store'[m]) \/ (pc[p] = "writing" /\ UsesKeychain(p) /\ Unchecked(p))
    <3>1. pc[p] = "writing" /\ Agent(p) = agent /\ store'[m] = Text(p)
      BY <1>1, <2>1, <2>2, PutTypes DEF Agents
    <3> QED
      BY <1>1, <2>2, <3>1, PutPasses
  <2>3. m \in Accounts => agent = "claude"
    BY <2>1
  <2> QED
    BY <1>1, <2>2, <2>3, StoreChanges
<1> QED
  BY <1>1, InductiveInvariant, PTL DEF Spec, SpoiledOnlyUnchecked

(* Exit status 0 means that the agent reads what was written, unless the   *)
(* credentials were replaced meanwhile: claude.py:132 to 159.              *)
THEOREM SuccessShows == Spec => SuccessIsVisible
<1>1. ASSUME IInv, [Next]_vars
      PROVE  [\A p \in Processes :
                exit'[p] = "success" /\ exit[p] # "success" /\ Mode(p) # "show" /\ ~raced[p] =>
                   IF Agent(p) = "codex" THEN store'["codex"] = payload[p]
                   ELSE /\ \E n \in Accounts : store'[n] # Nothing
                        /\ \A n \in Accounts : store'[n] \in {Nothing, Stored("claude", payload[p])}]_vars
  <2> SUFFICES ASSUME NEW p \in Processes, exit'[p] = "success", exit[p] # "success", Mode(p) # "show",
                      ~raced[p]
               PROVE  IF Agent(p) = "codex" THEN store'["codex"] = payload[p]
                      ELSE /\ \E n \in Accounts : store'[n] # Nothing
                           /\ \A n \in Accounts : store'[n] \in {Nothing, Stored("claude", payload[p])}
    OBVIOUS
  <2>1. Write(p)
    BY <1>1, ExitChanges
  <2>2. Put(p) /\ pc[p] = "writing" /\ NotOvertaken(p)
    BY <1>1, <2>1, PutTypes DEF Write, IInv
  <2>3. CASE Agent(p) = "codex"
    BY <1>1, <2>2, <2>3, PutTypes, PutPasses
  <2>4. CASE Agent(p) # "codex"
    <3>1. Text(p) = Stored("claude", payload[p]) /\ (KeychainService => UsesKeychain(p))
      BY <1>1, <2>2, <2>4, PutTypes DEF Text, Agents, UsesKeychain
    <3>2. /\ account[p] \in Accounts /\ store'[account[p]] = Text(p) /\ Text(p) # Nothing
          /\ \A n \in Accounts : n # account[p] => store'[n] = store[n]
      BY <1>1, <2>2, <2>4, PutTypes
    <3>3. \A n \in Accounts : n # account[p] => store[n] = Nothing
      BY <2>2, <3>1, <3>2, CommandsAssumption DEF NotOvertaken, Existing
    <3> QED
      BY <2>4, <3>1, <3>2, <3>3
  <2> QED
    BY <2>3, <2>4
<1> QED
  BY <1>1, InductiveInvariant, PTL DEF Spec, SuccessIsVisible
=============================================================================
