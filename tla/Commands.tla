------------------------------ MODULE Commands ------------------------------
(***************************************************************************)
(* The commands that change the stores of one machine, side by side: each  *)
(* process calls main (cli.py) several times, as an embedding program or a *)
(* test does, while the agents log in and out, edit their documents and    *)
(* renew their tokens.                                                     *)
(*                                                                         *)
(* Claude's store is one file or, on macOS, the Keychain items of one      *)
(* service, each under an account name; Codex's is a file.  The two files  *)
(* are replaced atomically (module FileStore).                             *)
(*                                                                         *)
(* A document here has, beside what Credentials distinguishes, `token':    *)
(* the refresh token it carries, a number, 0 for one of no interest; and   *)
(* `rest': the version of everything else in it.  A live token is one that *)
(* the token server accepts.  It may be set to replace a refresh token     *)
(* with every use (`rotates').                                             *)
(***************************************************************************)
EXTENDS Credentials

CONSTANTS
    Nothing,
    Processes,
    Accounts,         \* the names of Claude's items; of its file, where there is no Keychain
    Calls,            \* what main may be called with
    FirstDoc,         \* Claude's document at first
    MaxCalls,         \* bound: calls of all processes
    MaxTokens,        \* bound: tokens the server issues
    MaxEdits          \* bound: versions

Modes == {"import", "receive", "request", "refresh", "show"}

Docs == [form : Forms, shape : Shapes, exp : Nat, due : {"fine", "odd"}, token : Nat, rest : Nat]

CallSet == [mode : Modes, agent : Agents, force : BOOLEAN, doc : Docs]

Places == Accounts \cup {"codex"}

ASSUME CommandsAssumption ==
    /\ Accounts # {} /\ "codex" \notin Accounts
    /\ ~KeychainService => \A m, n \in Accounts : m = n
    /\ Calls # {} /\ Calls \subseteq CallSet
    /\ FirstDoc \in Docs /\ FirstDoc.token = 1 /\ Usable("claude", FirstDoc)
    /\ \A c \in Calls : c.doc.token <= 1
    /\ Nothing \notin Docs

VARIABLES
    \* of a process
    pc, call,
    backend, forceWrite,  \* credentials._backend, codex.FORCE_WRITE
    payload,              \* the document it has read or is about to write
    fresh,                \* the refresh token it got, 0 for none
    sound,                \* whether the tokens it got are both non-empty strings
    account,              \* where it will write
    exit, calls,
    \* of the machine and the token server
    store, live, issued, rotates, edits,
    \* history
    raced,                \* whether someone else replaced the credentials during the call
    since,                \* the versions Claude's store has held since the tokens came
    excused               \* tokens lost by a fault, or on purpose

localVars == <<call, payload, fresh, sound, account>>

processVars == <<backend, localVars>>
serverVars == <<live, issued, rotates>>
vars == <<pc, processVars, forceWrite, exit, calls, store, serverVars, edits, raced, since, excused>>

Existing == {n \in Accounts : store[n] # Nothing}

Held == {store[n].token : n \in Existing}

Versions == {store[n].rest : n \in Existing}

(* One item at most; a file is one anyway. *)
Single == \A m, n \in Existing : m = n

AnyCall == CHOOSE c \in Calls : TRUE

Init ==
    /\ pc = [p \in Processes |-> "idle"] /\ call = [p \in Processes |-> AnyCall]
    /\ backend = [p \in Processes |-> "claude"] /\ forceWrite = [p \in Processes |-> FALSE]
    /\ payload = [p \in Processes |-> FirstDoc] /\ fresh = [p \in Processes |-> 0]
    /\ sound = [p \in Processes |-> TRUE]
    /\ account = [p \in Processes |-> "codex"] /\ exit = [p \in Processes |-> "none"] /\ calls = 0
    /\ \E n \in Accounts : store = [m \in Places |-> IF m = n THEN FirstDoc ELSE Nothing]
    /\ live = {1} /\ issued = 1 /\ rotates \in BOOLEAN /\ edits = FirstDoc.rest
    /\ raced = [p \in Processes |-> FALSE] /\ since = [p \in Processes |-> {}] /\ excused = {}
---------------------------------------------------------------------------
(* main *)

Mode(p) == call[p].mode
Agent(p) == call[p].agent

UsesKeychain(p) == KeychainService /\ Agent(p) = "claude"

(* A refresh that has got tokens and has not written them yet. *)
Holding(p) == Mode(p) = "refresh" /\ pc[p] \in {"rereading", "finding", "writing"}

(* Mutant: set_backend leaves the flags alone. *)
SetBackendOnly(p, agent, force) ==
    /\ backend' = [backend EXCEPT ![p] = agent]
    /\ forceWrite' = [forceWrite EXCEPT ![p] = @ \/ (agent = "codex" /\ force)]

(* set_backend, and the flag that --force then sets: only the backend that *)
(* is chosen gets its flags reset.                                         *)
SetBackend(p, agent, force) ==
    /\ backend' = [backend EXCEPT ![p] = agent]
    /\ forceWrite' = [forceWrite EXCEPT ![p] = IF agent = "codex" THEN force ELSE @]

(* --receive starts with the backend it is pinned to, or with Claude's;    *)
(* --request chooses none.                                                 *)
Start(p, c) ==
    /\ pc[p] = "idle" /\ calls < MaxCalls
    /\ calls' = calls + 1
    /\ pc' = [pc EXCEPT ![p] = "entered"] /\ call' = [call EXCEPT ![p] = c]
    /\ exit' = [exit EXCEPT ![p] = "none"]
    /\ raced' = [raced EXCEPT ![p] = ~Single]
    /\ IF c.mode = "request" THEN UNCHANGED <<backend, forceWrite>>
       ELSE \E a \in {c.agent} \cup (IF c.mode = "receive" THEN {"claude"} ELSE {}) :
              SetBackend(p, a, c.mode = "import" /\ c.force)
    /\ UNCHANGED <<payload, fresh, sound, account, store, serverVars, edits, since, excused>>

(* main is left, and its locals are gone. *)
Leaves(p, how) ==
    /\ pc' = [pc EXCEPT ![p] = "idle"] /\ exit' = [exit EXCEPT ![p] = how]
    /\ call' = [call EXCEPT ![p] = AnyCall] /\ payload' = [payload EXCEPT ![p] = FirstDoc]
    /\ fresh' = [fresh EXCEPT ![p] = 0] /\ sound' = [sound EXCEPT ![p] = TRUE]
    /\ account' = [account EXCEPT ![p] = "codex"]
    /\ UNCHANGED <<backend, calls, rotates, edits>>

Forgets(p) == raced' = [raced EXCEPT ![p] = FALSE] /\ since' = [since EXCEPT ![p] = {}]

(* The finally clauses of main and, for its own backend, of                *)
(* request_credentials.                                                    *)
ResetForce(p) ==
    forceWrite' = [forceWrite EXCEPT ![p] =
                      @ /\ backend[p] # "codex" /\ ~(Mode(p) = "request" /\ Agent(p) = "codex")]

Returns(p, how) == Leaves(p, how) /\ ResetForce(p)

(* The account of a file is its path. *)
AuthPath == CHOOSE n \in Accounts : TRUE

Aim(p) == account' = [account EXCEPT ![p] = IF Agent(p) = "codex" THEN "codex" ELSE AuthPath]

(* creds.write *)
ToWrite(p, doc) ==
    /\ pc' = [pc EXCEPT ![p] = IF UsesKeychain(p) THEN "finding" ELSE "writing"]
    /\ payload' = [payload EXCEPT ![p] = doc]
    /\ Aim(p)

Dispatch(p) ==
    /\ pc[p] = "entered"
    /\ \/ /\ Mode(p) = "import" /\ ToWrite(p, call[p].doc)
       \/ /\ Mode(p) = "refresh" /\ pc' = [pc EXCEPT ![p] = "extracting"]
          /\ UNCHANGED <<payload, account>>
       \/ /\ Mode(p) \in {"receive", "request"} /\ pc' = [pc EXCEPT ![p] = "validating"]
          /\ UNCHANGED <<payload, account>>
    /\ UNCHANGED <<call, backend, fresh, sound, forceWrite, exit, calls, store, serverVars, edits, raced,
                   since, excused>>

(* --raw, --simple, --oauth-only and --send read, and change nothing. *)
Show(p) ==
    /\ pc[p] = "entered" /\ Mode(p) = "show"
    /\ Returns(p, "success") /\ Forgets(p)
    /\ UNCHANGED <<store, live, issued, excused>>

(* Ctrl-C, an OSError or anything else that is raised, at any point: what  *)
(* a refresh holds is lost.  Before the try of main no clause resets.      *)
Fails(p) ==
    /\ pc[p] # "idle"
    /\ Leaves(p, "failure") /\ Forgets(p)
    /\ IF pc[p] = "entered" THEN UNCHANGED forceWrite ELSE ResetForce(p)
    /\ excused' = excused \cup (IF Holding(p) THEN {fresh[p]} ELSE {})
    /\ UNCHANGED <<store, live, issued>>
---------------------------------------------------------------------------
(* --refresh *)

(* extract_oauth_tokens: the document is read, and its tokens taken, which *)
(* are checked for being there and not for being strings.                  *)
Extract(p) ==
    /\ pc[p] = "extracting" /\ Agent(p) = "claude"
    /\ \E n \in Existing :
          /\ Parses("claude", store[n]) /\ (store[n].shape = "claude" \/ store[n].token # 0)
          /\ payload' = [payload EXCEPT ![p] = store[n]]
    /\ pc' = [pc EXCEPT ![p] = "posting"]
    /\ UNCHANGED <<call, backend, fresh, sound, account, forceWrite, exit, calls, store, serverVars, edits,
                   raced, since, excused>>

(* The server uses a token up and issues another, or leaves it as it is. *)
Rotation(old) ==
    /\ old \in live
    /\ IF rotates
       THEN /\ issued < MaxTokens
            /\ issued' = issued + 1 /\ live' = (live \ {old}) \cup {issued + 1}
       ELSE UNCHANGED <<live, issued>>
    /\ UNCHANGED rotates

Successor(old) == IF rotates THEN issued + 1 ELSE old

(* claude.refresh_tokens: of the answer it checks only that there is some  *)
(* access token.  Either token may be something other than a non-empty     *)
(* string, and then there may be no refresh token to keep.                 *)
Post(p) ==
    /\ pc[p] = "posting"
    /\ Rotation(payload[p].token)
    /\ LET next == Successor(payload[p].token)
       IN  \E good \in BOOLEAN, t \in {0, next} :
              /\ good => t = next
              /\ sound' = [sound EXCEPT ![p] = good] /\ fresh' = [fresh EXCEPT ![p] = t]
              /\ excused' = excused \cup (IF t = 0 THEN {next} ELSE {})
    /\ since' = [since EXCEPT ![p] = Versions]
    /\ pc' = [pc EXCEPT ![p] = "rereading"]
    /\ UNCHANGED <<call, backend, payload, account, forceWrite, exit, calls, store, edits, raced>>

(* The answer is lost, or of no use; an unknown token is answered by an    *)
(* error, which is a Fails.                                                *)
PostLost(p) ==
    /\ pc[p] = "posting"
    /\ Rotation(payload[p].token)
    /\ Returns(p, "failure") /\ Forgets(p)
    /\ excused' = excused \cup {Successor(payload[p].token)}
    /\ UNCHANGED store

(* Mutant: the new access token is stored with the old refresh token. *)
MergedKeepingRefreshToken(p, doc) ==
    [form |-> "object", shape |-> IF sound[p] THEN "claude" ELSE "neither", exp |-> doc.exp,
     due |-> "fine", token |-> payload[p].token, rest |-> doc.rest]

(* The tokens that came go into the document as they are. *)
Merged(p, doc) ==
    [form |-> "object", shape |-> IF sound[p] THEN "claude" ELSE "neither", exp |-> doc.exp,
     due |-> "fine", token |-> fresh[p], rest |-> doc.rest]

(* Mutant: the document is the one the old tokens were taken from. *)
ReReadNothing(p) ==
    /\ pc[p] = "rereading"
    /\ ToWrite(p, Merged(p, payload[p]))
    /\ UNCHANGED <<call, backend, fresh, sound, forceWrite, exit, calls, store, serverVars, edits, raced,
                   since, excused>>

(* read_json, a second time *)
ReRead(p) ==
    /\ pc[p] = "rereading"
    /\ \E n \in Existing :
          /\ Parses("claude", store[n])
          /\ ToWrite(p, Merged(p, store[n]))
    /\ UNCHANGED <<call, backend, fresh, sound, forceWrite, exit, calls, store, serverVars, edits, raced,
                   since, excused>>
---------------------------------------------------------------------------
(* What is imported, and the write *)

(* Mutant: a document that parses is good enough. *)
ValidateLoosely(p) ==
    /\ pc[p] = "validating"
    /\ Parses(Agent(p), call[p].doc)
    /\ IF Mode(p) = "receive" THEN SetBackend(p, Agent(p), call[p].force)
       ELSE UNCHANGED <<backend, forceWrite>>
    /\ ToWrite(p, call[p].doc)
    /\ UNCHANGED <<call, fresh, sound, exit, calls, store, serverVars, edits, raced, since, excused>>

(* --receive resets and sets the flag as it chooses the backend, --request *)
(* does so for its own; both validate before they write.                   *)
Validate(p) ==
    /\ pc[p] = "validating"
    /\ Parses(Agent(p), call[p].doc)
    /\ IF Mode(p) = "receive" THEN SetBackend(p, Agent(p), call[p].force)
       ELSE /\ forceWrite' = [forceWrite EXCEPT ![p] = IF Agent(p) = "codex" THEN call[p].force ELSE @]
            /\ UNCHANGED backend
    /\ ValidateBlob(Agent(p), call[p].doc, forceWrite'[p], 0)
    /\ ToWrite(p, call[p].doc)
    /\ UNCHANGED <<call, fresh, sound, exit, calls, store, serverVars, edits, raced, since, excused>>

(* Mutant: the account is not looked up but taken from the user's name. *)
FindUser(p) ==
    /\ pc[p] = "finding"
    /\ Aim(p)
    /\ pc' = [pc EXCEPT ![p] = "writing"]
    /\ UNCHANGED <<call, backend, payload, fresh, sound, forceWrite, exit, calls, store, serverVars, edits,
                   raced, since, excused>>

(* _find_account_keychain; no item at all is a failure. *)
Find(p) ==
    /\ pc[p] = "finding"
    /\ \E n \in Existing : account' = [account EXCEPT ![p] = n]
    /\ pc' = [pc EXCEPT ![p] = "writing"]
    /\ UNCHANGED <<call, backend, payload, fresh, sound, forceWrite, exit, calls, store, serverVars, edits,
                   raced, since, excused>>

(* Whoever else is at work finds other credentials than a moment ago: with *)
(* a refresh only if it was itself overtaken.                              *)
Replaces(p) == Agent(p) = "claude" /\ (Mode(p) # "refresh" \/ raced[p])

RacesOthers(p) ==
    raced' = [q \in Processes |-> q # p /\ (raced[q] \/ (Replaces(p) /\ pc[q] # "idle"))]

(* For the histories: Claude's store comes to hold a version. *)
Shows(version) == [q \in Processes |-> IF Holding(q) THEN since[q] \cup {version} ELSE since[q]]

(* The store is replaced: a Keychain item is updated, or created if it has *)
(* gone meanwhile, without a check.  The files are written after one.      *)
Put(p) ==
    /\ pc[p] = "writing"
    /\ WriteAccepts(Agent(p), payload[p], forceWrite[p], 0)
    /\ store' = [store EXCEPT ![account[p]] = Stored(Agent(p), payload[p])]
    /\ RacesOthers(p)
    /\ since' = [IF Agent(p) = "claude" THEN Shows(payload[p].rest) ELSE since EXCEPT ![p] = {}]
    /\ UNCHANGED <<live, issued>>

(* The token that goes with an excuse: replaced by other credentials, or by *)
(* none where an answer had no refresh token.                               *)
Overwritten(p) ==
    IF (Replaces(p) \/ (Holding(p) /\ fresh[p] = 0)) /\ store[account[p]] # Nothing
    THEN {store[account[p]].token} ELSE {}

Write(p) ==
    /\ Put(p)
    /\ Returns(p, "success")
    /\ excused' = excused \cup Overwritten(p)

(* security is killed after its timeout, a refresh or --verbose cannot     *)
(* show the date it has written, or Ctrl-C: a failure after the fact.      *)
WriteThenFail(p) ==
    /\ Put(p)
    /\ Returns(p, "failure")
    /\ excused' = excused \cup Overwritten(p)
---------------------------------------------------------------------------
(* The agent, and the token on other machines *)

AgentStep == UNCHANGED <<pc, processVars, forceWrite, exit, calls, rotates>>

RacesAll == raced' = [q \in Processes |-> raced[q] \/ pc[q] # "idle"]

(* A login leaves one item. *)
Login ==
    /\ issued < MaxTokens
    /\ issued' = issued + 1 /\ live' = live \cup {issued + 1}
    /\ \E n \in Accounts :
          store' = [m \in Places |-> IF m = n THEN [FirstDoc EXCEPT !.token = issued + 1]
                                     ELSE IF m = "codex" THEN store[m] ELSE Nothing]
    /\ excused' = excused \cup Held
    /\ RacesAll /\ since' = Shows(FirstDoc.rest)
    /\ AgentStep /\ UNCHANGED edits

Logout ==
    /\ Existing # {}
    /\ store' = [m \in Places |-> IF m = "codex" THEN store[m] ELSE Nothing]
    /\ excused' = excused \cup Held
    /\ RacesAll
    /\ AgentStep /\ UNCHANGED <<live, issued, edits, since>>

Edit(n) ==
    /\ n \in Existing /\ edits < MaxEdits
    /\ edits' = edits + 1
    /\ store' = [store EXCEPT ![n].rest = edits + 1]
    /\ since' = Shows(edits + 1)
    /\ AgentStep /\ UNCHANGED <<live, issued, raced, excused>>

AgentRefresh(n) ==
    /\ n \in Existing /\ rotates
    /\ Rotation(store[n].token)
    /\ store' = [store EXCEPT ![n].token = Successor(store[n].token)]
    /\ AgentStep /\ UNCHANGED <<edits, raced, since, excused>>

(* The same credentials are refreshed on a machine they were sent to. *)
RefreshElsewhere(t) ==
    /\ rotates
    /\ Rotation(t)
    /\ excused' = excused \cup {Successor(t)}
    /\ AgentStep /\ UNCHANGED <<store, edits, raced, since>>

ProcessStep(p) ==
    \/ \E c \in Calls : Start(p, c)
    \/ Dispatch(p) \/ Show(p) \/ Fails(p) \/ Extract(p) \/ Post(p) \/ PostLost(p) \/ ReRead(p)
    \/ Validate(p) \/ Find(p) \/ Write(p) \/ WriteThenFail(p)

Next ==
    \/ \E p \in Processes : ProcessStep(p)
    \/ Login \/ Logout
    \/ \E n \in Accounts : Edit(n) \/ AgentRefresh(n)
    \/ \E t \in live : RefreshElsewhere(t)

Spec == Init /\ [][Next]_vars
---------------------------------------------------------------------------
(* Properties *)

TypeOK ==
    /\ pc \in [Processes -> {"idle", "entered", "extracting", "posting", "rereading", "validating",
                             "finding", "writing"}]
    /\ call \in [Processes -> Calls]
    /\ backend \in [Processes -> Agents] /\ forceWrite \in [Processes -> BOOLEAN]
    /\ payload \in [Processes -> Docs] /\ fresh \in [Processes -> Nat] /\ sound \in [Processes -> BOOLEAN]
    /\ account \in [Processes -> Places] /\ exit \in [Processes -> {"none", "success", "failure"}]
    /\ calls \in Nat
    /\ store \in [Places -> Docs \cup {Nothing}]
    /\ live \subseteq Nat /\ issued \in Nat /\ rotates \in BOOLEAN /\ edits \in Nat
    /\ raced \in [Processes -> BOOLEAN] /\ since \in [Processes -> SUBSET Nat] /\ excused \subseteq Nat

(* No live token gets lost, though refreshes, imports and the agent use    *)
(* one store without a lock: it is in the store, or a running refresh is   *)
(* about to put it there, or its loss has an excuse: a fault hit between   *)
(* the rotation and the write, an import, login or logout replaced it, a   *)
(* refresh overtaken by one of these did, the answer had no refresh token  *)
(* in it, or another machine has it.  That the server uses up the old      *)
(* token is what keeps two refreshes apart.                                *)
Custody ==
    \A t \in live : t \in Held \cup excused \/ \E p \in Processes : Holding(p) /\ t = fresh[p]

(* What a refresh is about to write back is a version that the store held  *)
(* after the tokens came, not one from before the wait for the server.     *)
MergesLateVersion ==
    \A p \in Processes : Holding(p) /\ pc[p] # "rereading" => payload[p].rest \in since[p]

(* A command that exits 0 has made its document the one its agent reads,   *)
(* unless the credentials were replaced behind its back, or Claude had two *)
(* items when the call began: which of them the agent reads is not said.   *)
SuccessIsVisible ==
    [][\A p \in Processes :
          exit'[p] = "success" /\ exit[p] # "success" /\ Mode(p) # "show" /\ ~raced[p] =>
             IF Agent(p) = "codex" THEN store'["codex"] = payload[p]
             ELSE /\ \E n \in Accounts : store'[n] # Nothing
                  /\ \A n \in Accounts : store'[n] \in {Nothing, Stored("claude", payload[p])}]_vars

(* An expired Codex token gets into the store by a call with --force only, *)
(* however many calls the process made before and wherever they ended.     *)
OnlyForceWritesExpired ==
    [][store'["codex"] # store["codex"] =>
          \/ Unexpired(store'["codex"], 0)
          \/ \E p \in Processes : pc[p] = "writing" /\ pc'[p] = "idle" /\ Agent(p) = "codex" /\ call[p].force]_vars

(* A call that has checked nothing of what it writes. *)
Unchecked(p) == Mode(p) = "import" \/ (Mode(p) = "refresh" /\ ~sound[p])

(* A store an agent can start from is made unusable in the Keychain only,  *)
(* whose write checks nothing, and there by the two calls that check       *)
(* nothing before: an --import, and a --refresh that was answered with a   *)
(* token that is no string or empty.  A refresh also repairs a store.      *)
SpoiledOnlyUnchecked ==
    [][\A m \in Places :
          LET agent == IF m = "codex" THEN "codex" ELSE "claude"
          IN  store'[m] \notin {store[m], Nothing} =>
                 \/ Usable(agent, store'[m])
                 \/ store[m] # Nothing /\ ~Usable(agent, store[m])
                 \/ \E p \in Processes : pc[p] = "writing" /\ UsesKeychain(p) /\ Unchecked(p)]_vars
---------------------------------------------------------------------------
(* Inductive invariant *)

(* The refresh token a process would use or store. *)
Known(p) ==
    IF pc[p] = "posting" THEN {payload[p].token} ELSE IF Holding(p) THEN {fresh[p]} ELSE {}

(* What a process has established by the time it is where it is. *)
Stage(p) ==
    /\ pc[p] \notin {"idle", "entered"} => Mode(p) # "show"
    /\ pc[p] \in {"extracting", "posting", "rereading"} => Mode(p) = "refresh"
    /\ pc[p] = "posting" => Agent(p) = "claude"
    /\ pc[p] = "validating" => Mode(p) \in {"receive", "request"}
    /\ pc[p] = "finding" => UsesKeychain(p)
    /\ pc[p] = "writing" => IF Agent(p) = "codex" THEN account[p] = "codex" ELSE account[p] \in Accounts
    /\ Holding(p) => Agent(p) = "claude"
    /\ Holding(p) /\ pc[p] # "rereading" => payload[p].token = fresh[p]
    /\ pc[p] \in {"finding", "writing"} /\ Mode(p) # "import" =>
          Usable(Agent(p), payload[p]) \/ (Mode(p) = "refresh" /\ ~sound[p])
    /\ Holding(p) /\ fresh[p] = 0 => ~sound[p]
    /\ pc[p] = "writing" \/ (pc[p] = "entered" /\ Mode(p) = "import") =>
          (Agent(p) = "codex" /\ forceWrite[p] => call[p].force)

(* A process that was not overtaken knows which item there is. *)
NotOvertaken(p) ==
    ~raced[p] /\ pc[p] # "idle" =>
        /\ Single
        /\ pc[p] = "writing" /\ UsesKeychain(p) => Existing = {account[p]}

Late(p) == Holding(p) => Versions \subseteq since[p] /\ (pc[p] # "rereading" => payload[p].rest \in since[p])

(* The server numbers its tokens. *)
Numbered ==
    /\ issued >= 1
    /\ \A t \in live \cup Held : t <= issued
    /\ 0 \notin live
    /\ \A p \in Processes : payload[p].token <= issued /\ fresh[p] <= issued

(* Of the tokens in the store and with those not overtaken, one is live.    *)
OneLive ==
    \A p \in Processes : ~raced[p] =>
        \A t \in Known(p) \cap live :
            /\ \A s \in Held \cap live : s = t
            /\ \A q \in Processes : ~raced[q] => \A s \in Known(q) \cap live : s = t

(* A refresh that is not overtaken is alone: where tokens rotate, it has     *)
(* made the one in the store useless; elsewhere its token stays live.        *)
Alone(p) ==
    Holding(p) =>
        IF rotates
        THEN ~raced[p] => /\ Held \cap live = {}
                          /\ \A q \in Processes \ {p} : ~raced[q] => Known(q) \cap live = {}
        ELSE fresh[p] \in live \cup {0}

IInv ==
    /\ TypeOK /\ Numbered /\ OneLive /\ Custody
    /\ \A p \in Processes : Stage(p) /\ NotOvertaken(p) /\ Late(p) /\ Alone(p)
===========================================================================
