----------------------------- MODULE ExchangeNc -----------------------------
(***************************************************************************)
(* exchange_nc (request_daemon.py): a request pumped through a child `nc'. *)
(*                                                                         *)
(* One selector watches both pipes of the child: the request goes into its *)
(* standard input, the reply comes out of its standard output, and neither *)
(* may wait for the other.  One deadline covers all of it, and on every    *)
(* path through the finally clause the child is killed if it still runs,   *)
(* and waited for.  What a child does that was left behind is its own.     *)
(*                                                                         *)
(* Data is counted in units.  `taken' and `passed' count what nc has moved *)
(* from the one pipe to the network and from the network to the other.     *)
(***************************************************************************)
EXTENDS Naturals

CONSTANTS
    Frame,            \* the length of the request
    Replies,          \* the lengths its reply may have
    InCap, OutCap,    \* what the pipes hold
    Limit,            \* the longest reply wanted
    ExchangeTimeout

ASSUME ExchangeAssumption ==
    /\ Frame \in Nat \ {0} /\ Replies \subseteq Nat
    /\ InCap \in Nat \ {0} /\ OutCap \in Nat \ {0}
    /\ Limit \in Nat /\ ExchangeTimeout \in Nat \ {0}

VARIABLES
    pc, outcome,
    pending,          \* what is left of the request
    events,           \* the events of the last select not handled yet
    stdin, stdout,    \* TRUE while the selector watches the pipe
    total,            \* the length of what has been read
    budget,           \* what remaining() would find left
    nc, code,         \* the child, and its exit status
    inPipe, outPipe,  \* what the pipes hold
    taken, passed, half,
    reply, early      \* the peer: its reply's length, and whether it waits for the request's end

pumpVars == <<pc, outcome, pending, events, stdin, stdout, total>>
ncVars == <<nc, code, taken, passed, half>>
pipeVars == <<inPipe, outPipe>>
peerVars == <<reply, early>>
vars == <<pumpVars, budget, ncVars, pipeVars, peerVars>>

Init ==
    /\ pc = "starting" /\ outcome = "none" /\ pending = Frame /\ events = {}
    /\ stdin = TRUE /\ stdout = TRUE /\ total = 0 /\ budget = ExchangeTimeout
    /\ nc = "none" /\ code = "none" /\ inPipe = 0 /\ outPipe = 0
    /\ taken = 0 /\ passed = 0 /\ half = FALSE
    /\ reply \in Replies /\ early \in BOOLEAN
---------------------------------------------------------------------------
(* The pump *)

(* Popen *)
Spawn ==
    /\ pc = "starting"
    /\ pc' = "spawned" /\ nc' = "running"
    /\ UNCHANGED <<outcome, pending, events, stdin, stdout, total, budget, code, taken, passed, half,
                   pipeVars, peerVars>>

(* try *)
Enter ==
    /\ pc = "spawned"
    /\ pc' = "pumping"
    /\ UNCHANGED <<outcome, pending, events, stdin, stdout, total, budget, ncVars, pipeVars, peerVars>>

(* An exception leaves the body for the finally clause. *)
Raise(how) ==
    /\ outcome' = how /\ pc' = "reaping" /\ events' = {}
    /\ UNCHANGED <<pending, stdin, stdout, total, budget, ncVars, pipeVars, peerVars>>

(* Popen raises: there is no child to reap. *)
SpawnFails ==
    /\ pc = "starting"
    /\ outcome' = "failed" /\ pc' = "done"
    /\ UNCHANGED <<pending, events, stdin, stdout, total, budget, ncVars, pipeVars, peerVars>>

(* Mutant: the reply is read once the request is written. *)
ReadyInTurn ==
    {e \in {"in", "out"} :
        \/ e = "in" /\ stdin /\ (inPipe < InCap \/ nc # "running")
        \/ e = "out" /\ stdout /\ ~stdin /\ (outPipe > 0 \/ nc # "running")}

(* What the selector finds ready; a child that has exited makes both so.   *)
Ready ==
    {e \in {"in", "out"} :
        \/ e = "in" /\ stdin /\ (inPipe < InCap \/ nc # "running")
        \/ e = "out" /\ stdout /\ (outPipe > 0 \/ nc # "running")}

Select ==
    /\ pc = "pumping" /\ budget > 0 /\ Ready # {}
    /\ events' = Ready
    /\ pc' = "handling"
    /\ UNCHANGED <<outcome, pending, stdin, stdout, total, budget, ncVars, pipeVars, peerVars>>

(* Mutant: select has no timeout of its own, only the check before it. *)
SelectForever ==
    /\ pc = "pumping" /\ Ready # {} /\ budget = 0
    /\ Raise("failed")

(* remaining() raises, at once or after a select that found nothing. *)
SelectTimesOut ==
    /\ pc = "pumping" /\ (stdin \/ stdout) /\ budget = 0
    /\ Raise("failed")

Handled(e) == events' = events \ {e} /\ UNCHANGED <<pc, outcome, budget, peerVars>>

(* os.write: some of the request, as the pipe has room; its end closes it. *)
WriteStdin ==
    /\ pc = "handling" /\ "in" \in events /\ nc = "running"
    /\ \E n \in 1 .. pending :
          /\ inPipe + n <= InCap
          /\ inPipe' = inPipe + n
          /\ pending' = pending - n
    /\ stdin' = (pending' > 0)
    /\ Handled("in")
    /\ UNCHANGED <<stdout, total, ncVars, outPipe>>

(* The child has gone: BrokenPipeError. *)
WriteFails ==
    /\ pc = "handling" /\ "in" \in events /\ nc # "running"
    /\ Raise("failed")

(* Mutant: os.read takes all there is. *)
ReadStdoutUnbounded ==
    /\ pc = "handling" /\ "out" \in events /\ outPipe > 0
    /\ outPipe' = 0 /\ total' = total + outPipe
    /\ IF total' <= Limit THEN Handled("out")
       ELSE outcome' = "failed" /\ pc' = "reaping" /\ events' = {} /\ UNCHANGED <<budget, peerVars>>
    /\ UNCHANGED <<pending, stdin, stdout, ncVars, inPipe>>

(* os.read, of one unit more than the limit allows at most; one unit more  *)
(* raises ProtocolError.                                                   *)
ReadStdout ==
    /\ pc = "handling" /\ "out" \in events /\ outPipe > 0
    /\ \E n \in 1 .. outPipe :
          /\ total + n <= Limit + 1
          /\ outPipe' = outPipe - n
          /\ total' = total + n
    /\ IF total' <= Limit THEN Handled("out")
       ELSE outcome' = "failed" /\ pc' = "reaping" /\ events' = {} /\ UNCHANGED <<budget, peerVars>>
    /\ UNCHANGED <<pending, stdin, stdout, ncVars, inPipe>>

(* Mutant: the pipe is watched on past its end. *)
ReadEofAgain ==
    /\ pc = "handling" /\ "out" \in events /\ outPipe = 0
    /\ Handled("out")
    /\ UNCHANGED <<pending, stdin, stdout, total, ncVars, pipeVars>>

(* An empty read is the end of the reply. *)
ReadEof ==
    /\ pc = "handling" /\ "out" \in events /\ outPipe = 0
    /\ stdout' = FALSE
    /\ Handled("out")
    /\ UNCHANGED <<pending, stdin, total, ncVars, pipeVars>>

(* The loop goes round. *)
NextRound ==
    /\ pc = "handling" /\ events = {}
    /\ pc' = "pumping"
    /\ UNCHANGED <<outcome, pending, events, stdin, stdout, total, budget, ncVars, pipeVars, peerVars>>

(* The selector has nothing left to watch. *)
Finish ==
    /\ pc = "pumping" /\ ~stdin /\ ~stdout
    /\ pc' = "waiting"
    /\ UNCHANGED <<outcome, pending, events, stdin, stdout, total, budget, ncVars, pipeVars, peerVars>>

(* proc.wait(timeout=remaining(deadline)) *)
Wait ==
    /\ pc = "waiting" /\ nc = "exited" /\ budget > 0
    /\ Raise(IF code = "zero" THEN "reply" ELSE "failed")

WaitTimesOut ==
    /\ pc = "waiting" /\ budget = 0
    /\ Raise("failed")

(* Ctrl-C, in the try *)
Interrupted ==
    /\ pc \in {"pumping", "handling", "waiting"}
    /\ Raise("interrupted")

(* Ctrl-C where no finally clause is ahead: between Popen and the try, or  *)
(* in the clause itself before it has waited.                              *)
Abandoned ==
    /\ pc \in {"spawned", "reaping"}
    /\ pc' = "abandoned"
    /\ outcome' = IF outcome = "none" THEN "interrupted" ELSE outcome
    /\ UNCHANGED <<pending, events, stdin, stdout, total, budget, ncVars, pipeVars, peerVars>>

(* Mutant: the pipes are closed first, and the child ends by itself. *)
CloseInsteadOfKill ==
    /\ pc = "reaping" /\ nc = "running"
    /\ stdin' = FALSE /\ stdin
    /\ UNCHANGED <<pc, outcome, pending, events, stdout, total, budget, ncVars, pipeVars, peerVars>>

(* proc.poll() and proc.kill() *)
Kill ==
    /\ pc = "reaping" /\ nc = "running"
    /\ nc' = "exited" /\ code' = "killed"
    /\ UNCHANGED <<pumpVars, budget, taken, passed, half, pipeVars, peerVars>>

(* Mutant: the child is killed and forgotten. *)
ReapNothing ==
    /\ pc = "reaping" /\ nc = "exited"
    /\ pc' = "done" /\ UNCHANGED nc
    /\ UNCHANGED <<outcome, pending, events, stdin, stdout, total, budget, code, taken, passed, half,
                   pipeVars, peerVars>>

(* proc.wait() *)
Reap ==
    /\ pc = "reaping" /\ nc = "exited"
    /\ pc' = "done" /\ nc' = "reaped"
    /\ UNCHANGED <<outcome, pending, events, stdin, stdout, total, budget, code, taken, passed, half,
                   pipeVars, peerVars>>
---------------------------------------------------------------------------
(* nc, the peer behind it, and time *)

Attended == nc = "running" /\ pc # "abandoned"

(* There is something of the reply to pass on. *)
Offered == passed < reply /\ (early \/ half)

(* nc does one thing at a time: while it cannot pass the reply on, it takes *)
(* nothing of the request.                                                 *)
CanTake == inPipe > 0 /\ ~(Offered /\ outPipe = OutCap)

NcTakes ==
    /\ Attended /\ CanTake
    /\ inPipe' = inPipe - 1 /\ taken' = taken + 1
    /\ UNCHANGED <<pumpVars, budget, nc, code, passed, half, outPipe, peerVars>>

(* The end of its input: nc half-closes the connection. *)
CanHalfClose == inPipe = 0 /\ ~stdin /\ ~half

NcHalfCloses ==
    /\ Attended /\ CanHalfClose
    /\ half' = TRUE
    /\ UNCHANGED <<pumpVars, budget, nc, code, taken, passed, pipeVars, peerVars>>

CanPass == Offered /\ outPipe < OutCap

NcPasses ==
    /\ Attended /\ CanPass
    /\ outPipe' = outPipe + 1 /\ passed' = passed + 1
    /\ UNCHANGED <<pumpVars, budget, nc, code, taken, half, inPipe, peerVars>>

(* Everything has been moved, and the peer has closed. *)
CanFinish == half /\ passed = reply

NcFinishes ==
    /\ Attended /\ CanFinish
    /\ nc' = "exited" /\ code' = "zero"
    /\ UNCHANGED <<pumpVars, budget, taken, passed, half, pipeVars, peerVars>>

(* No connection, a reset, a timeout of its own, or a peer that closes     *)
(* early: nc gives up, with whatever exit status.                          *)
NcGivesUp ==
    /\ Attended
    /\ nc' = "exited" /\ code' \in {"zero", "other"}
    /\ UNCHANGED <<pumpVars, budget, taken, passed, half, pipeVars, peerVars>>

Tick ==
    /\ pc \notin {"starting", "done", "abandoned"} /\ budget > 0
    /\ budget' = budget - 1
    /\ UNCHANGED <<pumpVars, ncVars, pipeVars, peerVars>>

Pump ==
    \/ Spawn \/ SpawnFails \/ Enter \/ Select \/ SelectTimesOut \/ WriteStdin \/ WriteFails
    \/ ReadStdout \/ ReadEof \/ NextRound \/ Finish \/ Wait \/ WaitTimesOut \/ Kill \/ Reap

Nc == NcTakes \/ NcHalfCloses \/ NcPasses \/ NcFinishes

Next == Pump \/ Nc \/ NcGivesUp \/ Interrupted \/ Abandoned \/ Tick

Spec == Init /\ [][Next]_vars

(* The calls of the pump return; Ctrl-C is not relied on. *)
FairExchange == Spec /\ WF_vars(Pump)
---------------------------------------------------------------------------
(* Properties *)

(* The bound on `total' is the memory a reply may take. *)
TypeOK ==
    /\ pc \in {"starting", "spawned", "pumping", "handling", "waiting", "reaping", "done", "abandoned"}
    /\ outcome \in {"none", "reply", "failed", "interrupted"}
    /\ pending \in 0 .. Frame /\ total \in 0 .. Limit + 1
    /\ events \subseteq {"in", "out"} /\ stdin \in BOOLEAN /\ stdout \in BOOLEAN
    /\ budget \in 0 .. ExchangeTimeout
    /\ nc \in {"none", "running", "exited", "reaped"} /\ code \in {"none", "zero", "other", "killed"}
    /\ inPipe \in 0 .. InCap /\ outPipe \in 0 .. OutCap
    /\ taken \in Nat /\ passed \in Nat /\ half \in BOOLEAN
    /\ reply \in Replies /\ early \in BOOLEAN

(* Whichever way the body is left, at the end of the finally clause the    *)
(* child is dead and waited for.  An interrupt that misses the clause may  *)
(* leave it behind (Abandoned).                                            *)
Reaped == pc = "done" => nc \in {"none", "reaped"}

(* The peer sees the end of the request only once it has all of it, also   *)
(* when the exchange is given up; and what is returned as the reply is all *)
(* that came, within the limit, for a request that went out whole.         *)
WholeExchange ==
    /\ half => taken = Frame
    /\ outcome = "reply" => pending = 0 /\ total = passed /\ total <= Limit /\ code = "zero"

(* The pump keeps what an exchange promises (ExchangePromise).             *)
Promise == INSTANCE ExchangePromise
             WITH delivered <- taken, ended <- half, replied <- passed,
                  got <- IF outcome = "reply" THEN total ELSE 0, over <- pc = "done"

KeepsPromise == Promise!Spec

(* The pump and nc never wait for each other: while a pipe is watched and   *)
(* nc runs, one of them has something to do, however small the pipes are   *)
(* and however early the peer begins to reply.                             *)
NeitherWaits ==
    pc = "pumping" /\ nc = "running" =>
        Ready # {} \/ CanTake \/ CanHalfClose \/ CanPass \/ CanFinish

(* What an exchange has left to do: each unit crosses a pipe in two moves, *)
(* and a round of the selector costs less than any move it makes.          *)
EndsToCome ==
    (IF stdout THEN 1 ELSE 0) + (IF half THEN 0 ELSE 1) + (IF nc \in {"none", "running"} THEN 1 ELSE 0)

Moves == 2 * pending + inPipe + 2 * (reply - passed) + outPipe + EndsToCome

Stage ==
    CASE pc = "starting" -> 5
      [] pc = "spawned"  -> 4
      [] pc = "handling" -> IF events = {} THEN 4 ELSE 2
      [] pc = "pumping"  -> 3
      [] pc = "waiting"  -> 2
      [] pc = "reaping"  -> 1
      [] pc \in {"done", "abandoned"} -> 0

Effort == 3 * Moves + Stage + budget

(* The selector never spins: nothing that happens, in whatever order, is   *)
(* without progress, so that only a bounded number of calls is ever made,  *)
(* though the end of a pipe and a dead child make select return at once.   *)
NeverSpins == [][Effort' \in 0 .. Effort - 1]_vars

(* The exchange ends, whatever nc does or fails to do, because time passes. *)
ExchangeEnds == WF_vars(Tick) => <>(pc \in {"done", "abandoned"})

(* Inductive invariant: where the pump is tells what runs, nothing of the  *)
(* request or the reply gets lost, and an end of file comes from a child   *)
(* that has exited.                                                        *)
Child ==
    /\ pc = "starting" => nc = "none" /\ stdout
    /\ pc = "spawned" => stdout
    /\ pc \in {"spawned", "pumping", "handling", "waiting", "reaping", "abandoned"} =>
          nc \in {"running", "exited"}
    /\ pc \in {"reaping", "done", "abandoned"} <=> outcome # "none"
    /\ Reaped

Moved ==
    /\ pending + inPipe + taken = Frame /\ total + outPipe = passed
    /\ (stdin <=> pending > 0) /\ (half => taken = Frame)
    /\ passed <= reply

Ends ==
    /\ pc # "handling" => events = {}
    /\ "out" \in events => stdout /\ (outPipe > 0 \/ nc # "running")
    /\ ~stdout => outPipe = 0 /\ nc # "running"
    /\ pc \in {"starting", "spawned", "pumping", "handling", "waiting"} => total <= Limit
    /\ pc = "waiting" => ~stdin /\ ~stdout
    /\ outcome = "reply" => nc # "running"

IInv == TypeOK /\ Child /\ Moved /\ Ends /\ WholeExchange

(* What excuses a missing reply. *)
Troubled ==
    \/ budget = 0 \/ reply > Limit
    \/ outcome = "failed" /\ nc = "none"
    \/ code = "other" \/ (code = "zero" /\ ~CanFinish)
    \/ outcome = "interrupted"

(* The two pipes never wait for each other: with an nc that works, a reply *)
(* within the limit arrives without any help of the deadline, however      *)
(* small the pipes are and however early the peer begins to reply.         *)
ReplyArrives == WF_vars(Nc) => <>(outcome = "reply" \/ Troubled)
===========================================================================
