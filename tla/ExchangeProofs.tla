--------------------------- MODULE ExchangeProofs ---------------------------
(***************************************************************************)
(* Proofs about ExchangeNc, for requests, replies, pipes, limits and       *)
(* deadlines of every size.                                                *)
(***************************************************************************)
EXTENDS ExchangeNc, TLAPS

LEMMA InitInv ==
    ASSUME Init
    PROVE  IInv
<1>1. TypeOK
  <2>1. /\ pending \in 0 .. Frame /\ total \in 0 .. Limit + 1 /\ budget \in 0 .. ExchangeTimeout
        /\ inPipe \in 0 .. InCap /\ outPipe \in 0 .. OutCap /\ taken \in Nat /\ passed \in Nat
    BY ExchangeAssumption, SMT DEF Init
  <2>2. stdin \in BOOLEAN /\ stdout \in BOOLEAN /\ half \in BOOLEAN /\ early \in BOOLEAN
    BY Zenon DEF Init
  <2> QED
    BY <2>1, <2>2 DEF Init, TypeOK
<1>2. Moved
  BY ExchangeAssumption DEF Init, Moved
<1>3. Child /\ Ends /\ WholeExchange
  BY ExchangeAssumption DEF Init, Child, Ends, Reaped, WholeExchange
<1> QED
  BY <1>1, <1>2, <1>3 DEF IInv

(* Every way out of the body leaves data and child as they are. *)
LEMMA RaiseInv ==
    ASSUME IInv, NEW how \in {"reply", "failed", "interrupted"}, Raise(how),
           pc \in {"pumping", "handling", "waiting"},
           how = "reply" => pc = "waiting" /\ nc = "exited" /\ code = "zero"
    PROVE  IInv'
BY ExchangeAssumption
   DEF IInv, TypeOK, Child, Moved, Ends, Reaped, WholeExchange, Raise, ncVars, pipeVars, peerVars

LEMMA WriteInv ==
    ASSUME IInv, WriteStdin
    PROVE  IInv'
<1> USE ExchangeAssumption DEF IInv, TypeOK
<1> PICK n \in 1 .. pending : inPipe + n <= InCap /\ inPipe' = inPipe + n /\ pending' = pending - n
  BY DEF WriteStdin
<1>1. /\ stdin' = (pending' > 0) /\ events' = events \ {"in"} /\ pc = "handling"
      /\ UNCHANGED <<pc, outcome, budget, stdout, total, nc, code, taken, passed, half, outPipe, reply, early>>
  BY DEF WriteStdin, Handled, ncVars, peerVars
<1>2. pending' \in 0 .. Frame /\ inPipe' \in 0 .. InCap /\ stdin' \in BOOLEAN
  BY <1>1
<1>3. TypeOK'
  BY <1>1, <1>2
<1>4. Moved'
  BY <1>1, <1>2 DEF Moved
<1>5. Child' /\ Ends' /\ WholeExchange'
  BY <1>1 DEF Child, Ends, Reaped, WholeExchange
<1> QED
  BY <1>3, <1>4, <1>5

LEMMA ReadInv ==
    ASSUME IInv, ReadStdout
    PROVE  IInv'
<1> USE ExchangeAssumption DEF IInv, TypeOK
<1> PICK n \in 1 .. outPipe : total + n <= Limit + 1 /\ outPipe' = outPipe - n /\ total' = total + n
  BY DEF ReadStdout
<1>1. pc = "handling" /\ UNCHANGED <<pending, stdin, stdout, nc, code, taken, passed, half, inPipe, budget, reply, early>>
  BY DEF ReadStdout, Handled, ncVars, peerVars
<1>2. \/ total' <= Limit /\ events' = events \ {"out"} /\ UNCHANGED <<pc, outcome>>
      \/ total' > Limit /\ events' = {} /\ pc' = "reaping" /\ outcome' = "failed"
  BY DEF ReadStdout, Handled
<1>3. outPipe' \in 0 .. OutCap /\ total' \in 0 .. Limit + 1 /\ total' + outPipe' = passed'
  BY <1>1 DEF Moved
<1>4. TypeOK' /\ Moved'
  BY <1>1, <1>2, <1>3 DEF Moved
<1>5. Child' /\ Ends' /\ WholeExchange'
  BY <1>1, <1>2, <1>3 DEF Child, Ends, Reaped, WholeExchange
<1> QED
  BY <1>4, <1>5

LEMMA PumpInv ==
    ASSUME IInv, Pump
    PROVE  IInv'
<1> USE ExchangeAssumption
        DEF IInv, TypeOK, Child, Moved, Ends, Reaped, WholeExchange, ncVars, pipeVars, peerVars
<1>1. CASE Spawn
  BY <1>1 DEF Spawn
<1>2. CASE SpawnFails
  BY <1>2 DEF SpawnFails
<1>3. CASE Select
  <2>1. events' \subseteq {"in", "out"} /\ ("out" \in events' => stdout /\ (outPipe > 0 \/ nc # "running"))
    BY <1>3 DEF Select, Ready
  <2> QED
    BY <1>3, <2>1 DEF Select
<1>4. CASE SelectTimesOut
  BY <1>4, RaiseInv DEF SelectTimesOut
<1>5. CASE WriteStdin
  BY <1>5, WriteInv
<1>6. CASE WriteFails
  BY <1>6, RaiseInv DEF WriteFails
<1>7. CASE ReadStdout
  BY <1>7, ReadInv
<1>8. CASE ReadEof
  <2>1. /\ stdout' = FALSE /\ events' = events \ {"out"} /\ outPipe = 0 /\ nc # "running"
        /\ pc = "handling"
        /\ UNCHANGED <<pc, outcome, pending, stdin, total, budget, nc, code, taken, passed, half,
                       inPipe, outPipe, reply, early>>
    BY <1>8 DEF ReadEof, Handled
  <2>2. events' \subseteq {"in", "out"} /\ "out" \notin events' /\ stdout' \in BOOLEAN
    BY <2>1
  <2> QED
    BY <2>1, <2>2
<1>9. CASE NextRound
  BY <1>9 DEF NextRound
<1>10. CASE Finish
  BY <1>10 DEF Finish
<1>11. CASE Wait
  BY <1>11, RaiseInv DEF Wait
<1>12. CASE WaitTimesOut
  BY <1>12, RaiseInv DEF WaitTimesOut
<1>13. CASE Kill
  BY <1>13 DEF Kill, pumpVars
<1>14. CASE Reap
  BY <1>14 DEF Reap
<1>15. CASE Enter
  BY <1>15 DEF Enter
<1> QED
  BY <1>1, <1>2, <1>3, <1>4, <1>5, <1>6, <1>7, <1>8, <1>9, <1>10, <1>11, <1>12, <1>13, <1>14, <1>15
     DEF Pump

LEMMA WorldInv ==
    ASSUME IInv, Nc \/ NcGivesUp \/ Tick
    PROVE  IInv'
<1> USE ExchangeAssumption
        DEF IInv, TypeOK, Child, Moved, Ends, Reaped, WholeExchange, pumpVars, ncVars, pipeVars, peerVars
<1>1. CASE NcTakes
  BY <1>1 DEF NcTakes, Attended, CanTake
<1>2. CASE NcHalfCloses
  BY <1>2 DEF NcHalfCloses, Attended, CanHalfClose
<1>3. CASE NcPasses
  BY <1>3 DEF NcPasses, Attended, CanPass, Offered
<1>4. CASE NcFinishes
  BY <1>4 DEF NcFinishes, Attended, CanFinish
<1>5. CASE NcGivesUp
  BY <1>5 DEF NcGivesUp, Attended
<1>6. CASE Tick
  BY <1>6 DEF Tick
<1> QED
  BY <1>1, <1>2, <1>3, <1>4, <1>5, <1>6 DEF Nc

LEMMA StepInv ==
    ASSUME IInv, [Next]_vars
    PROVE  IInv'
<1>1. CASE Interrupted
  BY <1>1, RaiseInv DEF Interrupted
<1>2. CASE UNCHANGED vars
  BY <1>2 DEF IInv, TypeOK, Child, Moved, Ends, Reaped, WholeExchange, vars, pumpVars, ncVars,
              pipeVars, peerVars
<1>3. CASE Abandoned
  BY <1>3 DEF Abandoned, IInv, TypeOK, Child, Moved, Ends, Reaped, WholeExchange, ncVars, pipeVars,
              peerVars
<1> QED
  BY <1>1, <1>2, <1>3, PumpInv, WorldInv DEF Next

(* The inductive invariant holds in every behaviour. *)
THEOREM InductiveInvariant == Spec => []IInv
<1>1. IInv /\ [Next]_vars => IInv'
  BY StepInv
<1> QED
  BY <1>1, InitInv, PTL DEF Spec

(* Type correctness; no reply takes more memory than one unit past the limit. *)
THEOREM TypeCorrect == Spec => []TypeOK
<1>1. IInv => TypeOK
  BY DEF IInv
<1> QED
  BY <1>1, InductiveInvariant, PTL

(* The finally clause, once it is through, leaves no child behind. *)
THEOREM ChildIsReaped == Spec => []Reaped
<1>1. IInv => Reaped
  BY DEF IInv, Child
<1> QED
  BY <1>1, InductiveInvariant, PTL

(* A request is sent whole or its end is never announced, and a reply is all that came. *)
THEOREM ExchangeIsWhole == Spec => []WholeExchange
<1>1. IInv => WholeExchange
  BY DEF IInv
<1> QED
  BY <1>1, InductiveInvariant, PTL
---------------------------------------------------------------------------
(* ExchangeNc implements ExchangePromise. *)

LEMMA RaiseRefines ==
    ASSUME IInv, pc \in {"pumping", "handling", "waiting"}, outcome' \in {"failed", "interrupted"},
           pc' = "reaping", UNCHANGED <<taken, half, passed>>
    PROVE  Promise!GiveUp
<1>1. outcome = "none"
  BY DEF IInv, Child
<1> QED
  BY <1>1 DEF Promise!GiveUp

LEMMA PumpRefines ==
    ASSUME IInv, Pump \/ Interrupted \/ Abandoned
    PROVE  [Promise!Next]_Promise!vars
<1> USE DEF Promise!Next, Promise!vars, IInv
<1>1. CASE UNCHANGED <<outcome, total, ncVars>> /\ pc # "done" /\ pc' # "done"
  BY <1>1 DEF ncVars
<1>2. CASE Select \/ NextRound \/ Finish
  BY <1>1, <1>2 DEF Select, NextRound, Finish
<1>3. CASE SpawnFails
  BY <1>3 DEF SpawnFails, ncVars, Child, Promise!GiveUp
<1>4. CASE Spawn \/ Enter
  BY <1>4 DEF Spawn, Enter, ncVars
<1>5. CASE SelectTimesOut \/ WriteFails \/ WaitTimesOut \/ Interrupted
  BY <1>5, RaiseRefines DEF SelectTimesOut, WriteFails, WaitTimesOut, Interrupted, Raise, ncVars
<1>6. CASE WriteStdin \/ ReadEof
  BY <1>1, <1>6 DEF WriteStdin, ReadEof, Handled, ncVars, Child
<1>7. CASE ReadStdout
  <2>1. outcome = "none" /\ pc = "handling" /\ UNCHANGED ncVars
    BY <1>7 DEF ReadStdout, Child
  <2>2. CASE outcome' = "failed" /\ pc' = "reaping"
    BY <2>1, <2>2, RaiseRefines DEF ncVars
  <2>3. CASE UNCHANGED <<outcome, pc>>
    BY <2>1, <2>3 DEF ncVars
  <2> QED
    BY <1>7, <2>2, <2>3 DEF ReadStdout, Handled
<1>8. CASE Wait
  <2>1. outcome = "none" /\ pc = "waiting" /\ pc' = "reaping" /\ UNCHANGED <<total, ncVars>>
    BY <1>8 DEF Wait, Raise, Child
  <2>2. CASE outcome' = "failed"
    BY <2>1, <2>2, RaiseRefines DEF ncVars
  <2>3. CASE outcome' = "reply"
    <3>1. total = passed /\ total <= Limit
      BY <2>1 DEF Ends, Moved, TypeOK
    <3> QED
      BY <2>1, <2>3, <3>1 DEF ncVars, Promise!Accept
  <2> QED
    BY <1>8, <2>2, <2>3 DEF Wait, Raise
<1>9. CASE Kill
  BY <1>9 DEF Kill, pumpVars
<1>10. CASE Reap
  <2>1. outcome # "none"
    BY <1>10 DEF Reap, TypeOK, Child
  <2> QED
    BY <1>10, <2>1 DEF Reap, Promise!Leave
<1>11. CASE Abandoned
  <2>1. UNCHANGED <<taken, half, passed, total>> /\ pc # "done" /\ pc' # "done"
    BY <1>11 DEF Abandoned, ncVars
  <2>2. \/ outcome = "none" /\ outcome' = "interrupted"
        \/ UNCHANGED outcome
    BY <1>11 DEF Abandoned
  <2> QED
    BY <2>1, <2>2 DEF Promise!GiveUp
<1> QED
  BY <1>2, <1>3, <1>4, <1>5, <1>6, <1>7, <1>8, <1>9, <1>10, <1>11 DEF Pump

LEMMA NcRefines ==
    ASSUME IInv, Nc \/ NcGivesUp
    PROVE  [Promise!Next]_Promise!vars
<1> USE DEF Promise!Next, Promise!vars, IInv
<1>1. pc # "done" /\ outcome # "reply" /\ nc = "running"
  BY DEF Nc, NcTakes, NcHalfCloses, NcPasses, NcFinishes, NcGivesUp, Attended, Child, Reaped, Ends
<1>2. UNCHANGED <<pc, outcome, total>>
  BY DEF Nc, NcTakes, NcHalfCloses, NcPasses, NcFinishes, NcGivesUp, pumpVars
<1>3. CASE NcTakes
  <2>1. ~half /\ taken < Frame
    BY <1>3, ExchangeAssumption DEF NcTakes, CanTake, Moved, TypeOK, WholeExchange
  <2> QED
    BY <1>1, <1>2, <1>3, <2>1 DEF NcTakes, Promise!Deliver
<1>4. CASE NcHalfCloses
  <2>1. ~half /\ taken = Frame
    BY <1>4, ExchangeAssumption DEF NcHalfCloses, CanHalfClose, Moved, TypeOK
  <2> QED
    BY <1>1, <1>2, <1>4, <2>1 DEF NcHalfCloses, Promise!EndRequest
<1>5. CASE NcPasses
  BY <1>1, <1>2, <1>5 DEF NcPasses, Promise!Reply
<1>6. CASE NcFinishes \/ NcGivesUp
  BY <1>2, <1>6 DEF NcFinishes, NcGivesUp
<1> QED
  BY <1>3, <1>4, <1>5, <1>6 DEF Nc

(* The peer is told of the end of a whole request only, what is returned is  *)
(* the whole reply, and nothing is moved once exchange_nc has returned.      *)
THEOREM ExchangeKeepsPromise == Spec => KeepsPromise
<1>1. Init => Promise!Init
  BY DEF Init, Promise!Init
<1>2. IInv /\ [Next]_vars => [Promise!Next]_Promise!vars
  <2>1. CASE Tick \/ UNCHANGED vars
    BY <2>1 DEF Tick, vars, pumpVars, ncVars, Promise!vars
  <2> QED
    BY <2>1, PumpRefines, NcRefines DEF Next
<1> QED
  BY <1>1, <1>2, InductiveInvariant, PTL DEF Spec, KeepsPromise, Promise!Spec
---------------------------------------------------------------------------
(* The pump and nc keep each other going. *)

LEMMA SomeoneMoves ==
    ASSUME IInv
    PROVE  NeitherWaits
<1> SUFFICES ASSUME pc = "pumping", nc = "running", Ready = {}, ~CanTake, ~CanHalfClose, ~CanPass
             PROVE  CanFinish
  BY DEF NeitherWaits
<1> USE ExchangeAssumption DEF IInv, TypeOK
<1>1. stdout /\ outPipe = 0 /\ (stdin => inPipe = InCap)
  BY DEF Ends, Ready
<1>2. ~Offered
  BY <1>1 DEF CanPass
<1>3. inPipe = 0 /\ ~stdin
  BY <1>1, <1>2 DEF CanTake
<1>4. half /\ ~(passed < reply)
  BY <1>2, <1>3 DEF CanHalfClose, Offered
<1> QED
  BY <1>4 DEF CanFinish, Moved

(* The two pipes and nc are never all waiting for each other. *)
THEOREM NoDeadlock == Spec => []NeitherWaits
BY SomeoneMoves, InductiveInvariant, PTL
---------------------------------------------------------------------------
(* Every step leaves less to do. *)

LEMMA NumbersType ==
    ASSUME IInv
    PROVE  /\ pending \in Nat /\ inPipe \in Nat /\ outPipe \in Nat /\ budget \in Nat
           /\ reply \in Nat /\ passed \in Nat /\ reply - passed \in Nat /\ EndsToCome \in 0 .. 3
<1>1. stdout \in BOOLEAN /\ half \in BOOLEAN
  BY DEF IInv, TypeOK
<1>2. EndsToCome \in 0 .. 3
  BY <1>1 DEF EndsToCome
<1> QED
  BY <1>2, ExchangeAssumption DEF IInv, TypeOK, Moved

EffortTyped == EndsToCome \in Nat /\ Moves \in Nat /\ Stage \in 0 .. 5 /\ Effort \in Nat

LEMMA EffortType == IInv => EffortTyped
<1> SUFFICES ASSUME IInv
             PROVE  EffortTyped
  OBVIOUS
<1>1. Moves \in Nat
  BY NumbersType DEF Moves
<1>2. Stage \in 0 .. 5
  BY DEF IInv, TypeOK, Stage
<1> QED
  BY <1>1, <1>2, NumbersType DEF Effort, EffortTyped

LEMMA EffortTypeNext == (IInv => EffortTyped)'
BY EffortType, PTL

LEMMA Weighing ==
    ASSUME NEW m \in Nat, NEW n \in Nat, NEW s \in 0 .. 5, NEW t \in 0 .. 5, NEW b \in Nat,
           \/ n <= m - 1 /\ t <= s + 2
           \/ n <= m /\ t < s
    PROVE  3 * n + t + b < 3 * m + s + b
OBVIOUS

(* A step that moves something may return to the start of a round.         *)
LEMMA MoveLowersEffort ==
    ASSUME IInv, IInv', Moves' < Moves, Stage' <= Stage + 2, UNCHANGED budget
    PROVE  Effort' \in 0 .. Effort - 1
<1>1. Moves \in Nat /\ Stage \in 0 .. 5 /\ Effort \in Nat /\ budget \in Nat
  BY EffortType, NumbersType DEF EffortTyped
<1>2. Moves' \in Nat /\ Stage' \in 0 .. 5 /\ Effort' \in Nat
  BY EffortTypeNext DEF EffortTyped
<1>3. Moves' <= Moves - 1
  BY <1>1, <1>2
<1>4. Effort = 3 * Moves + Stage + budget /\ Effort' = 3 * Moves' + Stage' + budget
  BY DEF Effort
<1>5. Effort' < Effort
  BY <1>1, <1>2, <1>3, <1>4, Weighing
<1> QED
  BY <1>1, <1>2, <1>5

LEMMA StageLowersEffort ==
    ASSUME IInv, IInv', Moves' <= Moves, Stage' < Stage, UNCHANGED budget
    PROVE  Effort' \in 0 .. Effort - 1
<1>1. Moves \in Nat /\ Stage \in 0 .. 5 /\ Effort \in Nat /\ budget \in Nat
  BY EffortType, NumbersType DEF EffortTyped
<1>2. Moves' \in Nat /\ Stage' \in 0 .. 5 /\ Effort' \in Nat
  BY EffortTypeNext DEF EffortTyped
<1>3. Effort = 3 * Moves + Stage + budget /\ Effort' = 3 * Moves' + Stage' + budget
  BY DEF Effort
<1>4. Effort' < Effort
  BY <1>1, <1>2, <1>3, Weighing
<1> QED
  BY <1>1, <1>2, <1>4

(* The pump, on its way through the body. *)
LEMMA PumpLowersEffort ==
    ASSUME IInv, IInv', Pump
    PROVE  Effort' \in 0 .. Effort - 1
<1> USE ExchangeAssumption DEF ncVars, pipeVars, peerVars, pumpVars
<1>0. Moves \in Nat /\ Stage \in 0 .. 5
  BY EffortType DEF EffortTyped
<1>1. CASE Spawn \/ Enter
  <2>1. Moves' = Moves /\ Stage' < Stage /\ UNCHANGED budget
    BY <1>1 DEF Spawn, Enter, Moves, EndsToCome, Stage, IInv, Child
  <2> QED
    BY <1>0, <2>1, StageLowersEffort
<1>2. CASE SpawnFails
  <2>1. Moves' = Moves /\ Stage' < Stage /\ UNCHANGED budget
    BY <1>2 DEF SpawnFails, Moves, EndsToCome, Stage
  <2> QED
    BY <1>0, <2>1, StageLowersEffort
<1>3. CASE Select
  <2>1. Moves' = Moves /\ Stage' < Stage /\ UNCHANGED budget
    BY <1>3 DEF Select, Moves, EndsToCome, Stage
  <2> QED
    BY <1>0, <2>1, StageLowersEffort
<1>4. CASE WriteStdin
  <2> PICK n \in 1 .. pending : inPipe' = inPipe + n /\ pending' = pending - n
    BY <1>4 DEF WriteStdin
  <2>1. UNCHANGED <<reply, passed, outPipe, stdout, half, nc, budget, pc>> /\ pc = "handling" /\ "in" \in events
    BY <1>4 DEF WriteStdin, Handled
  <2>2. EndsToCome' = EndsToCome
    BY <2>1 DEF EndsToCome
  <2>3. Moves' < Moves
    BY <2>1, <2>2, NumbersType DEF Moves
  <2>4. Stage' <= Stage + 2
    BY <2>1 DEF Stage
  <2> QED
    BY <2>1, <2>3, <2>4, MoveLowersEffort
<1>5. CASE ReadStdout
  <2> PICK n \in 1 .. outPipe : outPipe' = outPipe - n
    BY <1>5 DEF ReadStdout
  <2>1. /\ UNCHANGED <<reply, passed, pending, inPipe, stdout, half, nc, budget>>
        /\ pc = "handling" /\ "out" \in events /\ pc' \in {"handling", "reaping"}
    BY <1>5 DEF ReadStdout, Handled
  <2>2. EndsToCome' = EndsToCome
    BY <2>1 DEF EndsToCome
  <2>3. Moves' < Moves
    BY <2>1, <2>2, NumbersType DEF Moves
  <2>4. Stage' <= Stage + 2
    BY <2>1 DEF Stage
  <2> QED
    BY <2>1, <2>3, <2>4, MoveLowersEffort
<1>6. CASE ReadEof
  <2>1. /\ UNCHANGED <<reply, passed, pending, inPipe, outPipe, half, nc, budget, pc>>
        /\ pc = "handling" /\ "out" \in events /\ ~stdout'
    BY <1>6 DEF ReadEof, Handled
  <2>2. stdout
    BY <2>1 DEF IInv, Ends
  <2>5. EndsToCome' < EndsToCome
    BY <2>1, <2>2 DEF EndsToCome
  <2>3. Moves' < Moves
    BY <2>1, <2>5, NumbersType, EffortTypeNext DEF Moves, EffortTyped
  <2>4. Stage' <= Stage + 2
    BY <2>1 DEF Stage
  <2> QED
    BY <2>1, <2>3, <2>4, MoveLowersEffort
<1>7. CASE NextRound \/ Finish
  <2>1. Moves' = Moves /\ Stage' < Stage /\ UNCHANGED budget
    BY <1>7 DEF NextRound, Finish, Moves, EndsToCome, Stage
  <2> QED
    BY <1>0, <2>1, StageLowersEffort
<1>8. CASE SelectTimesOut \/ WriteFails \/ Wait \/ WaitTimesOut
  <2>1. Moves' = Moves /\ Stage' < Stage /\ UNCHANGED budget
    BY <1>8 DEF SelectTimesOut, WriteFails, Wait, WaitTimesOut, Raise, Moves, EndsToCome, Stage
  <2> QED
    BY <1>0, <2>1, StageLowersEffort
<1>9. CASE Kill
  <2>1. EndsToCome' < EndsToCome /\ Stage' = Stage
        /\ UNCHANGED <<pending, inPipe, outPipe, reply, passed, budget>>
    BY <1>9 DEF Kill, EndsToCome, Stage
  <2>2. Moves' < Moves
    BY <2>1, NumbersType, EffortTypeNext DEF Moves, EffortTyped
  <2> QED
    BY <1>0, <2>1, <2>2, MoveLowersEffort
<1>10. CASE Reap
  <2>1. Moves' = Moves /\ Stage' < Stage /\ UNCHANGED budget
    BY <1>10 DEF Reap, Moves, EndsToCome, Stage
  <2> QED
    BY <1>0, <2>1, StageLowersEffort
<1> QED
  BY <1>1, <1>2, <1>3, <1>4, <1>5, <1>6, <1>7, <1>8, <1>9, <1>10 DEF Pump

LEMMA NcLowersEffort ==
    ASSUME IInv, IInv', Nc \/ NcGivesUp
    PROVE  Effort' \in 0 .. Effort - 1
<1>1. UNCHANGED pumpVars /\ UNCHANGED budget
  BY DEF Nc, NcTakes, NcHalfCloses, NcPasses, NcFinishes, NcGivesUp
<1>2. Stage' = Stage /\ Stage \in 0 .. 5 /\ Moves \in Nat
  BY <1>1, EffortType DEF Stage, pumpVars, EffortTyped
<1>3. CASE NcTakes
  <2>1. EndsToCome' = EndsToCome
    BY <1>1, <1>3 DEF NcTakes, EndsToCome, pumpVars
  <2>2. Moves' < Moves
    BY <1>1, <1>3, <2>1, NumbersType DEF NcTakes, Moves, pumpVars, peerVars
  <2> QED
    BY <1>1, <1>2, <2>2, MoveLowersEffort
<1>4. CASE NcPasses
  <2>1. EndsToCome' = EndsToCome
    BY <1>1, <1>4 DEF NcPasses, EndsToCome, pumpVars
  <2>2. Moves' < Moves
    BY <1>1, <1>4, <2>1, NumbersType DEF NcPasses, Moves, pumpVars, peerVars
  <2> QED
    BY <1>1, <1>2, <2>2, MoveLowersEffort
<1>5. CASE NcHalfCloses \/ NcFinishes \/ NcGivesUp
  <2>1. EndsToCome' < EndsToCome /\ UNCHANGED <<passed, pipeVars, peerVars>>
    BY <1>1, <1>5 DEF NcHalfCloses, Attended, CanHalfClose, NcFinishes, NcGivesUp, EndsToCome, pumpVars
  <2>2. Moves' < Moves
    BY <1>1, <2>1, NumbersType, EffortTypeNext
       DEF Moves, EffortTyped, pumpVars, pipeVars, peerVars
  <2> QED
    BY <1>1, <1>2, <2>2, MoveLowersEffort
<1> QED
  BY <1>3, <1>4, <1>5 DEF Nc

LEMMA StepLowersEffort ==
    ASSUME IInv, IInv', Next
    PROVE  Effort' \in 0 .. Effort - 1
<1>0. Moves \in Nat /\ Stage \in 0 .. 5 /\ Effort \in Nat
  BY EffortType DEF EffortTyped
<1>1. CASE Interrupted \/ Abandoned
  <2>1. Moves' = Moves /\ Stage' < Stage /\ UNCHANGED budget
    BY <1>1 DEF Interrupted, Abandoned, Raise, Moves, EndsToCome, Stage, ncVars, pipeVars, peerVars
  <2> QED
    BY <1>0, <2>1, StageLowersEffort
<1>2. CASE Tick
  <2>1. Moves' = Moves /\ Stage' = Stage
    BY <1>2 DEF Tick, Moves, EndsToCome, Stage, pumpVars, ncVars, pipeVars, peerVars
  <2>2. budget \in Nat /\ budget > 0 /\ budget' = budget - 1
    BY <1>2, ExchangeAssumption DEF Tick, IInv, TypeOK
  <2> QED
    BY <1>0, <2>1, <2>2 DEF Effort
<1> QED
  BY <1>1, <1>2, PumpLowersEffort, NcLowersEffort DEF Next

(* exchange_nc makes a bounded number of calls: nothing that it, nc or time *)
(* does comes without progress.                                             *)
THEOREM EveryStepCounts == Spec => NeverSpins
<1>1. IInv /\ IInv' /\ [Next]_vars => [Effort' \in 0 .. Effort - 1]_vars
  BY StepLowersEffort
<1> QED
  BY <1>1, InductiveInvariant, PTL DEF Spec, NeverSpins
=============================================================================
