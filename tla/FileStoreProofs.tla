-------------------------- MODULE FileStoreProofs --------------------------
(***************************************************************************)
(* Proofs about FileStore, for any number of writers and readers: for a    *)
(* backend that syncs, and for one that does not as long as the power      *)
(* stays on.                                                               *)
(***************************************************************************)
EXTENDS FileStore, TLAPS

Kept == Syncs \/ MaxLosses = 0

LEMMA InitInv ==
    ASSUME Init
    PROVE  IInv
<1>1. TypeOK
  BY FileStoreAssumption DEF Init, TypeOK, Files, Extent
<1>2. \A w \in Writers : WriterInv(w) /\ Tidy(w)
  BY DEF Init, WriterInv, Tidy
<1>3. \A r \in Readers : ReaderInv(r)
  BY DEF Init, ReaderInv
<1> QED
  BY <1>1, <1>2, <1>3 DEF Init, IInv, Sealed, Files

LEMMA WriterStepInv ==
    ASSUME IInv, NEW w \in Writers, WriterStep(w) \/ Killed(w)
    PROVE  IInv'
<1> USE FileStoreAssumption
        DEF IInv, TypeOK, Files, Extent, Active, Sealed, WriterInv, Tidy, ReaderInv, Step, Reports
<1>1. CASE Prepare(w)
  BY <1>1 DEF Prepare
<1>2. CASE CreateTemp(w)
  BY <1>2 DEF CreateTemp
<1>3. CASE Fill(w)
  BY <1>3 DEF Fill
<1>4. CASE Sync(w)
  BY <1>4 DEF Sync
<1>5. CASE Restrict(w)
  BY <1>5 DEF Restrict
<1>6. CASE Replace(w)
  BY <1>6 DEF Replace
<1>7. CASE Return(w)
  BY <1>7 DEF Return
<1>8. CASE CannotPrepare(w)
  BY <1>8 DEF CannotPrepare
<1>9. CASE CannotWrite(w)
  BY <1>9 DEF CannotWrite
<1>10. CASE Unlink(w)
  BY <1>10 DEF Unlink
<1>11. CASE Killed(w)
  BY <1>11 DEF Killed
<1> QED
  BY <1>1, <1>2, <1>3, <1>4, <1>5, <1>6, <1>7, <1>8, <1>9, <1>10, <1>11 DEF WriterStep

LEMMA PowerLossInv ==
    ASSUME IInv, Kept, PowerLoss
    PROVE  IInv'
<1> USE FileStoreAssumption DEF IInv
<1>1. Syncs
  BY DEF Kept, PowerLoss, TypeOK
<1>2. TypeOK'
  BY DEF PowerLoss, TypeOK, Active
<1>3. \A f \in {Old} \cup installed' : Sealed(f)'
  BY <1>1 DEF PowerLoss, Sealed
<1>4. name' \in onDisk' /\ onDisk' \subseteq {Old} \cup installed'
  BY DEF PowerLoss
<1>5. \A w \in Writers : WriterInv(w)' /\ (~UnlinkFails => Tidy(w)')
  BY DEF PowerLoss, TypeOK, WriterInv, Tidy, Active
<1>6. \A r \in Readers : ReaderInv(r)'
  BY DEF PowerLoss, TypeOK, ReaderInv
<1> QED
  BY <1>2, <1>3, <1>4, <1>5, <1>6

LEMMA StepInv ==
    ASSUME IInv, Kept, [Next]_vars
    PROVE  IInv'
<1> USE FileStoreAssumption
<1>1. ASSUME NEW w \in Writers, WriterStep(w) \/ Killed(w)
      PROVE  IInv'
  BY <1>1, WriterStepInv
<1>2. ASSUME NEW r \in Readers, Open(r)
      PROVE  IInv'
  BY <1>2 DEF IInv, TypeOK, Files, Sealed, WriterInv, Tidy, ReaderInv, Open
<1>3. ASSUME NEW r \in Readers, Read(r)
      PROVE  IInv'
  BY <1>3 DEF IInv, TypeOK, Files, Sealed, WriterInv, Tidy, ReaderInv, Read, Content
<1>4. ASSUME NEW f \in Files, WriteBack(f)
      PROVE  IInv'
  BY <1>4 DEF IInv, TypeOK, Sealed, WriterInv, Tidy, ReaderInv, WriteBack, Files
<1>5. CASE SettleName
  BY <1>5 DEF IInv, TypeOK, Sealed, WriterInv, Tidy, ReaderInv, SettleName
<1>6. CASE PowerLoss
  BY <1>6, PowerLossInv
<1>7. CASE UNCHANGED vars
  BY <1>7 DEF IInv, TypeOK, Sealed, WriterInv, Tidy, ReaderInv, vars
<1> QED
  BY <1>1, <1>2, <1>3, <1>4, <1>5, <1>6, <1>7 DEF Next

(* The inductive invariant holds in every behaviour.                        *)
THEOREM InductiveInvariant ==
    ASSUME Kept
    PROVE  Spec => []IInv
<1>1. IInv /\ [Next]_vars => IInv'
  BY StepInv
<1> QED
  BY <1>1, InitInv, PTL DEF Spec

LEMMA TypeStep ==
    ASSUME TypeOK, [Next]_vars
    PROVE  TypeOK'
<1> USE FileStoreAssumption DEF TypeOK, Files, Extent, Active, Step, Reports
<1>1. ASSUME NEW w \in Writers, WriterStep(w) \/ Killed(w)
      PROVE  TypeOK'
  <2>1. CASE Prepare(w)
    BY <2>1 DEF Prepare
  <2>2. CASE CreateTemp(w)
    BY <2>2 DEF CreateTemp
  <2>3. CASE Fill(w)
    BY <2>3 DEF Fill
  <2>4. CASE Sync(w)
    BY <2>4 DEF Sync
  <2>5. CASE Restrict(w)
    BY <2>5 DEF Restrict
  <2>6. CASE Replace(w)
    BY <2>6 DEF Replace
  <2>7. CASE Return(w)
    BY <2>7 DEF Return
  <2>8. CASE CannotPrepare(w)
    BY <2>8 DEF CannotPrepare
  <2>9. CASE CannotWrite(w)
    BY <2>9 DEF CannotWrite
  <2>10. CASE Unlink(w)
    BY <2>10 DEF Unlink
  <2>11. CASE Killed(w)
    BY <2>11 DEF Killed
  <2> QED
    BY <1>1, <2>1, <2>2, <2>3, <2>4, <2>5, <2>6, <2>7, <2>8, <2>9, <2>10, <2>11 DEF WriterStep
<1>2. ASSUME NEW r \in Readers, Open(r) \/ Read(r)
      PROVE  TypeOK'
  BY <1>2 DEF Open, Read, Content
<1>3. CASE \/ \E f \in Files : WriteBack(f)
           \/ SettleName \/ PowerLoss
  BY <1>3 DEF WriteBack, SettleName, PowerLoss
<1>4. CASE UNCHANGED vars
  BY <1>4 DEF vars
<1> QED
  BY <1>1, <1>2, <1>3, <1>4 DEF Next

(* Type correctness, whether the backend syncs or not.                      *)
THEOREM TypeCorrect == Spec => []TypeOK
<1>1. Init => TypeOK
  BY FileStoreAssumption DEF Init, TypeOK, Files, Extent
<1>2. TypeOK /\ [Next]_vars => TypeOK'
  BY TypeStep
<1> QED
  BY <1>1, <1>2, PTL DEF Spec

(* A reader never gets a piece of a document, whoever writes meanwhile.     *)
THEOREM WholeReads ==
    ASSUME Kept
    PROVE  Spec => []ReadsAreWhole
<1>1. IInv => ReadsAreWhole
  BY DEF IInv, ReaderInv, ReadsAreWhole
<1> QED
  BY <1>1, InductiveInvariant, PTL

(* The store is never a truncated file.                                     *)
THEOREM NoTruncation ==
    ASSUME Kept
    PROVE  Spec => []NeverTruncated
<1>1. IInv => NeverTruncated
  BY FileStoreAssumption DEF IInv, Sealed, NeverTruncated, Content, TypeOK, Files
<1> QED
  BY <1>1, InductiveInvariant, PTL

(* A write that failed has changed nothing, and never will.                 *)
THEOREM FailureIsHarmless ==
    ASSUME Kept
    PROVE  Spec => []FailureChangesNothing
<1>1. IInv => FailureChangesNothing
  BY FileStoreAssumption DEF IInv, WriterInv, FailureChangesNothing
<1> QED
  BY <1>1, InductiveInvariant, PTL

(* A write that returned or raised leaves no temporary file, unless the     *)
(* removal itself failed.                                                   *)
THEOREM NothingLeftBehind ==
    ASSUME Kept, ~UnlinkFails
    PROVE  Spec => []NoLitter
<1>1. IInv => NoLitter
  BY DEF IInv, Tidy, NoLitter
<1> QED
  BY <1>1, InductiveInvariant, PTL
---------------------------------------------------------------------------
(* FileStore implements StorePromise. *)

Seen == [r \in Readers |-> IF fd[r] = Unread THEN Unread ELSE Content(fd[r])]

(* With every file that counts sealed, the register holds the file the      *)
(* store's name stands for, and a reader sees the file it opened.           *)
LEMMA Mapped ==
    ASSUME IInv, IInv'
    PROVE  Content(name) = name /\ Seen = fd /\ Content(name)' = name' /\ Seen' = fd'
<1>1. Content(name) = name /\ Seen = fd
  BY FileStoreAssumption DEF IInv, TypeOK, Sealed, ReaderInv, Content, Seen, Files
<1>2. Content(name)' = name' /\ Seen' = fd'
  BY FileStoreAssumption DEF IInv, TypeOK, Sealed, ReaderInv, Content, Seen, Files
<1> QED
  BY <1>1, <1>2

LEMMA WriterRefines ==
    ASSUME IInv, IInv', NEW w \in Writers, WriterStep(w) \/ Killed(w)
    PROVE  StoreRegister!Next \/ UNCHANGED StoreRegister!vars
<1>1. Content(name) = name /\ Seen = fd /\ Content(name)' = name' /\ Seen' = fd'
  BY Mapped
<1>2. CASE Prepare(w) \/ CreateTemp(w) \/ Fill(w) \/ Sync(w) \/ Restrict(w) \/ CannotWrite(w)
  <2>1. UNCHANGED <<name, fd, result, installed>>
    BY <1>2 DEF Prepare, CreateTemp, Fill, Sync, Restrict, CannotWrite
  <2> QED
    BY <1>1, <2>1 DEF StoreRegister!vars, Seen
<1>3. CASE Replace(w)
  <2>1. StoreRegister!Install(w)
    BY <1>1, <1>3 DEF Replace, Step, IInv, WriterInv, StoreRegister!Install, Seen
  <2> QED
    BY <2>1 DEF StoreRegister!Next
<1>4. CASE Return(w) \/ CannotPrepare(w) \/ Unlink(w) \/ Killed(w)
  <2>1. PICK how \in {"ok", "failed", "killed"}, from \in {"preparing", "replaced", "cleaning"} \cup Active :
          /\ pc[w] = from /\ result' = [result EXCEPT ![w] = how]
          /\ how = "ok" => from = "replaced"
          /\ how = "failed" => from \in {"preparing", "cleaning"}
          /\ UNCHANGED <<name, fd, installed>>
    BY <1>4 DEF Return, CannotPrepare, Unlink, Killed, Reports, Step
  <2>2. StoreRegister!Report(w, how)
    BY <1>1, <2>1 DEF IInv, WriterInv, Active, StoreRegister!Report, Seen
  <2> QED
    BY <2>2 DEF StoreRegister!Next
<1> QED
  BY <1>2, <1>3, <1>4 DEF WriterStep

LEMMA PowerLossRefines ==
    ASSUME IInv, IInv', PowerLoss
    PROVE  StoreRegister!PowerLoss
<1>1. Content(name) = name /\ Seen = fd /\ Content(name)' = name' /\ Seen' = fd'
  BY Mapped
<1>2. name' \in {Old} \cup installed
  BY DEF PowerLoss, IInv
<1>3. \E gone \in SUBSET {w \in Writers : result[w] = "none"} :
         result' = [w \in Writers |-> IF w \in gone THEN "killed" ELSE result[w]]
  <2> DEFINE g == {w \in Writers : pc[w] \in Active}
  <2>1. g \in SUBSET {w \in Writers : result[w] = "none"}
    BY DEF IInv, WriterInv, Active
  <2>2. result' = [w \in Writers |-> IF w \in g THEN "killed" ELSE result[w]]
    BY DEF PowerLoss
  <2> QED
    BY <2>1, <2>2
<1>4. \E gone \in SUBSET Readers :
         fd' = [r \in Readers |-> IF r \in gone THEN Unread ELSE fd[r]]
  <2> DEFINE g == {r \in Readers : got[r] = Unread}
  <2>1. fd' = [r \in Readers |-> IF r \in g THEN Unread ELSE fd[r]]
    BY DEF PowerLoss
  <2> QED
    BY <2>1
<1> QED
  BY <1>1, <1>2, <1>3, <1>4 DEF StoreRegister!PowerLoss, PowerLoss, Seen

LEMMA StepRefines ==
    ASSUME IInv, IInv', [Next]_vars
    PROVE  StoreRegister!Next \/ UNCHANGED StoreRegister!vars
<1>1. Content(name) = name /\ Seen = fd /\ Content(name)' = name' /\ Seen' = fd'
  BY Mapped
<1>2. ASSUME NEW w \in Writers, WriterStep(w) \/ Killed(w)
      PROVE  StoreRegister!Next \/ UNCHANGED StoreRegister!vars
  BY <1>2, WriterRefines
<1>3. ASSUME NEW r \in Readers, Open(r)
      PROVE  StoreRegister!Read(r)
  BY <1>1, <1>3 DEF Open, StoreRegister!Read, Seen
<1>4. CASE PowerLoss
  BY <1>4, PowerLossRefines DEF StoreRegister!Next
<1>5. CASE UNCHANGED <<name, fd, result, installed>>
  BY <1>1, <1>5 DEF StoreRegister!vars, Seen
<1>6. ASSUME (\E r \in Readers : Read(r)) \/ (\E f \in Files : WriteBack(f)) \/ SettleName \/ UNCHANGED vars
      PROVE  UNCHANGED <<name, fd, result, installed>>
  BY <1>6 DEF Read, WriteBack, SettleName, vars
<1> QED
  BY <1>2, <1>3, <1>4, <1>5, <1>6 DEF Next, StoreRegister!Next

(* Any number of commands on one store behave as one register: writes       *)
(* take effect at an instant, reads return what was there at one.           *)
THEOREM StoreIsARegister ==
    ASSUME Kept
    PROVE  Spec => IsARegister
<1>1. Init => StoreRegister!Init
  BY FileStoreAssumption DEF Init, StoreRegister!Init, Content, Files
<1>2. IInv /\ IInv' /\ [Next]_vars => [StoreRegister!Next]_StoreRegister!vars
  BY StepRefines
<1> QED
  BY <1>1, <1>2, InductiveInvariant, PTL DEF Spec, IsARegister, StoreRegister!Spec
===========================================================================
