--------------------------- MODULE InstallProofs ---------------------------
(***************************************************************************)
(* Proofs about Install, for any number of runs and damages.               *)
(***************************************************************************)
EXTENDS Install, TLAPS

LEMMA InitInv == Init => IInv
<1> SUFFICES ASSUME Init PROVE IInv
  OBVIOUS
<1>1. TypeOK
  BY DEF Init, TypeOK, Tools
<1>2. ~Whole /\ pc = "idle" /\ result = "none" /\ last = "none"
  BY DEF Init, Whole
<1> QED
  BY <1>1, <1>2 DEF IInv, RepairsItself, RerunKeepsVenv

LEMMA RunInv ==
    ASSUME IInv, NEW t \in Tools, Run(t)
    PROVE  IInv'
<1>1. (Works \in BOOLEAN) /\ (Husk \in BOOLEAN)
  BY Zenon DEF Works, Husk
<1>2. TypeOK'
  BY <1>1 DEF IInv, TypeOK, Run, files
<1> QED
  BY <1>1, <1>2 DEF IInv, TypeOK, Run, files, RepairsItself, RerunKeepsVenv, Works, Husk, Whole, Parts

LEMMA SetupInv ==
    ASSUME IInv, Setup
    PROVE  IInv'
<1> USE DEF IInv, TypeOK, RepairsItself, RerunKeepsVenv, Works, Husk, Whole, Parts, Goes, files
<1>1. CASE ~dir /\ Goes("creating")
  BY <1>1 DEF Setup
<1>2. ASSUME dir, NEW intact \in Intact, Goes(IF intact THEN "installing" ELSE "removing")
      PROVE  IInv'
  <2>1. PICK pip \in BOOLEAN :
            (Husk \/ (pip <=> "pip" \in venv)) /\ (intact <=> "python" \in venv /\ (tool = "uv" \/ pip))
    BY <1>2 DEF Intact
  <2>2. CASE intact
    BY <1>2, <2>1, <2>2 DEF Setup, Tools
  <2>3. CASE ~intact
    BY <1>2, <2>1, <2>3 DEF Setup, Tools
  <2> QED
    BY <2>2, <2>3
<1> QED
  BY <1>1, <1>2 DEF Setup

LEMMA StepInv ==
    ASSUME IInv, [Next]_vars
    PROVE  IInv'
<1> USE DEF IInv, TypeOK, RepairsItself, RerunKeepsVenv, Works, Husk, Whole, Parts, Goes, Ends, files
<1>1. CASE TooOld
  BY <1>1 DEF TooOld
<1>2. CASE Remove
  <2>1. CASE venv # {} /\ Goes("removing") /\ UNCHANGED dir /\ \E f \in venv : venv' = venv \ {f}
    <3>1. PICK f \in venv : venv' = venv \ {f}
      BY <2>1
    <3>2. TypeOK'
      BY <1>2, <2>1, <3>1 DEF Remove
    <3>3. Whole' => Whole /\ ("pip" \in venv => f = "pip" \/ "pip" \in venv')
      BY <3>1
    <3> QED
      BY <1>2, <2>1, <3>1, <3>2, <3>3 DEF Remove
  <2>2. CASE venv = {} /\ Goes("creating") /\ dir' = FALSE /\ UNCHANGED venv
    BY <1>2, <2>2 DEF Remove
  <2> QED
    BY <1>2, <2>1, <2>2 DEF Remove
<1>3. CASE Create
  <2>1. CASE Parts \subseteq venv
    BY <1>3, <2>1 DEF Create
  <2>2. CASE ~(Parts \subseteq venv)
    <3>1. PICK f \in Parts \ venv : venv' = venv \cup {f}
      BY <1>3, <2>2 DEF Create
    <3>2. f \in {"python", "cfg", "pip"}
      BY <3>1
    <3>3. TypeOK'
      BY <1>3, <2>2, <3>1, <3>2 DEF Create
    <3>4. "package" \notin venv'
      BY <1>3, <3>1, <3>2 DEF Create
    <3> QED
      BY <1>3, <2>2, <3>3, <3>4 DEF Create
  <2> QED
    BY <2>1, <2>2
<1>4. CASE Uninstall
  BY <1>4 DEF Uninstall
<1>5. CASE Add
  BY <1>5 DEF Add, Tools
<1>6. CASE Unlink
  BY <1>6 DEF Unlink
<1>7. CASE Symlink
  BY <1>7 DEF Symlink
<1>8. CASE Fails
  BY <1>8 DEF Fails
<1>9. CASE Damage
  <2>1. CASE venv' = venv \ {"python"} /\ UNCHANGED dir
    <3>1. TypeOK'
      BY <1>9, <2>1 DEF Damage
    <3>2. ~Whole'
      BY <2>1
    <3> QED
      BY <1>9, <2>1, <3>1, <3>2 DEF Damage
  <2>2. CASE venv' = {} /\ dir' = FALSE
    <3>1. venv' = venv \ venv /\ dir' \in BOOLEAN
      BY <2>2
    <3>2. TypeOK'
      BY <1>9, <2>2, <3>1 DEF Damage
    <3>3. ~Whole'
      BY <2>2
    <3> QED
      BY <1>9, <2>2, <3>2, <3>3 DEF Damage
  <2> QED
    BY <1>9, <2>1, <2>2 DEF Damage
<1>10. CASE UNCHANGED vars
  BY <1>10 DEF vars
<1> QED
  BY <1>1, <1>2, <1>3, <1>4, <1>5, <1>6, <1>7, <1>8, <1>9, <1>10, RunInv, SetupInv DEF Next

(* What an interrupted run leaves, and what the venv tells of its maker.   *)
THEOREM InductiveInvariant == Spec => []IInv
BY InitInv, StepInv, PTL DEF Spec

(* Every variable keeps its type.                                          *)
THEOREM TypeCorrect == Spec => []TypeOK
<1>1. IInv => TypeOK
  BY DEF IInv
<1> QED
  BY <1>1, InductiveInvariant, PTL

(* A run that is let finish leaves a working command, whatever runs before *)
(* it left: setup_venv and symlink_to_path, install.py:32 to 91.           *)
THEOREM RerunsRepair == Spec => []RepairsItself
<1>1. IInv => RepairsItself
  BY DEF IInv
<1> QED
  BY <1>1, InductiveInvariant, PTL

(* The tool that installed last keeps a venv that works: install.py:35 to  *)
(* 73.                                                                     *)
THEOREM RerunsKeep == Spec => []RerunKeepsVenv
<1>1. IInv => RerunKeepsVenv
  BY DEF IInv
<1> QED
  BY <1>1, InductiveInvariant, PTL
=============================================================================
