------------------------------ MODULE Install ------------------------------
(***************************************************************************)
(* The installer (install.py): runs of it that are interrupted or fail     *)
(* anywhere, each with or without uv at hand, on a machine where the       *)
(* Python behind the virtual environment may go away.                      *)
(*                                                                         *)
(* `venv' is the set of the parts of .venv that matter.  What uv, venv and *)
(* pip do is external; they work file by file, in no order one could rely  *)
(* on.  A python without its pyvenv.cfg is the machine's own, and what it  *)
(* installs goes elsewhere.                                                *)
(***************************************************************************)
EXTENDS Naturals

CONSTANTS MaxRuns, MaxDamages  \* bounds

ASSUME InstallAssumption == MaxRuns \in Nat /\ MaxDamages \in Nat

Tools == {"uv", "pip"}

VARIABLES
    pc, tool,
    dir, venv,    \* whether .venv is there, and what of it
    link,         \* the command in ~/.local/bin: none, into the venv, or another
    result, runs, damages,
    before,       \* history: whether the command worked when the run began, and
    husk,         \*   whether it found a python without pyvenv.cfg
    last          \* history: the tool that last installed

files == <<dir, venv, link>>
vars == <<pc, tool, files, result, runs, damages, before, husk, last>>

Works == link = "venv" /\ {"python", "cfg", "package"} \subseteq venv

Husk == "python" \in venv /\ "cfg" \notin venv

Init ==
    /\ pc = "idle" /\ tool = "uv" /\ result = "none" /\ runs = 0 /\ damages = 0
    /\ dir = FALSE /\ venv = {} /\ link \in {"none", "other"}
    /\ before = FALSE /\ husk = FALSE /\ last = "none"
---------------------------------------------------------------------------
Run(t) ==
    /\ pc = "idle" /\ runs < MaxRuns
    /\ runs' = runs + 1
    /\ pc' = "setup" /\ tool' = t /\ result' = "none"
    /\ before' = Works /\ husk' = Husk
    /\ UNCHANGED <<files, damages, last>>

Ends(how) == pc' = "idle" /\ result' = how /\ UNCHANGED <<tool, runs, damages, before, husk>>

Goes(where) == pc' = where /\ UNCHANGED <<tool, result, runs, damages, before, husk>>

(* With uv it is enough that the venv has a python; pip must be importable *)
(* otherwise, which the machine's own python may answer either way.        *)
Intact ==
    {"python" \in venv /\ (tool = "uv" \/ pip) :
        pip \in IF Husk THEN BOOLEAN ELSE {"pip" \in venv}}

(* Mutant: a venv that exists is taken as it is. *)
SetupTrusting ==
    /\ pc = "setup"
    /\ Goes(IF dir THEN "installing" ELSE "creating")
    /\ UNCHANGED <<files, last>>

(* Mutant: uv's venvs are expected to hold pip as well. *)
SetupImportingPip ==
    /\ pc = "setup"
    /\ Goes(IF ~dir THEN "creating" ELSE IF {"python", "pip"} \subseteq venv THEN "installing" ELSE "removing")
    /\ UNCHANGED <<files, last>>

(* setup_venv *)
Setup ==
    /\ pc = "setup"
    /\ \/ ~dir /\ Goes("creating")
       \/ dir /\ \E intact \in Intact : Goes(IF intact THEN "installing" ELSE "removing")
    /\ UNCHANGED <<files, last>>

(* Without uv the Python that runs the script must be recent enough. *)
TooOld ==
    /\ pc = "setup" /\ tool = "pip"
    /\ Ends("refused")
    /\ UNCHANGED <<files, last>>

(* shutil.rmtree *)
Remove ==
    /\ pc = "removing"
    /\ \/ venv # {} /\ Goes("removing") /\ UNCHANGED dir /\ \E f \in venv : venv' = venv \ {f}
       \/ venv = {} /\ Goes("creating") /\ dir' = FALSE /\ UNCHANGED venv
    /\ UNCHANGED <<link, last>>

Parts == {"python", "cfg"} \cup (IF tool = "pip" THEN {"pip"} ELSE {})

(* uv venv, or python -m venv *)
Create ==
    /\ pc = "creating"
    /\ dir' = TRUE
    /\ IF Parts \subseteq venv THEN Goes("installing") /\ UNCHANGED venv
       ELSE Goes("creating") /\ \E f \in Parts \ venv : venv' = venv \cup {f}
    /\ UNCHANGED <<link, last>>

(* uv pip install -e, or pip install -e: an older one is uninstalled first. *)
Uninstall ==
    /\ pc = "installing"
    /\ venv' = IF Husk THEN venv ELSE venv \ {"package"}
    /\ Goes("adding")
    /\ UNCHANGED <<dir, link, last>>

Add ==
    /\ pc = "adding"
    /\ venv' = IF Husk THEN venv ELSE venv \cup {"package"}
    /\ last' = tool
    /\ Goes("linking")
    /\ UNCHANGED <<dir, link>>

(* symlink_to_path *)
Unlink ==
    /\ pc = "linking" /\ link # "none"
    /\ link' = "none"
    /\ Goes("linking")
    /\ UNCHANGED <<dir, venv, last>>

Symlink ==
    /\ pc = "linking" /\ link = "none"
    /\ link' = "venv"
    /\ Ends("success")
    /\ UNCHANGED <<dir, venv, last>>

(* A subprocess fails, or the run is killed. *)
Fails ==
    /\ pc # "idle"
    /\ Ends("failure")
    /\ UNCHANGED <<files, last>>

(* Between the runs the Python behind the venv is uninstalled, or the venv *)
(* is deleted.                                                             *)
Damage ==
    /\ pc = "idle" /\ damages < MaxDamages
    /\ damages' = damages + 1 /\ result' = "none"
    /\ \/ venv' = venv \ {"python"} /\ UNCHANGED dir
       \/ venv' = {} /\ dir' = FALSE
    /\ UNCHANGED <<pc, tool, link, runs, before, husk, last>>

Next ==
    \/ \E t \in Tools : Run(t)
    \/ Setup \/ TooOld \/ Remove \/ Create \/ Uninstall \/ Add \/ Unlink \/ Symlink \/ Fails \/ Damage

Spec == Init /\ [][Next]_vars
---------------------------------------------------------------------------
TypeOK ==
    /\ pc \in {"idle", "setup", "removing", "creating", "installing", "adding", "linking"} /\ tool \in Tools
    /\ dir \in BOOLEAN /\ venv \subseteq {"python", "cfg", "pip", "package"} /\ (~dir => venv = {})
    /\ link \in {"none", "venv", "other"}
    /\ result \in {"none", "success", "failure", "refused"} /\ runs \in Nat /\ damages \in Nat
    /\ before \in BOOLEAN /\ husk \in BOOLEAN /\ last \in Tools \cup {"none"}

(* Whatever earlier runs left when they were killed or failed, and whoever *)
(* made the venv, a run gets to installing with what its tool needs, and   *)
(* one that says Done leaves a command that works: unless it found a       *)
(* python without pyvenv.cfg, which neither check of setup_venv notices.   *)
RepairsItself ==
    ~husk =>
        /\ pc = "installing" => Parts \subseteq venv
        /\ result = "success" => Works

(* A run with the tool that installed last does not take the venv from     *)
(* under a command that works.  One without uv does, where uv has made the *)
(* venv: it has no pip.                                                    *)
RerunKeepsVenv == pc = "removing" /\ before => last # tool

(* Inductive invariant *)

Whole == {"python", "cfg", "package"} \subseteq venv

IInv ==
    /\ TypeOK /\ RepairsItself /\ RerunKeepsVenv
    /\ pc # "idle" => result = "none"
    /\ pc = "setup" => (husk <=> Husk) /\ (before => Works)
    /\ pc \in {"removing", "installing", "adding", "linking"} => dir
    /\ pc = "creating" => "package" \notin venv
    /\ pc = "removing" => ~(Whole /\ "pip" \in venv)
    /\ pc \in {"installing", "adding", "linking"} => Parts \subseteq venv \/ (husk /\ Husk)
    /\ pc = "linking" => "package" \in venv \/ husk
    /\ last = "pip" /\ Whole => "pip" \in venv
===========================================================================
