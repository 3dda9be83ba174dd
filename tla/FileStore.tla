----------------------------- MODULE FileStore -----------------------------
(***************************************************************************)
(* A file-backed credential store: _write_file and _read_raw_file of       *)
(* backends/claude.py, the file half of write and _read_path of            *)
(* backends/codex.py, run by any number of commands at once.               *)
(*                                                                         *)
(* A writer fills a temporary file of its own and renames it over the      *)
(* store.  The model keeps what the kernel holds of each file, what the    *)
(* disk holds, and which files the store's name may stand for on disk:     *)
(* data and names reach the disk in any order unless the code calls fsync. *)
(* A file is named by the writer that created it.                          *)
(***************************************************************************)
EXTENDS Naturals, FiniteSets

CONSTANTS
    Writers, Readers,
    Old,          \* the file that is the store at first
    Torn,         \* what a file that is not whole amounts to
    Unread,       \* what a reader has before it has opened the store
    Syncs,        \* TRUE for claude.py, which calls fsync, FALSE for codex.py
    UnlinkFails,  \* TRUE if removing the temporary file may fail too
    MaxLosses     \* bound: how often the power fails

Files == Writers \cup {Old}

ASSUME FileStoreAssumption ==
    /\ Old \notin Writers /\ Torn \notin Files /\ Unread \notin Files \cup {Torn}
    /\ Syncs \in BOOLEAN /\ UnlinkFails \in BOOLEAN /\ MaxLosses \in Nat

VARIABLES
    pc,         \* where each writer is
    result,     \* what it has reported
    fd,         \* the file each reader has opened
    got,        \* what it has read
    cache,      \* what processes see of each file
    disk,       \* what the disk holds of it
    name,       \* the file that is the store
    onDisk,     \* the files that may be the store on disk
    temps,      \* the writers whose temporary file exists
    installed,  \* history: the writers whose file has become the store
    losses

vars == <<pc, result, fd, got, cache, disk, name, onDisk, temps, installed, losses>>

Extent == {"none", "empty", "part", "whole"}

Active == {"preparing", "filling", "filled", "synced", "restricted", "replaced", "cleaning"}

Init ==
    /\ pc = [w \in Writers |-> "idle"]
    /\ result = [w \in Writers |-> "none"]
    /\ fd = [r \in Readers |-> Unread]
    /\ got = [r \in Readers |-> Unread]
    /\ cache = [f \in Files |-> IF f = Old THEN "whole" ELSE "none"]
    /\ disk = cache
    /\ name = Old /\ onDisk = {Old}
    /\ temps = {} /\ installed = {} /\ losses = 0
---------------------------------------------------------------------------
(* Writers *)

Step(w, from, to) == pc[w] = from /\ pc' = [pc EXCEPT ![w] = to]

Reports(w, from, r) ==
    /\ Step(w, from, "done")
    /\ result' = [result EXCEPT ![w] = r]

(* path.parent.mkdir *)
Prepare(w) ==
    /\ Step(w, "idle", "preparing")
    /\ UNCHANGED <<result, fd, got, cache, disk, name, onDisk, temps, installed, losses>>

(* Mutant: the store itself is opened for writing. *)
CreateInPlace(w) ==
    /\ Step(w, "preparing", "filling")
    /\ name' = w /\ onDisk' = onDisk \cup {w}
    /\ cache' = [cache EXCEPT ![w] = "empty"]
    /\ UNCHANGED <<result, fd, got, disk, temps, installed, losses>>

(* tempfile.mkstemp: a new file, next to the store. *)
CreateTemp(w) ==
    /\ Step(w, "preparing", "filling")
    /\ temps' = temps \cup {w}
    /\ cache' = [cache EXCEPT ![w] = "empty"]
    /\ UNCHANGED <<result, fd, got, disk, name, onDisk, installed, losses>>

(* handle.write and handle.flush, in as many system calls as it takes. *)
Fill(w) ==
    /\ \/ /\ pc[w] = "filling" /\ cache[w] = "empty" /\ UNCHANGED pc
          /\ cache' = [cache EXCEPT ![w] = "part"]
       \/ /\ Step(w, "filling", "filled")
          /\ cache' = [cache EXCEPT ![w] = "whole"]
    /\ UNCHANGED <<result, fd, got, disk, name, onDisk, temps, installed, losses>>

(* Mutant: flush without fsync. *)
FlushOnly(w) ==
    /\ Syncs
    /\ Step(w, "filled", "synced")
    /\ UNCHANGED <<result, fd, got, cache, disk, name, onDisk, temps, installed, losses>>

(* os.fsync *)
Sync(w) ==
    /\ Syncs
    /\ Step(w, "filled", "synced")
    /\ disk' = [disk EXCEPT ![w] = cache[w]]
    /\ UNCHANGED <<result, fd, got, cache, name, onDisk, temps, installed, losses>>

(* Mutant: the file is put in place before it is synced. *)
RestrictBeforeSync(w) ==
    /\ Step(w, "filled", "restricted")
    /\ UNCHANGED <<result, fd, got, cache, disk, name, onDisk, temps, installed, losses>>

(* os.chmod *)
Restrict(w) ==
    /\ Step(w, IF Syncs THEN "synced" ELSE "filled", "restricted")
    /\ UNCHANGED <<result, fd, got, cache, disk, name, onDisk, temps, installed, losses>>

(* os.replace: the store's name now stands for the writer's file. *)
Replace(w) ==
    /\ Step(w, "restricted", "replaced")
    /\ name' = w /\ onDisk' = onDisk \cup {w}
    /\ temps' = temps \ {w}
    /\ installed' = installed \cup {w}
    /\ UNCHANGED <<result, fd, got, cache, disk, losses>>

Return(w) ==
    /\ Reports(w, "replaced", "ok")
    /\ UNCHANGED <<fd, got, cache, disk, name, onDisk, temps, installed, losses>>

(* An OSError before there is a temporary file, and after. *)
CannotPrepare(w) ==
    /\ Reports(w, "preparing", "failed")
    /\ UNCHANGED <<fd, got, cache, disk, name, onDisk, temps, installed, losses>>

CannotWrite(w) ==
    /\ \E from \in {"filling", "filled", "synced", "restricted"} : Step(w, from, "cleaning")
    /\ UNCHANGED <<result, fd, got, cache, disk, name, onDisk, temps, installed, losses>>

(* Mutant: a failed write leaves its temporary file. *)
LeaveTemp(w) ==
    /\ Reports(w, "cleaning", "failed")
    /\ UNCHANGED <<fd, got, cache, disk, name, onDisk, temps, installed, losses>>

(* os.unlink, whose own OSError is ignored, then CredentialsError. *)
Unlink(w) ==
    /\ Reports(w, "cleaning", "failed")
    /\ temps' \in {temps \ {w}} \cup (IF UnlinkFails THEN {temps} ELSE {})
    /\ UNCHANGED <<fd, got, cache, disk, name, onDisk, installed, losses>>

(* Ctrl-C or a kill: nothing but OSError leads to the unlink. *)
Killed(w) ==
    /\ \E from \in Active : Reports(w, from, "killed")
    /\ UNCHANGED <<fd, got, cache, disk, name, onDisk, temps, installed, losses>>
---------------------------------------------------------------------------
(* Readers: path.read_text opens the store once and reads what it opened.  *)

Open(r) ==
    /\ fd[r] = Unread
    /\ fd' = [fd EXCEPT ![r] = name]
    /\ UNCHANGED <<pc, result, got, cache, disk, name, onDisk, temps, installed, losses>>

(* What a process finds in a file now. *)
Content(f) == IF cache[f] = "whole" THEN f ELSE Torn

Read(r) ==
    /\ fd[r] # Unread /\ got[r] = Unread
    /\ got' = [got EXCEPT ![r] = Content(fd[r])]
    /\ UNCHANGED <<pc, result, fd, cache, disk, name, onDisk, temps, installed, losses>>
---------------------------------------------------------------------------
(* The machine *)

WriteBack(f) ==
    /\ disk[f] # cache[f]
    /\ disk' = [disk EXCEPT ![f] = cache[f]]
    /\ UNCHANGED <<pc, result, fd, got, cache, name, onDisk, temps, installed, losses>>

SettleName ==
    /\ onDisk # {name}
    /\ onDisk' = {name}
    /\ UNCHANGED <<pc, result, fd, got, cache, disk, name, temps, installed, losses>>

(* Everyone at work is gone, and the store is one of the files its name    *)
(* may stand for, as far as that file had reached the disk.                *)
PowerLoss ==
    /\ losses < MaxLosses
    /\ losses' = losses + 1
    /\ pc' = [w \in Writers |-> IF pc[w] = "idle" THEN "idle" ELSE "done"]
    /\ result' = [w \in Writers |-> IF pc[w] \in Active THEN "killed" ELSE result[w]]
    /\ fd' = [r \in Readers |-> IF got[r] = Unread THEN Unread ELSE fd[r]]
    /\ name' \in onDisk /\ onDisk' = {name'}
    /\ cache' = disk
    /\ UNCHANGED <<got, disk, temps, installed>>

WriterStep(w) ==
    \/ Prepare(w) \/ CreateTemp(w) \/ Fill(w) \/ Sync(w) \/ Restrict(w) \/ Replace(w) \/ Return(w)
    \/ CannotPrepare(w) \/ CannotWrite(w) \/ Unlink(w)

Next ==
    \/ \E w \in Writers : WriterStep(w) \/ Killed(w)
    \/ \E r \in Readers : Open(r) \/ Read(r)
    \/ \E f \in Files : WriteBack(f)
    \/ SettleName \/ PowerLoss

Spec == Init /\ [][Next]_vars
---------------------------------------------------------------------------
(* Properties *)

TypeOK ==
    /\ pc \in [Writers -> {"idle", "done"} \cup Active]
    /\ result \in [Writers -> {"none", "ok", "failed", "killed"}]
    /\ fd \in [Readers -> Files \cup {Unread}]
    /\ got \in [Readers -> Files \cup {Torn, Unread}]
    /\ cache \in [Files -> Extent] /\ disk \in [Files -> Extent]
    /\ name \in Files /\ onDisk \subseteq Files
    /\ temps \subseteq Writers /\ installed \subseteq Writers
    /\ losses \in Nat

(* Whatever else writes or dies meanwhile, a reader gets a whole document:  *)
(* the first one or one that some write put in place.                       *)
ReadsAreWhole == \A r \in Readers : got[r] \in {Unread, Old} \cup installed

(* codex.py:182: "A crash mid-write leaves the original auth.json untouched *)
(* instead of producing a truncated file": at no time, not even after the   *)
(* power failed, is the store a truncated file.                             *)
NeverTruncated == Content(name) # Torn

(* A write that reported an error has not changed the store, and will not.  *)
FailureChangesNothing == \A w \in Writers :
    result[w] = "failed" => name # w /\ w \notin installed

(* Every write that returned or raised has cleaned up after itself.         *)
NoLitter == \A w \in Writers : result[w] \in {"ok", "failed"} => w \notin temps

(* Once written, the store only ever changes by a rename, or by a loss of   *)
(* power, back to a document it has already held.                           *)
StoreRegister == INSTANCE StorePromise WITH
    doc <- Content(name),
    got <- [r \in Readers |-> IF fd[r] = Unread THEN Unread ELSE Content(fd[r])]

(* Several commands and readers see one register (StorePromise).            *)
IsARegister == StoreRegister!Spec
---------------------------------------------------------------------------
(* Why they hold: the inductive invariant of FileStoreProofs.  A file that  *)
(* has been the store is sealed: it is whole, on the disk as well if the    *)
(* code syncs, and no writer touches it any more.                           *)

Sealed(f) == cache[f] = "whole" /\ (Syncs => disk[f] = "whole")

Tidy(w) ==
    /\ pc[w] \in {"idle", "preparing", "replaced"} => w \notin temps
    /\ result[w] \in {"ok", "failed"} => w \notin temps

WriterInv(w) ==
    /\ pc[w] \notin {"replaced", "done"} => w \notin installed
    /\ pc[w] \in {"filled", "synced", "restricted"} => cache[w] = "whole"
    /\ pc[w] \in {"synced", "restricted"} /\ Syncs => disk[w] = "whole"
    /\ pc[w] = "replaced" => w \in installed
    /\ pc[w] # "done" => result[w] = "none"
    /\ result[w] = "ok" => w \in installed
    /\ result[w] = "failed" => w \notin installed

ReaderInv(r) ==
    /\ fd[r] \in {Unread, Old} \cup installed
    /\ got[r] \in {Unread, fd[r]}

IInv ==
    /\ TypeOK
    /\ name \in onDisk /\ onDisk \subseteq {Old} \cup installed
    /\ \A f \in {Old} \cup installed : Sealed(f)
    /\ \A w \in Writers : WriterInv(w) /\ (~UnlinkFails => Tidy(w))
    /\ \A r \in Readers : ReaderInv(r)
===========================================================================
