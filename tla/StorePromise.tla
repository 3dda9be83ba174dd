--------------------------- MODULE StorePromise ---------------------------
(***************************************************************************)
(* What a credential file promises: it is one register.  A write takes     *)
(* effect at one instant or not at all, one that reported failure never    *)
(* does, a read returns the document of one instant, and a loss of power   *)
(* leaves some whole document that was there, never a mixture or a stump.  *)
(***************************************************************************)
CONSTANTS Writers, Readers, Old, Unread

VARIABLES
    doc,        \* the document in the store, named by who wrote it
    installed,  \* the writers whose document has been in it
    result,     \* what each writer has reported
    got         \* what each reader got

vars == <<doc, installed, result, got>>

Init ==
    /\ doc = Old /\ installed = {}
    /\ result = [w \in Writers |-> "none"]
    /\ got = [r \in Readers |-> Unread]

Install(w) ==
    /\ result[w] = "none" /\ w \notin installed
    /\ doc' = w /\ installed' = installed \cup {w}
    /\ UNCHANGED <<result, got>>

Report(w, how) ==
    /\ result[w] = "none"
    /\ how = "ok" => w \in installed
    /\ how = "failed" => w \notin installed
    /\ result' = [result EXCEPT ![w] = how]
    /\ UNCHANGED <<doc, installed, got>>

Read(r) ==
    /\ got[r] = Unread
    /\ got' = [got EXCEPT ![r] = doc]
    /\ UNCHANGED <<doc, installed, result>>

(* Writers and readers at work are gone, and so may be what was written. *)
PowerLoss ==
    /\ doc' \in {Old} \cup installed
    /\ \E gone \in SUBSET {w \in Writers : result[w] = "none"} :
          result' = [w \in Writers |-> IF w \in gone THEN "killed" ELSE result[w]]
    /\ \E gone \in SUBSET Readers :
          got' = [r \in Readers |-> IF r \in gone THEN Unread ELSE got[r]]
    /\ UNCHANGED installed

Next ==
    \/ \E w \in Writers : Install(w) \/ \E how \in {"ok", "failed", "killed"} : Report(w, how)
    \/ \E r \in Readers : Read(r)
    \/ PowerLoss

Spec == Init /\ [][Next]_vars
===========================================================================
