-------------------------- MODULE TransferPromise --------------------------
(***************************************************************************)
(* What a one-shot transfer promises its sender.  A transfer travels on a  *)
(* carrier of its own, and whoever has recorded it may put it on one that  *)
(* no transfer uses: a copy is not told from the original.  A carrier is   *)
(* named by the transfer it is meant for, and lands at most once; a        *)
(* sender told "ok" is told so after its transfer landed; one told         *)
(* "refused" has not landed and never will, unless a copy was made.  A     *)
(* sender may always be left unsure, and an unsure sender's transfer may   *)
(* land before or after.                                                   *)
(***************************************************************************)
CONSTANT Transfers

VARIABLES
    sent,     \* <<t, c>>: transfer t travels on carrier c
    landed,   \* those of them written to the receiver's store
    told      \* what each sender has been told

vars == <<sent, landed, told>>

Again(t) == \E c \in Transfers \ {t} : <<t, c>> \in sent

TypeOK ==
    /\ sent \subseteq Transfers \X Transfers
    /\ landed \subseteq sent
    /\ told \in [Transfers -> {"pending", "ok", "refused", "unsure"}]

Init ==
    /\ sent = {} /\ landed = {}
    /\ told = [t \in Transfers |-> "pending"]

(* Only what has been sent can be copied, and onto an unused carrier. *)
Send(t, c) ==
    /\ c = t \/ <<t, t>> \in sent
    /\ \A u \in Transfers : <<u, c>> \notin sent
    /\ sent' = sent \cup {<<t, c>>}
    /\ UNCHANGED <<landed, told>>

Land(t, c) ==
    /\ <<t, c>> \in sent \ landed
    /\ told[t] = "refused" => Again(t)
    /\ landed' = landed \cup {<<t, c>>}
    /\ UNCHANGED <<sent, told>>

Tell(t, answer) ==
    /\ told[t] = "pending"
    /\ answer = "ok" => \E c \in Transfers : <<t, c>> \in landed
    /\ answer = "refused" => Again(t) \/ <<t, t>> \notin landed
    /\ told' = [told EXCEPT ![t] = answer]
    /\ UNCHANGED <<sent, landed>>

Next ==
    \E t \in Transfers :
        \/ \E c \in Transfers : Send(t, c) \/ Land(t, c)
        \/ \E answer \in {"ok", "refused", "unsure"} : Tell(t, answer)

Spec == Init /\ [][Next]_vars
===========================================================================
