-------------------------- MODULE ExchangePromise --------------------------
(***************************************************************************)
(* What an exchange promises whoever asks for it: the peer is told that    *)
(* the request has ended once it has all of it, the reply that is returned *)
(* is all there was, within the limit, or there is none, and when the      *)
(* exchange is over nothing is moved any more on its behalf.               *)
(***************************************************************************)
EXTENDS Naturals

CONSTANTS
    Frame,   \* the length of the request
    Limit    \* the longest reply wanted

VARIABLES
    delivered, ended,  \* what the peer has of the request, and whether it knows of its end
    replied,           \* what it has replied
    outcome, got,      \* how the exchange went, and what it returns
    over               \* TRUE once it has returned or raised

vars == <<delivered, ended, replied, outcome, got, over>>

Init ==
    /\ delivered = 0 /\ ended = FALSE /\ replied = 0
    /\ outcome = "none" /\ got = 0 /\ over = FALSE

Deliver ==
    /\ ~over /\ ~ended /\ delivered < Frame
    /\ delivered' = delivered + 1
    /\ UNCHANGED <<ended, replied, outcome, got, over>>

EndRequest ==
    /\ ~over /\ ~ended /\ delivered = Frame
    /\ ended' = TRUE
    /\ UNCHANGED <<delivered, replied, outcome, got, over>>

Reply ==
    /\ ~over /\ outcome # "reply"
    /\ replied' = replied + 1
    /\ UNCHANGED <<delivered, ended, outcome, got, over>>

Accept ==
    /\ outcome = "none" /\ replied <= Limit
    /\ outcome' = "reply" /\ got' = replied
    /\ UNCHANGED <<delivered, ended, replied, over>>

GiveUp ==
    /\ outcome = "none"
    /\ outcome' \in {"failed", "interrupted"} /\ over' \in BOOLEAN
    /\ UNCHANGED <<delivered, ended, replied, got>>

Leave ==
    /\ ~over /\ outcome # "none"
    /\ over' = TRUE
    /\ UNCHANGED <<delivered, ended, replied, outcome, got>>

Next == Deliver \/ EndRequest \/ Reply \/ Accept \/ GiveUp \/ Leave

Spec == Init /\ [][Next]_vars
===========================================================================
