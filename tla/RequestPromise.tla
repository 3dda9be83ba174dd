-------------------------- MODULE RequestPromise --------------------------
(***************************************************************************)
(* What `--request' promises: each request is one atomic read of the       *)
(* serving machine's store, made after the request was, and the store it   *)
(* imports into changes by that read or not at all.  A requester told that *)
(* the server could not answer is told so because the server tried.  Only  *)
(* of a Keychain may it be told that an import failed which took effect.   *)
(***************************************************************************)
EXTENDS Credentials

CONSTANTS
    Requesters,
    Contents,   \* what a store on the serving machine may hold
    Failures,   \* what reading it may give instead of a document
    InitialStore

Requests == Requesters \X Agents

VARIABLES
    server,   \* the stores of the serving machine
    seen,     \* what has been read there for each request
    told,     \* how each request stands
    store     \* the stores of each requesting machine

vars == <<server, seen, told, store>>

Init ==
    /\ server \in [Agents -> Contents]
    /\ seen = [n \in Requests |-> {}]
    /\ told = [n \in Requests |-> "none"]
    /\ store = [r \in Requesters |-> InitialStore]

(* The agent on the serving machine logs in or out, or renews its tokens. *)
Change ==
    /\ server' \in [Agents -> Contents]
    /\ UNCHANGED <<seen, told, store>>

Ask(n) ==
    /\ told[n] = "none"
    /\ told' = [told EXCEPT ![n] = "asked"]
    /\ UNCHANGED <<server, seen, store>>

ReadFor(n) ==
    /\ told[n] # "none"
    /\ \E content \in {server[n[2]]} \cup Failures :
          seen' = [seen EXCEPT ![n] = @ \cup {content}]
    /\ UNCHANGED <<server, told, store>>

Import(n, doc, how) ==
    /\ told[n] = "asked" /\ doc \in seen[n] \ Failures
    /\ how # "imported" => KeychainService /\ n[2] = "claude" /\ how = "failed"
    /\ told' = [told EXCEPT ![n] = how]
    /\ store' = [store EXCEPT ![n[1]] = [@ EXCEPT ![n[2]] = Stored(n[2], doc)]]
    /\ UNCHANGED <<server, seen>>

Abandon(n, how) ==
    /\ told[n] = "asked"
    /\ how = "refused" => seen[n] \cap Failures # {}
    /\ told' = [told EXCEPT ![n] = how]
    /\ UNCHANGED <<server, seen, store>>

Next ==
    \/ Change
    \/ \E n \in Requests :
          \/ Ask(n) \/ ReadFor(n)
          \/ \E doc \in seen[n], how \in {"imported", "failed"} : Import(n, doc, how)
          \/ \E how \in {"refused", "failed"} : Abandon(n, how)

Spec == Init /\ [][Next]_vars
===========================================================================
