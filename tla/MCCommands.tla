----------------------------- MODULE MCCommands -----------------------------
(***************************************************************************)
(* An instance of Commands for TLC.                                        *)
(***************************************************************************)
EXTENDS Commands, TLC

CONSTANTS p1, p2, alice, bob

Doc(form, shape, exp, token, rest) ==
    [form |-> form, shape |-> shape, exp |-> exp, due |-> "fine", token |-> token, rest |-> rest]

First == Doc("object", "claude", 0, 1, 0)
Junk == Doc("text", "neither", 0, 0, 0)
Expired == Doc("object", "codex", 0, 0, 0)
Other == Doc("object", "neither", 0, 0, 3)

Call(mode, agent, force, doc) == [mode |-> mode, agent |-> agent, force |-> force, doc |-> doc]

(* A copy of the first document, one with Claude's shape missing, no JSON,  *)
(* and an expired Codex token with and without --force.                     *)
MCCalls ==
    {Call("refresh", "claude", FALSE, First), Call("refresh", "codex", FALSE, First),
     Call("show", "claude", FALSE, First),
     Call("import", "claude", FALSE, First), Call("import", "claude", FALSE, Junk),
     Call("receive", "claude", FALSE, Other),
     Call("import", "codex", TRUE, Expired), Call("import", "codex", FALSE, Expired),
     Call("receive", "codex", FALSE, Expired),
     Call("request", "codex", TRUE, Expired), Call("request", "codex", FALSE, Expired)}

Two == {p1, p2}
Names == {alice, bob}

Symmetry == Permutations(Two)
===========================================================================
