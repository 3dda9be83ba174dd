-------------------------- MODULE MCRequestDaemon --------------------------
(***************************************************************************)
(* Instances of RequestDaemon for TLC.                                     *)
(***************************************************************************)
EXTENDS RequestDaemon, TLC

CONSTANTS r1, r2, x

Doc(id, form, shape, exp) ==
    [id |-> id, form |-> form, shape |-> shape, exp |-> exp, due |-> "fine"]

Job(agents, force, pw) == [agents |-> agents, force |-> force, pw |-> pw]

OldStore == [a \in Agents |-> Doc(0, "object", a, 9)]

TwoRequesters == {r1, r2}
OneRequester == {r1}
OneStranger == {x}
NoStrangers == {}

Symmetry == Permutations({r1, r2})

---------------------------------------------------------------------------
(* Two requesters ask for the same agent, with or without --force, while *)
(* the server's agent renews its token, which expires.                     *)
RaceJobs == {Job({"codex"}, force, "pw") : force \in BOOLEAN}
RenewedContents == {Doc(1, "object", "codex", 1), Doc(2, "array", "codex", 1)}

(* A Mac, whose transport is nc, asks for both agents.                     *)
MacJobs == {Job(Agents, TRUE, pw) : pw \in {"pw", "other"}}
MacContents == {Doc(1, "text", "neither", 0), Doc(2, "hex", "claude", 0), Doc(3, "object", "codex", 0)}

(* A stranger connects before, between and after a requester's attempts.   *)
SlowJobs == {Job({"claude"}, FALSE, "pw"), Job({"codex"}, FALSE, "pw")}
OneContent == {Doc(1, "object", "claude", 0)}
===========================================================================
