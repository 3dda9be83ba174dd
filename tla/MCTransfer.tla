---------------------------- MODULE MCTransfer ----------------------------
(***************************************************************************)
(* Instances of Transfer for TLC.                                          *)
(***************************************************************************)
EXTENDS Transfer

CONSTANTS s1, s2

Doc(id, form, shape, exp, due) ==
    [id |-> id, form |-> form, shape |-> shape, exp |-> exp, due |-> due]

Job(label, doc, pw, size, transport) ==
    [plain |-> [label |-> label, doc |-> doc], pw |-> pw, size |-> size, transport |-> transport]

Options(pin, force, verbose, pw) ==
    [pin |-> pin, force |-> force, verbose |-> verbose, pw |-> pw]

ClaudeDoc == Doc(1, "object", "claude", 0, "fine")
CodexDoc == Doc(2, "object", "codex", 1, "fine")

OldStore == [a \in Agents |-> Doc(0, "object", a, 9, "fine")]

BothSalts == {s1, s2}
OneSalt == {s1}
Nobody == {}
TheSecond == {s2}

---------------------------------------------------------------------------
(* Two senders contend for one receiver, started twice; one of them is     *)
(* given a passphrase, the receiver a pin, that do not fit.  The second    *)
(* connection may be that of somebody who sends the first's frame again,   *)
(* to a receiver that had refused it or had not.                           *)
RaceJobs == {Job("claude", ClaudeDoc, "pw", 2, "nc"), Job("codex", CodexDoc, "other", 1, "native")}
RaceConfigs ==
    {Options("any", FALSE, FALSE, "pw"), Options("codex", FALSE, FALSE, "pw"),
     Options("codex", TRUE, FALSE, "other")}

(* One sender, every kind of payload, label and transport, and every way   *)
(* of starting the receiver, on a Mac: its Keychain takes any text.        *)
AllDocs ==
    {Doc(1, form, shape, 0, due) : form \in Forms, shape \in Shapes, due \in {"fine", "odd"}}
    \cup {Doc(2, "object", "codex", exp, "fine") : exp \in 1 .. 2}

PayloadJobs ==
    {Job(label, doc, "pw", 2, "native") : label \in Labels, doc \in AllDocs}
    \cup {Job("claude", ClaudeDoc, pw, size, "nc") : pw \in {"pw", "other"}, size \in {1, 4}}

PayloadConfigs ==
    {Options(pin, force, verbose, "pw") :
        pin \in {"any", "claude", "codex"}, force \in BOOLEAN, verbose \in BOOLEAN}

AnyConfig == {Options("any", FALSE, TRUE, "pw")}

(* A Claude document whose expiresAt is no number passes validate_blob. *)
OddJobs == {Job("claude", Doc(1, "object", "claude", 0, "odd"), "pw", 1, "native")}
===========================================================================
