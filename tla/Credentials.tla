--------------------------- MODULE Credentials ---------------------------
(***************************************************************************)
(* Credential documents and what the two storage backends make of them     *)
(* (ai_credentials_helper/backends/claude.py and codex.py).                *)
(*                                                                         *)
(* A document is abstracted to what the backends tell apart:               *)
(*   id     which credentials it holds, so that two documents differ;      *)
(*   form   its text: a JSON "object", the same object in "hex" digits, a  *)
(*          JSON "array", "text" that is no JSON, or JSON nested too       *)
(*          "deep" for Python's decoder;                                   *)
(*   shape  the backend whose shape checks an object passes, or "neither"; *)
(*   exp    the `exp' claim of the Codex access token, 0 when it cannot be *)
(*          decoded: both backends' answers for such a claim are those for *)
(*          one that has long passed;                                      *)
(*   due    whether the Claude `expiresAt' can be shown as a date: "fine", *)
(*          or "odd" (a string, or out of the range of datetime).          *)
(***************************************************************************)
EXTENDS Naturals

CONSTANT KeychainService  \* TRUE on macOS: Claude's store is a Keychain item

ASSUME KeychainServiceAssumption == KeychainService \in BOOLEAN

Agents == {"claude", "codex"}

Forms == {"object", "hex", "array", "text", "deep"}

Shapes == Agents \cup {"neither"}

Documents == [id : Nat, form : Forms, shape : Shapes, exp : Nat, due : {"fine", "odd"}]

---------------------------------------------------------------------------
(* parse_blob: the forms a backend parses, those that make it raise        *)
(* ValueError, and (the rest) those on which the JSON decoder itself gives *)
(* up with a RecursionError.                                               *)

Parses(agent, doc) ==
    doc.form \in IF agent = "claude" THEN {"object", "hex"} ELSE {"object", "array"}

RaisesValueError(agent, doc) == ~Parses(agent, doc) /\ doc.form # "deep"

(* validate_blob on what parse_blob returned: a dictionary of the backend's *)
(* own shape and, for codex unless FORCE_WRITE is set, an unexpired token.  *)

Unexpired(doc, now) == doc.exp > now

Shaped(agent, doc) == doc.form # "array" /\ doc.shape = agent

ValidateBlob(agent, doc, force, now) ==
    /\ Shaped(agent, doc)
    /\ (agent = "codex" /\ ~force) => Unexpired(doc, now)

(* What the agent itself can start from. *)
Usable(agent, doc) == Parses(agent, doc) /\ Shaped(agent, doc)

---------------------------------------------------------------------------
(* write: the checks a backend repeats before it touches its store, and    *)
(* the text it leaves there.                                               *)

(* Mutant: write trusts the validation its caller did. *)
WriteAcceptsUnvalidated(agent, doc, force, now) ==
    (agent = "claude" /\ KeychainService) \/ Parses(agent, doc)

WriteAccepts(agent, doc, force, now) ==
    \/ agent = "claude" /\ KeychainService
    \/ Parses(agent, doc) /\ ValidateBlob(agent, doc, force, now)

Stored(agent, doc) ==
    IF agent = "claude" /\ ~KeychainService THEN [doc EXCEPT !.form = "object"] ELSE doc

(* tokens_from_data followed by _format_expiry_verbose: whether a document *)
(* that passed validate_blob can be shown.  Codex falls back to now + 1 h, *)
(* Claude divides and formats whatever expiresAt holds.                    *)
Presentable(agent, doc) == agent = "claude" => doc.due = "fine"
===========================================================================
