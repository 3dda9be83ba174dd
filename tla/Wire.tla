------------------------------- MODULE Wire -------------------------------
(***************************************************************************)
(* What travels on the wire (transfer_envelope.py, transfer_crypto.py),    *)
(* with perfect cryptography: a key is the pair it is derived from, a tag  *)
(* verifies under the key that made it, for the bytes it was made over.    *)
(*                                                                         *)
(* A plaintext is a document under a label.  A frame is a plaintext sealed *)
(* under a passphrase and a fresh salt; `body' tells whether the bytes     *)
(* still are the ones the tag covers.                                      *)
(***************************************************************************)
EXTENDS Credentials

CONSTANTS
    Salts,        \* the salts encrypt() draws
    Scrambled,    \* a salt no encrypt() ever drew: altered on the way
    Passphrases

ASSUME SaltAssumption == Scrambled \notin Salts

(* What a label can be for unwrap: an agent it knows, or any of the        *)
(* defects it rejects (no magic prefix, another version, no agent field,   *)
(* an agent that is not registered, an empty payload).                     *)
Labels == Agents \cup {"unlabelled"}

Plaintexts == [label : Labels, doc : Documents]

Frames == [salt  : Salts \cup {Scrambled},
           pw    : Passphrases,
           plain : Plaintexts,
           body  : {"intact", "altered", "malformed"}]

Statuses == {"ok", "agent-mismatch", "rejected"}

Keys == [pw : Passphrases, salt : Salts \cup {Scrambled}]

Acks == [key : Keys, status : Statuses]

---------------------------------------------------------------------------
Encrypt(plain, pw, salt) ==
    [salt |-> salt, pw |-> pw, plain |-> plain, body |-> "intact"]

(* _parse_frame: two lines, base64 and a hex tag.  frame_salt and          *)
(* mac_key_for_frame need no more than that.                               *)
WellFormed(frame) == frame.body # "malformed"

MacKeyForFrame(frame, pw) == [pw |-> pw, salt |-> frame.salt]

(* Mutant: a tag that does not depend on the passphrase. *)
TagVerifiesForAnyone(frame, pw) == frame.body = "intact"

(* decrypt returns the plaintext exactly when the tag verifies. *)
TagVerifies(frame, pw) == frame.body = "intact" /\ frame.pw = pw

Decrypts(frame, pw) == WellFormed(frame) /\ TagVerifies(frame, pw)

(* unwrap, unless it raises EnvelopeError. *)
Unwraps(plain) == plain.label \in Agents

Unwrap(plain) == [agent |-> plain.label, payload |-> plain.doc]

---------------------------------------------------------------------------
Ack(key, status) == [key |-> key, status |-> status]

(* Mutant: an acknowledgement not bound to the transfer's salt. *)
AckVerifiesForAnyTransfer(ack, key) == ack.key.pw = key.pw

(* read_ack: the status, once the tag verifies under the sender's own key. *)
AckVerifies(ack, key) == ack.key = key

(* An acknowledgement altered on the way verifies under no one's key. *)
Garbled(ack) == [ack EXCEPT !.key.salt = Scrambled]
===========================================================================
