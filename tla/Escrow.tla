------------------------------- MODULE Escrow -------------------------------
(***************************************************************************)
(* sapphire-escrow, the policies of sapphire-node/src/policy.rs, and the   *)
(* oracle command's verdict: pure functions from terms and proposals to Ok *)
(* or the reason of the refusal.                                           *)
(*                                                                         *)
(* What is abstracted: a digest names its preimage (SHA-256 has no         *)
(* collisions); a message is what its bytes were serialized from, and it   *)
(* deserializes as what it is and as nothing else, so a 32-byte sighash or *)
(* a RefundIntent is not a ReleaseProposal, and neither is a proposal      *)
(* whose witness has another verifier's type.                              *)
(***************************************************************************)
EXTENDS Naturals

(* HashPreimage::digest *)
digest(preimage) == [sha256 |-> preimage]

(* The witness of the AcceptAll verifier, `()`. *)
Unit == "()"

(* ConditionVerifier::verify of the two verifiers. *)
verify(verifier, terms, witness) ==
    verifier = "HashPreimage" => terms.condition = digest(witness)

(* Mutant: the amount is not compared. *)
validate_settlement_AnyAmount(terms, intent, verifier) ==
    CASE intent.payment.to # terms.payee -> "PayeeMismatch"
      [] ~verify(verifier, terms, intent.witness) -> "ConditionNotMet"
      [] OTHER -> "Ok"

(* The release predicate: the first check that fails names the reason. *)
validate_settlement(terms, intent, verifier) ==
    IF intent.payment.amount # terms.amount THEN "AmountMismatch"
    ELSE IF intent.payment.to # terms.payee THEN "PayeeMismatch"
    ELSE IF ~verify(verifier, terms, intent.witness) THEN "ConditionNotMet"
    ELSE "Ok"

(* The refund predicate. *)
validate_refund(terms, intent, current_height) ==
    IF current_height < terms.timeout_height THEN "RefundTooEarly"
    ELSE IF intent.payment.to # terms.refund_to THEN "RefundPayeeMismatch"
    ELSE IF intent.payment.amount # terms.amount THEN "AmountMismatch"
    ELSE "Ok"

(* serde_json::from_slice::<ReleaseProposal<V::Witness>>. *)
IsProposal(message, verifier) ==
    /\ message.kind = "release"
    /\ (message.intent.witness = Unit) = (verifier = "AcceptAll")

(* Mutant: knowing the escrow is enough. *)
approve_Known(policy, message) ==
    IF policy.kind = "AcceptAll" THEN "Ok"
    ELSE IF ~IsProposal(message, policy.verifier) THEN "NotAProposal"
    ELSE IF message.escrow_id \notin DOMAIN policy.escrows THEN "UnknownEscrow"
    ELSE "Ok"

(* SignPolicy::approve.  An EscrowPolicy looks the terms up in its own     *)
(* registry, a function from the ids it knows.                             *)
approve(policy, message) ==
    IF policy.kind = "AcceptAll" THEN "Ok"
    ELSE IF ~IsProposal(message, policy.verifier) THEN "NotAProposal"
    ELSE IF message.escrow_id \notin DOMAIN policy.escrows THEN "UnknownEscrow"
    ELSE validate_settlement(policy.escrows[message.escrow_id], message.intent, policy.verifier)

(* What `oracle` says of a settlement built against the given terms. *)
oracle_verdict(terms, message, current_height) ==
    CASE message.kind = "release" -> validate_settlement(terms, message.intent, "HashPreimage")
      [] message.kind = "refund" -> validate_refund(terms, message.intent, current_height)
      [] OTHER -> "UnknownAction"
=============================================================================
