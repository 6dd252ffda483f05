----------------------------- MODULE MCSession ------------------------------
(***************************************************************************)
(* Three nodes and a threshold of two.  Node 1 is an escrow signer that    *)
(* honours one escrow, the others sign anything.                           *)
(***************************************************************************)
EXTENDS Session, Keygen

MCIds == 1 .. 3
MCParams == [threshold |-> 2, total |-> 3]
MCGroupKey == generate_with_dkg(MCParams, [i \in MCIds |-> <<i, 0>>]).pkp

Terms == [amount |-> 8, payee |-> "alice", refund_to |-> "bob", timeout_height |-> 1000,
          condition |-> digest("secret")]

MCPolicies ==
    [n \in MCIds |->
        IF n = 1 THEN [kind |-> "Escrow", verifier |-> "HashPreimage", escrows |-> [e \in {"e1"} |-> Terms]]
        ELSE [kind |-> "AcceptAll"]]

Sighash == [kind |-> "sighash"]
Release(amount, to, witness) ==
    [kind |-> "release", escrow_id |-> "e1",
     intent |-> [payment |-> [amount |-> amount, to |-> to], witness |-> witness]]

Good == Release(8, "alice", "secret")
Short == Release(7, "alice", "secret")

Refund == [kind |-> "refund", escrow_id |-> "e1",
           intent |-> [payment |-> [amount |-> 8, to |-> "bob"]]]

MCMessages == {Sighash, Good, Short, Refund}
MCApproves == [n \in MCIds |-> {m \in MCMessages : approve(MCPolicies[n], m) = "Ok"}]

MCJobs == {[kind |-> "pczt", message |-> Sighash, alphas |-> <<"a", "b">>],
           [kind |-> "pczt", message |-> Sighash, alphas |-> <<"b", None>>],
           [kind |-> "demo", message |-> Good, alphas |-> <<"a">>, rounds |-> 2],
           [kind |-> "demo", message |-> Short, alphas |-> <<"a">>, rounds |-> 1],
           [kind |-> "demo", message |-> Refund, alphas |-> <<"b">>, rounds |-> 2]}

MCSlates == {<<1, 2, 3>>, <<1, 3>>}

(* What SessionTwoRoundsAreEnough asks of a group and of the driver. *)
ASSUME MCTwoRounds == 0 < Params.threshold /\ 2 <= MaxRounds
=============================================================================
