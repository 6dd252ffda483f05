----------------------------- MODULE MCReplicas -----------------------------
(* Three validators that approve everything, a threshold of two, one request. *)
EXTENDS Replicas, Keygen

MCIds == 1 .. 3
MCParams == [threshold |-> 2, total |-> 3]
MCGroupKey == generate_with_dkg(MCParams, [i \in MCIds |-> <<i, 0>>]).pkp
MCRequests == [r \in {1} |-> [message |-> "m1", randomizer |-> "alpha"]]
MCApproves == [n \in MCIds |-> {"m1"}]

(* What the theorems about replicas suppose of the group. *)
ASSUME MCQuorumsMeet == QuorumsMeet
=============================================================================
