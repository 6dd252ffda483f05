------------------------------ MODULE MCSigning -----------------------------
(***************************************************************************)
(* Three nodes, a threshold of two, two requests.  All nodes approve the   *)
(* message of the first one; node 1 rejects the message of the second.     *)
(***************************************************************************)
EXTENDS Signing, Keygen

MCIds == 1 .. 3
MCParams == [threshold |-> 2, total |-> 3]
MCGroupKey == generate_with_dkg(MCParams, [i \in MCIds |-> <<i, 0>>]).pkp
MCRequests == [r \in 1 .. 2 |-> [message |-> IF r = 1 THEN "m1" ELSE "m2",
                                 randomizer |-> "alpha"]]
MCApproves == [n \in MCIds |-> IF n = 1 THEN {"m1"} ELSE {"m1", "m2"}]
=============================================================================
