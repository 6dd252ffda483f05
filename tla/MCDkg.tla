-------------------------------- MODULE MCDkg -------------------------------
(* A ceremony of three participants, with a threshold of two or, as        *)
(* MpcParams::new allows, of one; member 3 may be named by a faulty package. *)
EXTENDS Dkg

MCIds == 1 .. 3
MCOffered == [threshold : {1, 2}, total : {3}]
MCFaulty == {[from |-> 3, package |-> <<1, 0>>]}
=============================================================================
