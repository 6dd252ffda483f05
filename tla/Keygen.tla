------------------------------- MODULE Keygen -------------------------------
(***************************************************************************)
(* sapphire-keygen: the three parts of FROST's key generation for all      *)
(* members 1 .. total in one function, over maps in place of a network.    *)
(* The command line writes its result to files, one bundle per member, and *)
(* the nodes of the integration tests start from it.                       *)
(*                                                                         *)
(* A polynomial is the draw it was made from, poly[i] for member i; what   *)
(* member i evaluates for j names the polynomial and j, as in Dkg.         *)
(***************************************************************************)
EXTENDS Chain

(* MpcParams::new *)
new_ok(threshold, total) == threshold # 0 /\ total # 0 /\ threshold <= total

Members(params) == 1 .. params.total

(* part1 of FROST (external) draws a polynomial only for a group of two or *)
(* more with a threshold of two or more: MpcParams::new lets a threshold   *)
(* of one, and a group of one, pass.                                       *)
part1_ok(params) ==
    2 <= params.threshold /\ 2 <= params.total /\ params.threshold <= params.total

(* part2 of FROST (external): the evaluations member i sends. *)
sent_r2(params, poly, i) ==
    [j \in Members(params) \ {i} |-> [poly |-> poly[i], to |-> j]]

(* Every package is put into its recipient's inbox, under its sender. *)
inbox_r2(params, poly, i) ==
    [j \in Members(params) \ {i} |-> sent_r2(params, poly, j)[i]]

(* part3 of FROST (external) takes evaluations of the posted polynomials   *)
(* at its own identifier.                                                  *)
part3_accepts(publics_r1, received_r2, i) ==
    \A j \in DOMAIN received_r2 : received_r2[j] = [poly |-> publics_r1[j], to |-> i]

(* generate_with_dkg: a key package for every member, made from what it    *)
(* received, and the public key package of the group, or None where it     *)
(* returns an error.                                                       *)
generate_with_dkg(params, poly) ==
    IF /\ part1_ok(params)
       /\ \A i \in Members(params) : part3_accepts(poly, inbox_r2(params, poly, i), i)
    THEN [key_packages |-> [i \in Members(params) |-> inbox_r2(params, poly, i)],
          pkp |-> [i \in Ids |-> IF i \in Members(params) THEN poly[i] ELSE None]]
    ELSE None
=============================================================================
