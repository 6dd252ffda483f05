------------------------------- MODULE MCMesh -------------------------------
(***************************************************************************)
(* Two nodes.  Either they list each other, or node 2 has not been told of *)
(* node 1, which dials it.                                                 *)
(***************************************************************************)
EXTENDS Mesh

MCNodes == {1, 2}
MCConfigs == {[n \in MCNodes |-> MCNodes \ {n}], [n \in MCNodes |-> IF n = 1 THEN {2} ELSE {}]}
=============================================================================
