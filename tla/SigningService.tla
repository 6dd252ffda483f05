--------------------------- MODULE SigningService ---------------------------
(***************************************************************************)
(* What the signing protocol promises its client, without chain, nodes or  *)
(* network: a request is asked for, and may get one outcome, which never   *)
(* changes: the group's signature of exactly what was asked, made by       *)
(* threshold members all of whose policies approve the message.            *)
(*                                                                         *)
(* Signing (one chain) and Replicas (a chain state per validator) are      *)
(* shown to implement it.                                                  *)
(***************************************************************************)
EXTENDS FiniteSets

CONSTANTS
    Requests,   \* Requests[r]: message and randomizer the client submits as r
    Approves,   \* Approves[n]: the messages the policy of node n approves
    GroupKey,   \* the group's PublicKeyPackage
    Threshold   \* how many signers a signature takes

VARIABLES
    asked,      \* the requests the client has submitted
    outcomes    \* outcomes[r]: the results that anybody can see of request r

Init ==
    /\ asked = {}
    /\ outcomes = [r \in DOMAIN Requests |-> {}]

Ask(r) ==
    /\ r \notin asked
    /\ asked' = asked \cup {r}
    /\ UNCHANGED outcomes

Sign(r, S) ==
    /\ r \in asked
    /\ outcomes[r] = {}
    /\ Cardinality(S) = Threshold
    /\ \A n \in S : Requests[r].message \in Approves[n]
    /\ outcomes' = [outcomes EXCEPT ![r] =
          {[participants |-> S,
            signature |-> [message |-> Requests[r].message, randomizer |-> Requests[r].randomizer,
                           pkp |-> GroupKey]]}]
    /\ UNCHANGED asked

Next ==
    \E r \in DOMAIN Requests : Ask(r) \/ \E S \in SUBSET DOMAIN Approves : Sign(r, S)

Spec == Init /\ [][Next]_<<asked, outcomes>>
=============================================================================
