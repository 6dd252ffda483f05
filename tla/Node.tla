-------------------------------- MODULE Node --------------------------------
(***************************************************************************)
(* sapphire-node/src/lib.rs: what a call of Node::react on a chain state   *)
(* does to the node's memory and which transactions it returns.  The       *)
(* operators are functions of the state s, the node's identifier n and its *)
(* memory m, so that a node can be put in front of one chain (Signing) or  *)
(* of its own replica.                                                     *)
(*                                                                         *)
(* react goes through the requests in the order of their ids, and an error *)
(* on one of them ends the call: what it did to the memory for the earlier *)
(* ones stays, the transactions it had collected are lost.                 *)
(*                                                                         *)
(* What is abstracted: a policy is the set of messages it approves (both   *)
(* policies of policy.rs are functions of the message); all nodes hold     *)
(* shares of the one group key, dealt for the group's threshold.           *)
(***************************************************************************)
EXTENDS Chain, SequencesExt

CONSTANTS
    GroupKey,  \* the PublicKeyPackage of the nodes' bundles
    Approves   \* Approves[n]: the messages the policy of node n approves

ASSUME NodeAssumption ==
    /\ GroupKey \in PublicKeyPackage
    /\ \A n \in DOMAIN Approves : Approves[n] \subseteq Messages
    /\ Uuids \subseteq Nat /\ IsFiniteSet(Uuids)

(* Node, without its bundle and policy; drawn counts what its RNG has given. *)
NodeMemory == [pending : Map(Uuids, Draw), committed_requests : SUBSET Uuids,
               shared_requests : SUBSET Uuids, drawn : Nat]

(* Node::new on the stored bundle: nothing but the key share survives. *)
NewNode(drawn) == [pending |-> Empty(Uuids), committed_requests |-> {},
                   shared_requests |-> {}, drawn |-> drawn]

----------------------------------------------------------------------------
(* The requests react deals with in one call, by what it does with them.   *)

InStatus(s, tag) == {r \in Keys(s.requests) : s.requests[r].status.tag = tag}

(* Our commitment, or our share, is on the chain already. *)
CommitmentSeen(s, n) ==
    {r \in InStatus(s, "AwaitingCommitments") : n \in Keys(s.requests[r].status.commitments)}

ShareSeen(s, n) ==
    {r \in InStatus(s, "Signing") : /\ n \in s.requests[r].status.participants
                                    /\ n \in Keys(s.requests[r].status.shares)}

(* Mutant: the policy is not consulted. *)
ToCommit_NoPolicy(s, n, m) ==
    (InStatus(s, "AwaitingCommitments") \ CommitmentSeen(s, n)) \ m.committed_requests

(* Nothing submitted yet, and the policy approves: `commit` is called. *)
ToCommit(s, n, m) ==
    {r \in (InStatus(s, "AwaitingCommitments") \ CommitmentSeen(s, n)) \ m.committed_requests :
        s.requests[r].message \in Approves[n]}

(* Selected, and nothing submitted yet: sign_share_rerandomized finds      *)
(* nonces and consumes them.  Without nonces (SessionNotFound) the request *)
(* is passed over.                                                         *)
ToShare(s, n, m) ==
    {r \in InStatus(s, "Signing") : /\ n \in s.requests[r].status.participants
                                    /\ n \notin Keys(s.requests[r].status.shares)
                                    /\ r \notin m.shared_requests
                                    /\ m.pending[r] # None}

(* `commit` on a session that still holds nonces: Error::SessionInUse. *)
SessionInUse(s, n, m) == {r \in ToCommit(s, n, m) : m.pending[r] # None}

(* frost's sign refuses nonces that are not the ones in the package        *)
(* (external: Error::IncorrectCommitment).                                 *)
IncorrectCommitment(s, n, m) ==
    {r \in ToShare(s, n, m) :
        m.pending[r] # s.requests[r].status.signing_package.commitments[n]}

Failing(s, n, m) == SessionInUse(s, n, m) \cup IncorrectCommitment(s, n, m)

(* The requests the loop gets through, and those it gets to. *)
Done(s, n, m) == {r \in Keys(s.requests) : \A f \in Failing(s, n, m) : r < f}
Reached(s, n, m) == {r \in Keys(s.requests) : \A f \in Failing(s, n, m) : r <= f}

Committing(s, n, m) == ToCommit(s, n, m) \cap Done(s, n, m)
Sharing(s, n, m) == ToShare(s, n, m) \cap Done(s, n, m)

(* Nonces are drawn in the order of the requests. *)
FreshNonces(s, n, m, r) ==
    <<n, m.drawn + Cardinality({q \in Committing(s, n, m) : q < r})>>

(* Mutant: nonces of a request whose commitment is on the chain are dropped. *)
PendingAfter_Tidy(s, n, m) ==
    [r \in Uuids |->
        IF r \in Committing(s, n, m) THEN FreshNonces(s, n, m, r)
        ELSE IF r \in CommitmentSeen(s, n) \cup ToShare(s, n, m) THEN None
        ELSE m.pending[r]]

(* Mutant: the nonces are only removed once they have made a share. *)
PendingAfter_KeptOnError(s, n, m) ==
    [r \in Uuids |->
        IF r \in Committing(s, n, m) THEN FreshNonces(s, n, m, r)
        ELSE IF r \in Sharing(s, n, m) THEN None
        ELSE m.pending[r]]

PendingAfter(s, n, m) ==
    [r \in Uuids |->
        IF r \in Committing(s, n, m) THEN FreshNonces(s, n, m, r)
        ELSE IF r \in ToShare(s, n, m) \cap Reached(s, n, m) THEN None
        ELSE m.pending[r]]

(* Mutant: a request is marked when it is looked at, not when it is committed to. *)
CommittedAfter_Early(s, n, m) ==
    m.committed_requests \cup (InStatus(s, "AwaitingCommitments") \cap Reached(s, n, m))

CommittedAfter(s, n, m) ==
    m.committed_requests \cup (CommitmentSeen(s, n) \cap Done(s, n, m)) \cup Committing(s, n, m)

SharedAfter(s, n, m) ==
    m.shared_requests \cup (ShareSeen(s, n) \cap Done(s, n, m)) \cup Sharing(s, n, m)

(* Mutant: one draw serves all the commitments of a call, and the next call too. *)
MemoryAfter_SameDraw(s, n, m) ==
    [pending |-> PendingAfter(s, n, m), committed_requests |-> CommittedAfter(s, n, m),
     shared_requests |-> SharedAfter(s, n, m), drawn |-> m.drawn]

(* The node's memory after the call. *)
MemoryAfter(s, n, m) ==
    [pending |-> PendingAfter(s, n, m), committed_requests |-> CommittedAfter(s, n, m),
     shared_requests |-> SharedAfter(s, n, m),
     drawn |-> m.drawn + Cardinality(Committing(s, n, m))]

(* Mutant: the share is computed without the request's randomizer. *)
ShareFor_Unrandomized(s, n, m, r) ==
    [nonces |-> m.pending[r], signing_package |-> s.requests[r].status.signing_package,
     randomizer |-> CHOOSE a \in Randomizers : a # s.requests[r].randomizer, pkp |-> GroupKey]

(* Mutant: the nonces are removed from pending before they are used. *)
ShareFor_Taken(s, n, m, r) ==
    [nonces |-> PendingAfter(s, n, m)[r], signing_package |-> s.requests[r].status.signing_package,
     randomizer |-> s.requests[r].randomizer, pkp |-> GroupKey]

(* frost_rerandomized::sign with the node's nonces and key share. *)
ShareFor(s, n, m, r) ==
    [nonces |-> m.pending[r], signing_package |-> s.requests[r].status.signing_package,
     randomizer |-> s.requests[r].randomizer, pkp |-> GroupKey]

TxFor(s, n, m, r) ==
    IF r \in ToCommit(s, n, m)
    THEN [type |-> "SubmitCommitment", request_id |-> r, validator |-> n,
          commitments |-> FreshNonces(s, n, m, r)]
    ELSE [type |-> "SubmitShare", request_id |-> r, validator |-> n,
          share |-> ShareFor(s, n, m, r)]

(* What react returns: Ok(out), in the order of the requests, or Err. *)
Out(s, n, m) ==
    IF Failing(s, n, m) # {} THEN <<>>
    ELSE LET rs == InOrder(ToCommit(s, n, m) \cup ToShare(s, n, m))
         IN  [i \in 1 .. Len(rs) |-> TxFor(s, n, m, rs[i])]

(* react's first two returns: no group, or a group we are not in. *)
Listens(s, n) == s.group # None /\ n \in s.group.validators
=============================================================================
