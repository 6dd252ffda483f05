------------------------------ MODULE Replicas ------------------------------
(***************************************************************************)
(* The production arrangement: no shared chain.  Every validator keeps a   *)
(* State of its own.  What its node's react returns it broadcasts over the *)
(* mesh and applies to its own State, one transaction after the other, and *)
(* it applies what arrives from its peers in the order in which it arrives,*)
(* between two transactions of its own too.                                *)
(*                                                                         *)
(* The mesh is what LossyFifo says of it, with at most MaxLosses losses:    *)
(* each link is FIFO, what arrives over different links may interleave in  *)
(* any way, and a transaction may be lost for one of its receivers.        *)
(*                                                                         *)
(* A validator starts with the group installed, as after InitGroup has     *)
(* reached everybody.                                                      *)
(***************************************************************************)
EXTENDS Node

CONSTANTS
    Params,     \* the group's MpcParams
    Requests,   \* Requests[r]: message and randomizer the client submits as r
    MaxLosses   \* bound: transactions the mesh loses

(* The validators, each with a replica and a Node. *)
Nodes == DOMAIN Approves

ASSUME ReplicasAssumption ==
    /\ Nodes \subseteq Ids
    /\ \A n \in Nodes : \E m \in Nodes : m # n    \* there is somebody to talk to
    /\ Params \in MpcParams
    /\ Requests \in [Uuids -> [message : Messages, randomizer : Randomizers]]
    /\ MaxLosses \in Nat

VARIABLES
    replica,    \* replica[n]: the State of validator n
    outbox,     \* outbox[n]: what react has returned and n has not yet originated
    links,      \* links[<<m, n>>]: what m has broadcast and n has not received
    sent,       \* history: sent[n], all that n has broadcast
    losses,     \* transactions the mesh has lost
    nodes,      \* nodes[n]: the memory of validator n's Node
    submitted,  \* the requests that were originated
    signed      \* history: the shares that were ever computed, by whom and for which request

vars == <<replica, outbox, links, sent, losses, nodes, submitted, signed>>

Links == {p \in Nodes \X Nodes : p[1] # p[2]}

(* The mesh, which Mesh shows to keep this contract. *)
Net == INSTANCE LossyFifo WITH Payloads <- Tx, queue <- links

(* apply_tx where an error is dropped. *)
Deliver1(s, tx) == IF Accepts(s, tx) THEN apply_tx(s, tx) ELSE s

Init ==
    /\ replica = [n \in Nodes |->
          [DefaultState EXCEPT !.group = [params |-> Params, pkp |-> GroupKey,
                                          validators |-> Keys(GroupKey)]]]
    /\ outbox = [n \in Nodes |-> <<>>]
    /\ Net!Init
    /\ losses = 0
    /\ nodes = [n \in Nodes |-> NewNode(0)]
    /\ submitted = {}
    /\ signed = {}

(* Mesh::broadcast to the peers, and the local application it leaves to the caller. *)
Originate(n, tx) ==
    /\ replica' = [replica EXCEPT ![n] = Deliver1(@, tx)]
    /\ Net!Send(n, <<tx>>, Nodes)

(* A validator's caller asks for a signature. *)
SubmitRequest(n, r) ==
    /\ r \notin submitted
    /\ submitted' = submitted \cup {r}
    /\ Originate(n, [type |-> "SubmitRequest", request_id |-> r,
                      message |-> Requests[r].message, randomizer |-> Requests[r].randomizer])
    /\ UNCHANGED <<outbox, losses, nodes, signed>>

(* An entry of the history: n has computed share for request r. *)
SignedBy(n, r, share) == [validator |-> n, request |-> r, share |-> share]

(* Node::react on the validator's own replica, once the caller is through  *)
(* with what the last call has returned.                                   *)
React(n) ==
    /\ Listens(replica[n], n)
    /\ outbox[n] = <<>>
    /\ outbox' = [outbox EXCEPT ![n] = Out(replica[n], n, nodes[n])]
    /\ nodes' = [nodes EXCEPT ![n] = MemoryAfter(replica[n], n, nodes[n])]
    /\ signed' = signed \cup
          {SignedBy(n, r, ShareFor(replica[n], n, nodes[n], r)) :
              r \in Sharing(replica[n], n, nodes[n])}
    /\ UNCHANGED <<replica, links, sent, losses, submitted>>

(* The caller's next turn through react's result. *)
Post(n) ==
    /\ outbox[n] # <<>>
    /\ Originate(n, Head(outbox[n]))
    /\ outbox' = [outbox EXCEPT ![n] = Tail(@)]
    /\ UNCHANGED <<losses, nodes, submitted, signed>>

(* A frame from m reaches n, is decoded and applied. *)
Receive(m, n) ==
    /\ Net!Deliver(<<m, n>>)
    /\ replica' = [replica EXCEPT ![n] = Deliver1(@, Head(links[<<m, n>>]))]
    /\ UNCHANGED <<outbox, losses, nodes, submitted, signed>>

(* The mesh loses one of the transactions under way from m to n. *)
Lose(m, n) ==
    /\ losses < MaxLosses
    /\ losses' = losses + 1
    /\ \E i \in DOMAIN links[<<m, n>>] : links' = [links EXCEPT ![<<m, n>>] = RemoveAt(@, i)]
    /\ Net!Lose
    /\ UNCHANGED <<replica, outbox, nodes, submitted, signed>>

Next ==
    \/ \E n \in Nodes, r \in Uuids : SubmitRequest(n, r)
    \/ \E n \in Nodes : React(n) \/ Post(n)
    \/ \E p \in Links : Receive(p[1], p[2]) \/ Lose(p[1], p[2])

Spec == Init /\ [][Next]_vars

----------------------------------------------------------------------------
(* Properties.                                                             *)

(* The replicas, the links and the nodes' memories keep their types: a     *)
(* replica cut off from consensus is still a chain state.                  *)
ReplicasTypeOK ==
    /\ replica \in [Nodes -> State]
    /\ outbox \in [Nodes -> Seq(Tx)]
    /\ links \in [Links -> Seq(Tx)]
    /\ sent \in [Nodes -> Seq(Tx)]
    /\ losses \in 0 .. MaxLosses
    /\ nodes \in [Nodes -> NodeMemory]
    /\ submitted \subseteq Uuids
    /\ signed \subseteq [validator : Nodes, request : Uuids, share : SignatureShare]

(* Any two sets of threshold validators meet.  MpcParams does not ask for  *)
(* it: without it, two halves that do not hear each other complete one     *)
(* request twice.                                                          *)
QuorumsMeet ==
    \A S, T \in SUBSET Nodes :
        Cardinality(S) = Params.threshold /\ Cardinality(T) = Params.threshold => S \cap T # {}

(* Replicas that have diverged still never complete one request in two     *)
(* ways: when any two sets of threshold validators meet, the validator in  *)
(* both has signed for one of them only.                                   *)
CompletedAgree ==
    \A m, n \in Nodes : \A r \in Keys(replica[m].requests) \cap Keys(replica[n].requests) :
        LET a == replica[m].requests[r].status
            b == replica[n].requests[r].status
        IN  a.tag = "Completed" /\ b.tag = "Completed" => a = b

(* Between honest validators aggregation fails for one reason only: two of *)
(* them have signed different packages for the request, each the one its   *)
(* own replica had cut.                                                    *)
FailedOnlyByDivergence ==
    \A n \in Nodes : \A r \in Keys(replica[n].requests) :
        replica[n].requests[r].status.tag = "Failed" =>
            \E a, b \in signed : /\ a.request = r /\ b.request = r
                                 /\ a.validator # b.validator
                                 /\ a.share.signing_package # b.share.signing_package

(* Without consensus, and over a mesh that loses transactions, the client  *)
(* still sees one service: whatever replica it looks at, a completed       *)
(* request has the same outcome everywhere and for ever.                   *)
Service == INSTANCE SigningService WITH
    Threshold <- Params.threshold,
    asked <- submitted,
    outcomes <- [r \in Uuids |->
        {[participants |-> replica[n].requests[r].status.participants,
          signature |-> replica[n].requests[r].status.signature] :
            n \in {m \in Nodes : /\ r \in Keys(replica[m].requests)
                                 /\ replica[m].requests[r].status.tag = "Completed"}}]

ImplementsService == Service!Spec

(* What the crate promises in place of consensus: once everything that was *)
(* broadcast has been delivered to everybody, the replicas are equal.      *)
DeliveredReplicasAgree ==
    (\A n \in Nodes : outbox[n] = <<>>) /\ (\A p \in Links : links[p] = <<>>) =>
        \A m, n \in Nodes : replica[m] = replica[n]
=============================================================================
