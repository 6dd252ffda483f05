------------------------------- MODULE Signing ------------------------------
(***************************************************************************)
(* Signing over the chain: the simulator, a client that asks for           *)
(* signatures, and the Nodes, each of which looks at the published state   *)
(* and reacts; the caller submits what react returns.  react runs to       *)
(* completion on a &State it was handed, so it is one step.                *)
(*                                                                         *)
(* A node restarts as Node::new(bundle): the key share is on disk, the     *)
(* nonces and the two sets of requests are not.                            *)
(*                                                                         *)
(* Blocks with an empty mempool, which change nothing a node can see, are  *)
(* left out.                                                               *)
(***************************************************************************)
EXTENDS ChainSim, Node

CONSTANTS
    Params,       \* the group's MpcParams
    Requests,     \* Requests[r]: message and randomizer the client submits as r
    MaxRestarts,  \* bound: restarts, over all nodes
    MaxMempool    \* bound: nodes react while fewer transactions are waiting

(* The identifiers that run a Node. *)
Nodes == DOMAIN Approves

ASSUME SigningAssumption ==
    /\ Nodes \subseteq Ids
    /\ Params \in MpcParams
    /\ Requests \in [Uuids -> [message : Messages, randomizer : Randomizers]]
    /\ {MaxRestarts, MaxMempool} \subseteq Nat

VARIABLES
    nodes,      \* nodes[n]: the memory of node n
    submitted,  \* the requests the client has submitted
    restarts,   \* restarts so far
    signed      \* history: the signature shares that were ever computed

nodeVars == <<nodes, restarts, signed>>
vars == <<simVars, nodeVars, submitted>>

InitGroupTx ==
    [type |-> "InitGroup", params |-> Params, pkp |-> GroupKey, validators |-> Keys(GroupKey)]

(* ChainSim::new(), with the group's transaction submitted, and Node::new. *)
Init ==
    /\ state = DefaultState
    /\ mempool = <<InitGroupTx>>
    /\ block_height = 0
    /\ last_block = <<>>
    /\ in_block = FALSE
    /\ working = DefaultState
    /\ accepted = <<>>
    /\ log = {}
    /\ nodes = [n \in Nodes |-> NewNode(0)]
    /\ submitted = {}
    /\ restarts = 0
    /\ signed = {}

(* Node::react, and the caller submitting what it returns. *)
React(n) ==
    /\ Listens(state, n)
    /\ Len(mempool) < MaxMempool
    /\ SubmitAll(Out(state, n, nodes[n]))
    /\ nodes' = [nodes EXCEPT ![n] = MemoryAfter(state, n, nodes[n])]
    /\ signed' = signed \cup {ShareFor(state, n, nodes[n], r) : r \in Sharing(state, n, nodes[n])}
    /\ UNCHANGED <<restarts, submitted>>

(* Mutant: the RNG starts over as well. *)
Restart_Reseed(n) ==
    /\ ~in_block
    /\ restarts < MaxRestarts
    /\ restarts' = restarts + 1
    /\ nodes' = [nodes EXCEPT ![n] = NewNode(0)]
    /\ UNCHANGED <<simVars, signed, submitted>>

(* The process is replaced by one that calls Node::new on the stored bundle. *)
Restart(n) ==
    /\ ~in_block
    /\ restarts < MaxRestarts
    /\ restarts' = restarts + 1
    /\ nodes' = [nodes EXCEPT ![n] = NewNode(nodes[n].drawn)]
    /\ UNCHANGED <<simVars, signed, submitted>>

(* The client asks for a signature; every request gets a fresh Uuid. *)
SubmitRequest(r) ==
    /\ r \notin submitted
    /\ submitted' = submitted \cup {r}
    /\ Submit([type |-> "SubmitRequest", request_id |-> r, message |-> Requests[r].message,
               randomizer |-> Requests[r].randomizer])
    /\ UNCHANGED nodeVars

(* commit_block *)
CommitBlock ==
    /\ (mempool # <<>> /\ BeginBlock) \/ PopTx \/ EndBlock
    /\ UNCHANGED <<nodeVars, submitted>>

Next ==
    \/ \E r \in Uuids : SubmitRequest(r)
    \/ \E n \in Nodes : React(n) \/ Restart(n)
    \/ CommitBlock

Spec == Init /\ [][Next]_vars

(* The runtime keeps committing blocks and keeps calling every node.  The  *)
(* client need not submit anything, and nothing forces a restart.          *)
Fairness == WF_vars(CommitBlock) /\ \A n \in Nodes : WF_vars(React(n))

FairSpec == Spec /\ Fairness

----------------------------------------------------------------------------
(* Properties.                                                             *)

Requested == Keys(state.requests)
StatusOf(r) == state.requests[r].status

(* The transactions on their way to the chain. *)
InFlight == ToSet(mempool)

(* The nodes' variables, like the chain's, keep their types. *)
SigningTypeOK ==
    /\ TypeOK
    /\ nodes \in [Nodes -> NodeMemory]
    /\ submitted \subseteq Uuids
    /\ restarts \in 0 .. MaxRestarts
    /\ signed \subseteq SignatureShare

(* The validation gate: no node commits to, and no request is ever signed  *)
(* by, a node whose policy rejects the message.                            *)
PolicyGate ==
    /\ \A n \in Nodes : \A r \in Uuids :
          nodes[n].pending[r] # None => Requests[r].message \in Approves[n]
    /\ \A r \in Requested : StatusOf(r).tag \in {"Signing", "Completed"} =>
          \A n \in StatusOf(r).participants : Requests[r].message \in Approves[n]

(* Honest nodes never make aggregation fail: a share, on the chain or on   *)
(* its way there, is the one the package asks of its sender, so no request *)
(* ends as Failed, however the nodes' steps and restarts fall between.     *)
SharesAggregate ==
    /\ \A r \in Requested : StatusOf(r).tag # "Failed"
    /\ \A tx \in InFlight : tx.type = "SubmitShare" =>
          LET st == working.requests[tx.request_id].status
          IN  st.tag = "Signing" /\ tx.validator \notin Keys(st.shares) =>
                /\ tx.share.signing_package = st.signing_package
                /\ tx.share.nonces = st.signing_package.commitments[tx.validator]
                /\ tx.share.randomizer = working.requests[tx.request_id].randomizer
                /\ tx.share.pkp = working.group.pkp

(* One-time nonces: no two different shares are ever computed from the     *)
(* same nonces, and nonces a node still holds have not been used.          *)
NoncesUsedOnce ==
    /\ \A a, b \in signed : a.nonces = b.nonces => a = b
    /\ \A n \in Nodes : \A r \in Uuids : \A a \in signed : nodes[n].pending[r] # a.nonces

(* A node that believes it has submitted a commitment or a share is right: *)
(* whenever a node can look, it is on the chain, or on its way there, or   *)
(* the request has moved on.                                               *)
MarkedIsInFlight ==
    ~in_block => \A n \in Nodes : \A r \in Requested :
        /\ r \in nodes[n].committed_requests /\ StatusOf(r).tag = "AwaitingCommitments" =>
              \/ n \in Keys(StatusOf(r).commitments)
              \/ \E tx \in InFlight : /\ tx.type = "SubmitCommitment"
                                      /\ tx.request_id = r
                                      /\ tx.validator = n
        /\ r \in nodes[n].shared_requests /\ StatusOf(r).tag = "Signing" =>
              \/ n \in Keys(StatusOf(r).shares)
              \/ \E tx \in InFlight : /\ tx.type = "SubmitShare"
                                      /\ tx.request_id = r
                                      /\ tx.validator = n

(* A selected participant that has not produced its share yet still holds  *)
(* the nonces it needs: react only passes over a request for want of nonces *)
(* when the node was not selected.                                         *)
SelectedHoldsNonces ==
    \A n \in Nodes : \A r \in Requested :
        StatusOf(r).tag = "Signing" /\ n \in StatusOf(r).participants
          /\ n \notin Keys(StatusOf(r).shares) /\ r \notin nodes[n].shared_requests
        => nodes[n].pending[r] # None

OutcomeOf(st) == [participants |-> st.participants, signature |-> st.signature]

(* The client sees the service it was promised: a request gets at most one *)
(* outcome, for ever, signed by threshold nodes whose policies approve it, *)
(* also when nodes restart in the middle of it.                            *)
Service == INSTANCE SigningService WITH
    Threshold <- Params.threshold,
    asked <- submitted,
    outcomes <- [r \in Uuids |->
        IF r \in Keys(working.requests) /\ working.requests[r].status.tag = "Completed"
        THEN {OutcomeOf(working.requests[r].status)} ELSE {}]

ImplementsService == Service!Spec

Approvers(r) == {n \in Nodes \cap Keys(GroupKey) : Requests[r].message \in Approves[n]}

(* Every request that enough nodes approve is signed in the end. *)
ApprovedIsSigned ==
    \A r \in Uuids : Cardinality(Approvers(r)) >= Params.threshold =>
        (r \in submitted ~> (r \in Requested /\ StatusOf(r).tag = "Completed"))
=============================================================================
