---------------------------- MODULE SigningProofs ---------------------------
(***************************************************************************)
(* The properties of Signing, for every set of nodes and policies, every   *)
(* threshold, any number of requests and restarts, and a mempool of any    *)
(* length.                                                                 *)
(***************************************************************************)
EXTENDS Signing, NodeProofs

----------------------------------------------------------------------------
(* The chain holds what the client asked for.                              *)

Faithful(s) ==
    /\ s.group # None => s.group.params = Params
    /\ \A r \in Keys(s.requests) :
          /\ r \in submitted
          /\ s.requests[r].message = Requests[r].message
          /\ s.requests[r].randomizer = Requests[r].randomizer

FaithfulTx(tx) ==
    /\ tx.type = "InitGroup" => tx.params = Params
    /\ tx.type = "SubmitRequest" =>
          /\ tx.request_id \in submitted
          /\ tx.message = Requests[tx.request_id].message
          /\ tx.randomizer = Requests[tx.request_id].randomizer

FaithfulSim ==
    Faithful(state) /\ Faithful(working) /\ \A tx \in ToSet(mempool) : FaithfulTx(tx)

LEMMA ApplyFaithful ==
    ASSUME NEW s \in State, NEW tx \in Tx, Accepts(s, tx), HonestTx(s, tx),
           Faithful(s), FaithfulTx(tx)
    PROVE  Faithful(apply_tx(s, tx))
<1> DEFINE t == apply_tx(s, tx)
           r == tx.request_id
<1>1. CASE tx.type = "InitGroup"
  <2>1. t.requests = s.requests
    BY <1>1, Frame
  <2>2. t.group.params = Params
    BY <1>1 DEF apply_tx, InitGroupNext, State, FaithfulTx
  <2> HIDE DEF t
  <2> QED BY <2>1, <2>2 DEF t, Faithful
<1>2. CASE tx.type # "InitGroup"
  <2>1. tx.type \in {"SubmitRequest", "SubmitCommitment", "SubmitShare"}
    BY <1>2 DEF HonestTx
  <2>2. t.group = s.group
    BY <2>1, Frame
  <2>3. Keys(t.requests) = Keys(s.requests) \cup {r} /\ SameBut(s, t, {r})
    BY <2>1, OneRequest
  <2>4. /\ r \in submitted
        /\ t.requests[r].message = Requests[r].message
        /\ t.requests[r].randomizer = Requests[r].randomizer
    <3>1. CASE tx.type = "SubmitRequest"
      <4>1. t.requests[r] =
              [message |-> tx.message, randomizer |-> tx.randomizer,
               status |-> [tag |-> "AwaitingCommitments", commitments |-> Empty(Ids)]]
        BY <3>1, RequestEffect
      <4> QED BY <3>1, <4>1 DEF FaithfulTx
    <3>2. CASE tx.type \in {"SubmitCommitment", "SubmitShare"}
      <4>1. /\ r \in Keys(s.requests) /\ t.requests[r].message = s.requests[r].message
            /\ t.requests[r].randomizer = s.requests[r].randomizer
        BY <3>2, CommitmentEffect, ShareEffect, ZenonT(30)
      <4> QED BY <4>1 DEF Faithful
    <3> QED BY <2>1, <3>1, <3>2
  <2> HIDE DEF t, r
  <2>5. \A q \in Keys(t.requests) :
          /\ q \in submitted
          /\ t.requests[q].message = Requests[q].message
          /\ t.requests[q].randomizer = Requests[q].randomizer
    BY <2>3, <2>4 DEF SameBut, Faithful
  <2> QED BY <2>2, <2>5 DEF Faithful, t
<1> QED BY <1>1, <1>2

----------------------------------------------------------------------------
(* The inductive invariant.                                                *)

NodesTyped ==
    /\ nodes \in [Nodes -> NodeMemory]
    /\ submitted \subseteq Uuids
    /\ restarts \in 0 .. MaxRestarts
    /\ signed \subseteq SignatureShare

Drawn(d) == \E n \in Nodes, k \in Nat : d = <<n, k>> /\ k < nodes[n].drawn

(* Why nonces are used once: those that are held are the node's own, and   *)
(* all different; those that were used have been drawn, so no later draw   *)
(* gives them again.                                                       *)
NoncesInv ==
    /\ \A n \in Nodes : OwnNonces(n, nodes[n])
    /\ \A n \in Nodes : \A r \in Uuids :
          nodes[n].pending[r] # None => Requests[r].message \in Approves[n]
    /\ \A a \in signed : Drawn(a.nonces)
    /\ NoncesUsedOnce

SigInv == SimInv /\ HonestSim /\ FaithfulSim /\ NodesTyped /\ NoncesInv

LEMMA NodesAreIds == \A n \in Nodes : n \in Ids /\ n \in DOMAIN Approves
BY SigningAssumption DEF Nodes

LEMMA InitGroupTxTyped == InitGroupTx \in Tx
<1>1. GroupKey \in PublicKeyPackage /\ Params \in MpcParams
  BY NodeAssumption, SigningAssumption
<1>2. Keys(GroupKey) \in SUBSET Ids
  BY <1>1 DEF PublicKeyPackage, Map, Keys
<1> QED BY <1>1, <1>2 DEF InitGroupTx, Tx

LEMMA InitInv == Init => SigInv
<1> SUFFICES ASSUME Init PROVE SigInv
  OBVIOUS
<1>1. TypeOK
  <2>1. <<>> \in Seq(Tx) /\ <<InitGroupTx>> \in Seq(Tx)
    BY InitGroupTxTyped
  <2>2. mempool = <<InitGroupTx>> /\ last_block = <<>> /\ accepted = <<>>
    BY DEF Init
  <2>3. mempool \in Seq(Tx) /\ last_block \in Seq(Tx) /\ accepted \in Seq(Tx)
    BY <2>1, <2>2, Zenon
  <2> QED BY <2>3, DefaultTyped DEF Init, TypeOK
<1>2. SimInv
  BY <1>1, FirstBlockInv DEF Init
<1>3. ToSet(mempool) = {InitGroupTx}
  <2>1. mempool = <<InitGroupTx>>
    BY DEF Init
  <2>2. DOMAIN mempool = {1} /\ mempool[1] = InitGroupTx
    BY <2>1
  <2> QED BY <2>2 DEF ToSet
<1>4. /\ state = DefaultState /\ working = DefaultState
      /\ DefaultState.group = None /\ DefaultState.ceremony = None
      /\ Keys(DefaultState.requests) = {}
  BY EmptyKeys DEF Init, DefaultState
<1>5. HonestSim
  <2>1. HonestState(state) /\ HonestState(working)
    BY <1>4 DEF HonestState
  <2>2. HonestTx(working, InitGroupTx)
    BY DEF HonestTx, InitGroupTx
  <2> QED BY <1>3, <2>1, <2>2 DEF HonestSim
<1>6. FaithfulSim
  <2>1. Faithful(state) /\ Faithful(working)
    BY <1>4 DEF Faithful
  <2>2. FaithfulTx(InitGroupTx)
    BY DEF FaithfulTx, InitGroupTx
  <2> QED BY <1>3, <2>1, <2>2 DEF FaithfulSim
<1>7. nodes = [n \in Nodes |-> NewNode(0)] /\ signed = {} /\ submitted = {} /\ restarts = 0
  BY DEF Init
<1>8. NodesTyped
  <2>1. NewNode(0) \in NodeMemory
    BY NewNodeTyped
  <2>2. 0 \in 0 .. MaxRestarts
    BY SigningAssumption
  <2> QED BY <1>7, <2>1, <2>2 DEF NodesTyped
<1>9. NoncesInv
  <2>1. \A n \in Nodes : OwnNonces(n, nodes[n])
    BY <1>7, NewNodeNonces
  <2>2. \A n \in Nodes : \A r \in Uuids : nodes[n].pending[r] = None
    BY <1>7 DEF NewNode, Empty
  <2> QED BY <1>7, <2>1, <2>2 DEF NoncesInv, NoncesUsedOnce
<1> QED BY <1>2, <1>5, <1>6, <1>8, <1>9 DEF SigInv

(* The client's request. *)
LEMMA SubmitRequestStep ==
    ASSUME SigInv, NEW r \in Uuids, SubmitRequest(r)
    PROVE  SigInv'
<1> DEFINE tx == [type |-> "SubmitRequest", request_id |-> r, message |-> Requests[r].message,
                  randomizer |-> Requests[r].randomizer]
<1>1. tx \in Tx
  BY SigningAssumption DEF Tx
<1>2. /\ SubmitAll(<<tx>>) /\ submitted' = submitted \cup {r}
      /\ nodes' = nodes /\ restarts' = restarts /\ signed' = signed
  BY DEF SubmitRequest, Submit, nodeVars
<1>3. FaithfulTx(tx)' /\ HonestTx(working, tx)
  BY <1>2 DEF FaithfulTx, HonestTx
<1> HIDE DEF tx
<1>4. <<tx>> \in Seq(Tx) /\ ToSet(<<tx>>) = {tx}
  BY <1>1 DEF ToSet
<1>5. SimInv' /\ HonestSim'
  BY <1>2, <1>3, <1>4, SubmitAllInv, SubmitAllHonest DEF SigInv
<1>6. FaithfulSim'
  <2>1. state' = state /\ working' = working /\ mempool' = mempool \o <<tx>>
    BY <1>2 DEF SubmitAll
  <2>2. ToSet(mempool') = ToSet(mempool) \cup {tx}
    <3>1. mempool \in Seq(Tx)
      BY DEF SigInv, SimInv, TypeOK
    <3>2. ToSet(mempool \o <<tx>>) = ToSet(mempool) \cup ToSet(<<tx>>)
      BY <1>4, <3>1, ToSetConcat, ZenonT(30)
    <3> QED BY <1>4, <2>1, <3>2, Zenon
  <2>3. Faithful(state)' /\ Faithful(working)'
    BY <1>2, <2>1 DEF SigInv, FaithfulSim, Faithful
  <2>4. \A old \in ToSet(mempool) : FaithfulTx(old)'
    BY <1>2 DEF SigInv, FaithfulSim, FaithfulTx
  <2> QED BY <1>3, <2>2, <2>3, <2>4 DEF FaithfulSim
<1>7. NodesTyped' /\ NoncesInv'
  BY <1>2 DEF SigInv, NodesTyped, NoncesInv, Drawn, NoncesUsedOnce
<1> QED BY <1>5, <1>6, <1>7 DEF SigInv

(* A step of commit_block. *)
LEMMA CommitBlockStep ==
    ASSUME SigInv, CommitBlock
    PROVE  SigInv'
<1>1. nodes' = nodes /\ restarts' = restarts /\ signed' = signed /\ submitted' = submitted
  BY DEF CommitBlock, nodeVars
<1>2. BeginBlock \/ PopTx \/ EndBlock
  BY DEF CommitBlock
<1>3. SimInv' /\ HonestSim'
  BY <1>2, BeginBlockInv, PopTxInv, EndBlockInv, PopTxHonest, BlockEdgeHonest DEF SigInv
<1>4. NodesTyped' /\ NoncesInv'
  BY <1>1 DEF SigInv, NodesTyped, NoncesInv, Drawn, NoncesUsedOnce
<1>5. FaithfulSim'
  <2>1. CASE BeginBlock \/ EndBlock
    <3>1. working' = working /\ mempool' = mempool /\ (state' = state \/ state' = working)
      BY <2>1 DEF BeginBlock, EndBlock
    <3> QED BY <1>1, <3>1 DEF SigInv, FaithfulSim, Faithful, FaithfulTx
  <2>2. CASE PopTx
    <3> DEFINE tx == Head(mempool)
    <3>1. state' = state /\ mempool' = Tail(mempool) /\ mempool # <<>>
      BY <2>2 DEF PopTx
    <3>2. working \in State /\ mempool \in Seq(Tx)
      BY DEF SigInv, SimInv, TypeOK
    <3>3. tx \in Tx /\ ToSet(mempool) = {tx} \cup ToSet(mempool')
      BY <3>1, <3>2, ToSetTail
    <3>4. HonestTx(working, tx) /\ FaithfulTx(tx)
      BY <3>3 DEF SigInv, HonestSim, FaithfulSim
    <3>5. Faithful(working)'
      <4>1. CASE Accepts(working, tx)
        <5>1. working' = apply_tx(working, tx)
          BY <2>2, <4>1 DEF PopTx
        <5> HIDE DEF tx
        <5>2. Faithful(apply_tx(working, tx))
          BY <3>2, <3>3, <3>4, <4>1, ApplyFaithful DEF SigInv, FaithfulSim
        <5> QED BY <1>1, <5>1, <5>2 DEF Faithful
      <4>2. CASE ~Accepts(working, tx)
        <5>1. working' = working
          BY <2>2, <4>2 DEF PopTx
        <5> QED BY <1>1, <5>1 DEF SigInv, FaithfulSim, Faithful
      <4> QED BY <4>1, <4>2
    <3> QED BY <1>1, <3>1, <3>3, <3>5 DEF SigInv, FaithfulSim, Faithful, FaithfulTx
  <2> QED BY <1>2, <2>1, <2>2
<1> QED BY <1>3, <1>4, <1>5 DEF SigInv

(* A restart: the nonces are gone, the count of draws is not. *)
LEMMA RestartStep ==
    ASSUME SigInv, NEW n \in Nodes, Restart(n)
    PROVE  SigInv'
<1>1. /\ state' = state /\ working' = working /\ mempool' = mempool /\ log' = log
      /\ in_block' = in_block /\ block_height' = block_height /\ last_block' = last_block
      /\ accepted' = accepted
      /\ signed' = signed /\ submitted' = submitted
      /\ restarts' = restarts + 1 /\ restarts < MaxRestarts
      /\ nodes' = [nodes EXCEPT ![n] = NewNode(nodes[n].drawn)]
  BY DEF Restart, simVars
<1>2. nodes \in [Nodes -> NodeMemory] /\ nodes[n].drawn \in Nat
  BY DEF SigInv, NodesTyped, NodeMemory
<1>3. NewNode(nodes[n].drawn) \in NodeMemory
  BY <1>2, NewNodeTyped
<1>4. SimInv'
  <2>1. TypeOK'
    BY <1>1 DEF SigInv, SimInv, TypeOK
  <2> QED BY <1>1, <2>1 DEF SigInv, SimInv
<1>5. HonestSim' /\ FaithfulSim'
  BY <1>1 DEF SigInv, HonestSim, FaithfulSim, Faithful, FaithfulTx
<1>6. NodesTyped'
  <2>1. restarts' \in 0 .. MaxRestarts
    BY <1>1, SigningAssumption DEF SigInv, NodesTyped
  <2> QED BY <1>1, <1>2, <1>3, <2>1 DEF SigInv, NodesTyped
<1>7. /\ \A k \in Nodes : nodes'[k].drawn = nodes[k].drawn
      /\ \A k \in Nodes : k # n => nodes'[k] = nodes[k]
      /\ nodes'[n] = NewNode(nodes[n].drawn)
      /\ \A r \in Uuids : nodes'[n].pending[r] = None
  BY <1>1, <1>2 DEF NewNode, Empty
<1>8. NoncesInv'
  <2>1. \A k \in Nodes : OwnNonces(k, nodes'[k])
    BY <1>7, NewNodeNonces DEF SigInv, NoncesInv
  <2>2. \A k \in Nodes : \A r \in Uuids :
          nodes'[k].pending[r] # None => nodes'[k].pending[r] = nodes[k].pending[r]
    BY <1>7
  <2>3. \A a \in signed' : Drawn(a.nonces)'
    BY <1>1, <1>7 DEF SigInv, NoncesInv, Drawn
  <2>4. NoncesUsedOnce'
    <3>1. \A a \in signed : a.nonces # None
      BY NoneAssumption DEF SigInv, NodesTyped, SignatureShare
    <3> QED BY <1>1, <2>2, <3>1 DEF SigInv, NoncesInv, NoncesUsedOnce
  <2> QED BY <2>1, <2>2, <2>3, <2>4 DEF SigInv, NoncesInv
<1> QED BY <1>4, <1>5, <1>6, <1>8 DEF SigInv

(* A call of react. *)
LEMMA ReactStep ==
    ASSUME SigInv, NEW n \in Nodes, React(n)
    PROVE  SigInv'
<1> DEFINE m == nodes[n]
           after == MemoryAfter(state, n, m)
           out == Out(state, n, m)
           new == {ShareFor(state, n, m, r) : r \in Sharing(state, n, m)}
<1>1. /\ SubmitAll(out) /\ nodes' = [nodes EXCEPT ![n] = after]
      /\ signed' = signed \cup new /\ restarts' = restarts /\ submitted' = submitted
  BY DEF React
<1>2. /\ state \in State /\ working = state /\ nodes \in [Nodes -> NodeMemory] /\ m \in NodeMemory
      /\ n \in Ids /\ n \in DOMAIN Approves /\ OwnNonces(n, m)
  BY <1>1, NodesAreIds DEF SigInv, SimInv, TypeOK, NodesTyped, NoncesInv, SubmitAll
<1>3. out \in Seq(Tx) /\ after \in NodeMemory
  BY <1>2, OutTyped, MemoryAfterTyped
<1>4. \A tx \in ToSet(out) : HonestTx(working, tx)
  BY <1>2, OutSet
<1>5. \A tx \in ToSet(out) : FaithfulTx(tx)
  <2> SUFFICES ASSUME NEW tx \in ToSet(out) PROVE FaithfulTx(tx)
    OBVIOUS
  <2>1. PICK r : tx = TxFor(state, n, m, r)
    BY <1>2, OutSet
  <2>2. tx.type \in {"SubmitCommitment", "SubmitShare"}
    BY <2>1 DEF TxFor
  <2> QED BY <2>2 DEF FaithfulTx
<1>6. SimInv' /\ HonestSim'
  BY <1>1, <1>3, <1>4, SubmitAllInv, SubmitAllHonest DEF SigInv
<1>7. FaithfulSim'
  <2>1. state' = state /\ working' = working /\ mempool' = mempool \o out
    BY <1>1 DEF SubmitAll
  <2>2. mempool \in Seq(Tx)
    BY DEF SigInv, SimInv, TypeOK
  <2> HIDE DEF out
  <2>3. ToSet(mempool') = ToSet(mempool) \cup ToSet(out)
    BY <1>3, <2>1, <2>2, ToSetConcat
  <2> QED BY <1>1, <1>5, <2>1, <2>3 DEF SigInv, FaithfulSim, Faithful, FaithfulTx
<1>8. new \subseteq SignatureShare
  BY <1>2, ShareForTyped, ReactSets
<1>9. NodesTyped'
  BY <1>1, <1>2, <1>3, <1>8 DEF SigInv, NodesTyped
<1>10. /\ \A k \in Nodes : k # n => nodes'[k] = nodes[k]
       /\ nodes'[n] = after
  BY <1>1, <1>2
<1>11. OwnNonces(n, after) /\ m.drawn <= after.drawn
  BY <1>2, ReactNonces
<1>12. \A a \in new : \E r \in Uuids :
          /\ r \in Sharing(state, n, m) /\ a = ShareFor(state, n, m, r) /\ a.nonces = m.pending[r]
          /\ m.pending[r] # None /\ after.pending[r] = None
  <2> SUFFICES ASSUME NEW r \in Sharing(state, n, m)
               PROVE  /\ r \in Uuids /\ ShareFor(state, n, m, r).nonces = m.pending[r]
                      /\ m.pending[r] # None /\ after.pending[r] = None
    OBVIOUS
  <2>1. r \in ToShare(state, n, m) \cap Reached(state, n, m) /\ r \in Keys(state.requests)
    BY <1>2, ReactSets
  <2>2. r \in Uuids /\ m.pending[r] # None
    BY <1>2, <2>1, StateParts DEF ToShare
  <2>3. r \notin Committing(state, n, m)
    BY <1>2, <2>1, ReactSets
  <2>4. after.pending[r] = None
    BY <1>2, <2>1, <2>2, <2>3, PendingEffect
  <2> QED BY <2>2, <2>4 DEF ShareFor
<1>13. \A r \in Uuids : after.pending[r] # None =>
          \/ after.pending[r] = m.pending[r]
          \/ /\ r \in ToCommit(state, n, m)
             /\ \E k \in Nat : after.pending[r] = <<n, k>> /\ m.drawn <= k
  <2> TAKE r \in Uuids
  <2> HAVE after.pending[r] # None
  <2>1. CASE r \in Committing(state, n, m) /\ after.pending[r] = FreshNonces(state, n, m, r)
    BY <1>2, <2>1, FreshDraws, ReactSets
  <2>2. CASE after.pending[r] = m.pending[r]
    BY <2>2
  <2> QED BY <1>2, <2>1, <2>2, PendingEffect
<1>14. \A r \in ToCommit(state, n, m) : Requests[r].message \in Approves[n]
  <2> SUFFICES ASSUME NEW r \in ToCommit(state, n, m) PROVE Requests[r].message \in Approves[n]
    OBVIOUS
  <2>1. r \in Keys(state.requests) /\ state.requests[r].message \in Approves[n]
    BY <1>2, ReactSets DEF ToCommit
  <2> QED BY <2>1 DEF SigInv, FaithfulSim, Faithful
<1> HIDE DEF after, out, new
<1>15. \A k \in Nodes : OwnNonces(k, nodes'[k])
  BY <1>10, <1>11 DEF SigInv, NoncesInv
<1>16. \A k \in Nodes : \A r \in Uuids :
          nodes'[k].pending[r] # None => Requests[r].message \in Approves[k]
  BY <1>10, <1>13, <1>14 DEF SigInv, NoncesInv
<1>17. \A k \in Nodes : nodes[k].drawn \in Nat /\ nodes'[k].drawn \in Nat
                        /\ nodes[k].drawn <= nodes'[k].drawn
  BY <1>2, <1>3, <1>10, <1>11 DEF NodeMemory
<1>18. \A a \in signed \cup new : Drawn(a.nonces)
  <2>1. \A a \in new : Drawn(a.nonces)
    <3> SUFFICES ASSUME NEW a \in new PROVE Drawn(a.nonces)
      OBVIOUS
    <3>1. PICK r \in Uuids : a.nonces = m.pending[r] /\ m.pending[r] # None
      BY <1>12
    <3> QED BY <1>2, <3>1 DEF OwnNonces, Drawn
  <2> QED BY <2>1 DEF SigInv, NoncesInv
<1>19. \A a \in signed' : Drawn(a.nonces)'
  <2> SUFFICES ASSUME NEW a \in signed \cup new PROVE Drawn(a.nonces)'
    BY <1>1
  <2>1. PICK k \in Nodes, i \in Nat : a.nonces = <<k, i>> /\ i < nodes[k].drawn
    BY <1>18 DEF Drawn
  <2>2. i < nodes'[k].drawn
    BY <1>17, <2>1
  <2> QED BY <2>1, <2>2 DEF Drawn
<1>20. \A a, b \in signed' : a.nonces = b.nonces => a = b
  <2>1. \A a, b \in signed : a.nonces = b.nonces => a = b
    BY DEF SigInv, NoncesInv, NoncesUsedOnce
  <2>2. \A a \in signed, b \in new : a.nonces # b.nonces
    BY <1>12 DEF SigInv, NoncesInv, NoncesUsedOnce
  <2>3. \A a, b \in new : a.nonces = b.nonces => a = b
    BY <1>2, <1>12 DEF OwnNonces
  <2> QED BY <1>1, <2>1, <2>2, <2>3
<1>21. ASSUME NEW k \in Nodes, NEW r \in Uuids, NEW a \in signed'
       PROVE  nodes'[k].pending[r] # a.nonces
  <2>0. a.nonces # None
    BY <1>1, <1>8, NoneAssumption DEF SigInv, NodesTyped, SignatureShare
  <2>1. PICK l \in Nodes, i \in Nat : a.nonces = <<l, i>> /\ i < nodes[l].drawn
    BY <1>1, <1>18 DEF Drawn
  <2>2. CASE k # n /\ a \in signed
    BY <1>10, <2>2 DEF SigInv, NoncesInv, NoncesUsedOnce
  <2>3. CASE k # n /\ a \in new
    <3>1. PICK q \in Uuids : a.nonces = m.pending[q] /\ m.pending[q] # None
      BY <1>12, <2>3
    <3>2. l = n
      BY <1>2, <2>1, <3>1 DEF OwnNonces
    <3>3. nodes[k].pending[r] # None => \E j \in Nat : nodes[k].pending[r] = <<k, j>>
      BY DEF SigInv, NoncesInv, OwnNonces
    <3> QED BY <1>10, <2>0, <2>1, <2>3, <3>2, <3>3
  <2>4. CASE k = n
    <3> SUFFICES ASSUME after.pending[r] = a.nonces PROVE FALSE
      BY <1>10, <2>4
    <3>1. CASE after.pending[r] = m.pending[r]
      <4>1. a \in new
        BY <1>1, <3>1 DEF SigInv, NoncesInv, NoncesUsedOnce
      <4>2. PICK q \in Uuids : a.nonces = m.pending[q] /\ m.pending[q] # None
                               /\ after.pending[q] = None
        BY <1>12, <4>1
      <4> QED BY <1>2, <2>0, <3>1, <4>2 DEF OwnNonces
    <3>2. CASE \E j \in Nat : after.pending[r] = <<n, j>> /\ m.drawn <= j
      <4>1. PICK j \in Nat : after.pending[r] = <<n, j>> /\ m.drawn <= j
        BY <3>2
      <4>2. l = n /\ i = j
        BY <2>1, <4>1
      <4> QED BY <1>17, <2>1, <4>1, <4>2
    <3> QED BY <1>13, <2>0, <3>1, <3>2
  <2> QED BY <1>1, <2>2, <2>3, <2>4
<1>22. NoncesInv'
  BY <1>15, <1>16, <1>19, <1>20, <1>21 DEF NoncesInv, NoncesUsedOnce
<1> QED BY <1>6, <1>7, <1>9, <1>22 DEF SigInv

LEMMA StutterStep ==
    ASSUME SigInv, UNCHANGED vars
    PROVE  SigInv'
<1>1. /\ state' = state /\ working' = working /\ mempool' = mempool /\ log' = log
      /\ in_block' = in_block /\ block_height' = block_height /\ last_block' = last_block
      /\ accepted' = accepted
      /\ nodes' = nodes /\ restarts' = restarts /\ signed' = signed /\ submitted' = submitted
  BY DEF vars, simVars, nodeVars
<1>2. TypeOK'
  BY <1>1 DEF SigInv, SimInv, TypeOK
<1>3. SimInv'
  BY <1>1, <1>2 DEF SigInv, SimInv
<1>4. HonestSim' /\ FaithfulSim' /\ NodesTyped'
  BY <1>1 DEF SigInv, HonestSim, FaithfulSim, Faithful, FaithfulTx, NodesTyped
<1>5. NoncesInv'
  BY <1>1 DEF SigInv, NoncesInv, Drawn, NoncesUsedOnce
<1> QED BY <1>3, <1>4, <1>5 DEF SigInv

LEMMA NextInv == SigInv /\ [Next]_vars => SigInv'
BY SubmitRequestStep, ReactStep, RestartStep, CommitBlockStep, StutterStep DEF Next

----------------------------------------------------------------------------
(* The theorems.                                                           *)

(* The inductive invariant holds throughout, restarts included. *)
THEOREM SigningInvariant == Spec => []SigInv
BY InitInv, NextInv, PTL DEF Spec

(* The chain, the nodes' memories and the shares keep their types: react   *)
(* never builds a transaction or a memory its type does not describe.      *)
THEOREM SigningTyped == Spec => []SigningTypeOK
<1>1. SigInv => SigningTypeOK
  BY DEF SigInv, SimInv, NodesTyped, SigningTypeOK
<1> QED BY <1>1, SigningInvariant, PTL

(* The validation gate: whatever the nodes' policies and however often     *)
(* they restart, no node holds nonces for, or takes part in signing, a     *)
(* message its own policy rejects.                                         *)
THEOREM SigningPolicyGate == Spec => []PolicyGate
<1>1. SigInv => PolicyGate
  <2> SUFFICES ASSUME SigInv PROVE PolicyGate
    OBVIOUS
  <2>1. ASSUME NEW r \in Requested, StatusOf(r).tag \in {"Signing", "Completed"},
               NEW n \in StatusOf(r).participants
        PROVE  Requests[r].message \in Approves[n]
    <3>1. HonestEntry(state.requests[r]) /\ state.requests[r].message = Requests[r].message
      BY <2>1 DEF SigInv, HonestSim, HonestState, FaithfulSim, Faithful, Requested
    <3>2. n \in Approving(state.requests[r].message)
      BY <2>1, <3>1 DEF HonestEntry, StatusOf
    <3> QED BY <3>1, <3>2 DEF Approving
  <2> QED BY <2>1 DEF SigInv, NoncesInv, PolicyGate
<1> QED BY <1>1, SigningInvariant, PTL

(* While all shares come from react, aggregation never fails, for any      *)
(* number of nodes, requests and restarts, and any interleaving.           *)
THEOREM SigningSharesAggregate == Spec => []SharesAggregate
<1>1. SigInv => SharesAggregate
  <2> SUFFICES ASSUME SigInv PROVE SharesAggregate
    OBVIOUS
  <2>1. \A r \in Requested : StatusOf(r).tag # "Failed"
    BY DEF SigInv, HonestSim, HonestState, HonestEntry, Requested, StatusOf
  <2>2. ASSUME NEW tx \in InFlight, tx.type = "SubmitShare",
               working.requests[tx.request_id].status.tag = "Signing"
        PROVE  /\ tx.share = RightShare(working.requests[tx.request_id], tx.validator)
               /\ working.group.pkp = GroupKey
    <3>1. HonestShare(working, tx.request_id, tx.validator, tx.share)
      BY <2>2 DEF SigInv, HonestSim, HonestTx, InFlight
    <3>2. working.group # None
      BY <3>1 DEF HonestShare, SigInv, SimInv, Safe, OneGroup
    <3> QED BY <2>2, <3>1, <3>2 DEF HonestShare, SigInv, HonestSim, HonestState
  <2>3. \A e, v : LET share == RightShare(e, v)
                 IN  /\ share.signing_package = e.status.signing_package
                     /\ share.nonces = e.status.signing_package.commitments[v]
                     /\ share.randomizer = e.randomizer /\ share.pkp = GroupKey
    BY DEF RightShare
  <2> QED BY <2>1, <2>2, <2>3 DEF SharesAggregate
<1> QED BY <1>1, SigningInvariant, PTL

(* No nonces ever make two different shares, and no node holds nonces that *)
(* have made one, across any number of calls, requests and restarts.       *)
THEOREM SigningNoncesUsedOnce == Spec => []NoncesUsedOnce
<1>1. SigInv => NoncesUsedOnce
  BY DEF SigInv, NoncesInv
<1> QED BY <1>1, SigningInvariant, PTL

----------------------------------------------------------------------------
(* The refinement.                                                         *)

(* The outcome the mapping reads off a chain state. *)
Outcome(s, r) ==
    IF r \in Keys(s.requests) /\ s.requests[r].status.tag = "Completed"
    THEN {OutcomeOf(s.requests[r].status)} ELSE {}

Outcomes == [r \in Uuids |-> Outcome(working, r)]

(* The outcome is the one the service promises. *)
Promised(r) ==
    \E S \in SUBSET DOMAIN Approves :
        /\ r \in submitted
        /\ Cardinality(S) = Params.threshold
        /\ \A n \in S : Requests[r].message \in Approves[n]
        /\ Outcome(working, r) =
             {[participants |-> S,
               signature |-> [message |-> Requests[r].message,
                              randomizer |-> Requests[r].randomizer, pkp |-> GroupKey]]}

Completed == {r \in Keys(working.requests) : working.requests[r].status.tag = "Completed"}

OutcomesPromised == \A r \in Completed : Promised(r)

LEMMA CompletedPromised == SigInv => OutcomesPromised
<1> SUFFICES ASSUME SigInv, NEW r \in Keys(working.requests),
                    working.requests[r].status.tag = "Completed"
             PROVE  Promised(r)
  BY DEF Completed, OutcomesPromised
<1> DEFINE e == working.requests[r]
           S == e.status.participants
<1>1. /\ EntryExact(e, working.group) /\ HonestEntry(e)
      /\ r \in submitted /\ e.message = Requests[r].message /\ e.randomizer = Requests[r].randomizer
  BY DEF SigInv, SimInv, Safe, CutIsExact, HonestSim, HonestState, FaithfulSim, Faithful
<1>2. working.group # None
  BY DEF SigInv, SimInv, Safe, OneGroup
<1>3. working.group.params = Params /\ working.group.pkp = GroupKey
  BY <1>2 DEF SigInv, HonestSim, HonestState, FaithfulSim, Faithful
<1>4. S \subseteq Approving(e.message)
  BY <1>1 DEF HonestEntry
<1>5. /\ Cardinality(S) = Params.threshold
      /\ e.status.signature =
           [message |-> e.message, randomizer |-> e.randomizer, pkp |-> GroupKey]
  BY <1>1, <1>3 DEF EntryExact
<1>6. Outcome(working, r) =
        {[participants |-> S,
          signature |-> [message |-> Requests[r].message,
                         randomizer |-> Requests[r].randomizer, pkp |-> GroupKey]]}
  BY <1>1, <1>5 DEF Outcome, OutcomeOf
<1>7. S \in SUBSET DOMAIN Approves /\ \A n \in S : Requests[r].message \in Approves[n]
  BY <1>1, <1>4 DEF Approving
<1> QED BY <1>1, <1>5, <1>6, <1>7 DEF Promised

(* One transaction gives at most one request an outcome, and none loses or *)
(* changes the one it has.                                                 *)
LEMMA ApplyOutcome ==
    ASSUME NEW s \in State, NEW tx \in Tx, Accepts(s, tx), HonestTx(s, tx)
    PROVE  \/ \A q \in Uuids : Outcome(apply_tx(s, tx), q) = Outcome(s, q)
           \/ \E r \in Uuids :
                /\ \A q \in Uuids \ {r} : Outcome(apply_tx(s, tx), q) = Outcome(s, q)
                /\ Outcome(s, r) = {}
                /\ r \in Keys(apply_tx(s, tx).requests)
                /\ apply_tx(s, tx).requests[r].status.tag = "Completed"
<1> DEFINE t == apply_tx(s, tx)
           r == tx.request_id
<1>1. CASE tx.type = "InitGroup"
  <2>1. t.requests = s.requests
    BY <1>1, Frame
  <2> HIDE DEF t
  <2> QED BY <2>1 DEF Outcome, t
<1>2. CASE tx.type # "InitGroup"
  <2>1. tx.type \in {"SubmitRequest", "SubmitCommitment", "SubmitShare"}
    BY <1>2 DEF HonestTx
  <2>2. /\ r \in Uuids /\ Keys(t.requests) = Keys(s.requests) \cup {r} /\ SameBut(s, t, {r})
        /\ r \in Keys(s.requests) => s.requests[r].status.tag # "Completed"
    BY <2>1, OneRequest
  <2> HIDE DEF t, r
  <2>3. \A q \in Uuids \ {r} : Outcome(t, q) = Outcome(s, q)
    BY <2>2 DEF SameBut, Outcome
  <2>4. Outcome(s, r) = {}
    BY <2>2 DEF Outcome
  <2>5. CASE t.requests[r].status.tag = "Completed"
    BY <2>2, <2>3, <2>4, <2>5 DEF t
  <2>6. CASE t.requests[r].status.tag # "Completed"
    <3>1. Outcome(t, r) = {}
      BY <2>6 DEF Outcome
    <3> QED BY <2>3, <2>4, <3>1 DEF t
  <2> QED BY <2>5, <2>6
<1> QED BY <1>1, <1>2

(* Every step of the detailed specification is a step of the service, or   *)
(* nothing the client can see.                                             *)
LEMMA ServiceStep ==
    ASSUME SigInv, SigInv', [Next]_vars
    PROVE  [Service!Next]_<<submitted, Outcomes>>
<1>0. DOMAIN Requests = Uuids
  BY SigningAssumption
<1>1. ASSUME NEW r \in Uuids, SubmitRequest(r) PROVE Service!Next
  <2>1. r \notin submitted /\ submitted' = submitted \cup {r} /\ working' = working
    BY <1>1 DEF SubmitRequest, Submit, SubmitAll
  <2>2. Outcomes' = Outcomes
    BY <2>1 DEF Outcomes, Outcome
  <2> QED BY <1>0, <2>1, <2>2 DEF Service!Next, Service!Ask, Outcomes, Outcome
<1>2. ASSUME submitted' = submitted, working' = working PROVE UNCHANGED <<submitted, Outcomes>>
  BY <1>2 DEF Outcomes, Outcome
<1>3. CASE PopTx /\ submitted' = submitted /\ working' # working
  <2> DEFINE tx == Head(mempool)
  <2>1. Accepts(working, tx) /\ working' = apply_tx(working, tx) /\ mempool # <<>>
    BY <1>3 DEF PopTx
  <2>2. working \in State /\ mempool \in Seq(Tx)
    BY DEF SigInv, SimInv, TypeOK
  <2>3. tx \in Tx /\ HonestTx(working, tx)
    BY <2>1, <2>2, ToSetTail DEF SigInv, HonestSim
  <2> HIDE DEF tx
  <2>4. CASE \A q \in Uuids : Outcome(apply_tx(working, tx), q) = Outcome(working, q)
    <3>1. \A q \in Uuids : Outcome(working', q) = Outcome(working, q)
      BY <2>1, <2>4
    <3>2. Outcomes' = Outcomes
      BY <3>1 DEF Outcomes, Outcome
    <3> QED BY <1>3, <3>2
  <2>5. ASSUME NEW r \in Uuids,
               \A q \in Uuids \ {r} : Outcome(apply_tx(working, tx), q) = Outcome(working, q),
               Outcome(working, r) = {},
               r \in Keys(apply_tx(working, tx).requests),
               apply_tx(working, tx).requests[r].status.tag = "Completed"
        PROVE  Service!Next
    <3>1. \A q \in Uuids \ {r} : Outcome(working', q) = Outcome(working, q)
      BY <2>1, <2>5
    <3>2. PICK S \in SUBSET DOMAIN Approves :
            /\ r \in submitted'
            /\ Cardinality(S) = Params.threshold
            /\ \A n \in S : Requests[r].message \in Approves[n]
            /\ Outcome(working', r) =
                 {[participants |-> S,
                   signature |-> [message |-> Requests[r].message,
                                  randomizer |-> Requests[r].randomizer, pkp |-> GroupKey]]}
      <4>1. r \in Keys(working'.requests) /\ working'.requests[r].status.tag = "Completed"
        BY <2>1, <2>5
      <4>2. r \in Completed'
        BY <4>1 DEF Completed
      <4>3. OutcomesPromised'
        BY CompletedPromised, PTL
      <4>4. Promised(r)'
        BY <4>2, <4>3 DEF OutcomesPromised
      <4> QED BY <4>4 DEF Promised
    <3>3. Outcomes' = [Outcomes EXCEPT ![r] = Outcome(working', r)]
      BY <3>1 DEF Outcomes, Outcome
    <3>5. Service!Cardinality(S) = Params.threshold
      <4>1. Service!Cardinality(S) = Cardinality(S)
        BY DEF Service!Cardinality, Cardinality
      <4> QED BY <3>2, <4>1
    <3>4. Service!Sign(r, S)
      BY <1>3, <2>5, <3>2, <3>3, <3>5 DEF Service!Sign, Outcomes, Outcome
    <3> QED BY <1>0, <3>2, <3>4 DEF Service!Next
  <2> QED BY <2>2, <2>3, <2>1, <2>4, <2>5, ApplyOutcome
<1>4. \/ \E r \in Uuids : SubmitRequest(r)
      \/ submitted' = submitted /\ working' = working
      \/ PopTx /\ submitted' = submitted /\ working' # working
  BY DEF Next, React, Restart, CommitBlock, SubmitAll, BeginBlock, EndBlock, PopTx, vars, simVars
<1> QED BY <1>1, <1>2, <1>3, <1>4

(* The chain and the nodes together keep the promise made to the client:   *)
(* a request gets at most one outcome, for ever, the group's signature of  *)
(* what was asked, by exactly threshold nodes whose policies approve it.   *)
THEOREM SigningImplementsService == Spec => ImplementsService
<1>1. Init => Service!Init
  <2> SUFFICES ASSUME Init PROVE Service!Init
    OBVIOUS
  <2>1. submitted = {} /\ working = DefaultState /\ DOMAIN Requests = Uuids
    BY SigningAssumption DEF Init
  <2>2. Keys(working.requests) = {}
    BY <2>1, EmptyKeys DEF DefaultState
  <2> QED BY <2>1, <2>2 DEF Service!Init
<1>2. SigInv /\ SigInv' /\ [Next]_vars =>
        [Service!Next]_<<submitted, [r \in Uuids |->
             IF r \in Keys(working.requests) /\ working.requests[r].status.tag = "Completed"
             THEN {OutcomeOf(working.requests[r].status)} ELSE {}]>>
  BY ServiceStep DEF Outcomes, Outcome
<1> QED BY <1>1, <1>2, SigningInvariant, PTL DEF Spec, ImplementsService, Service!Spec

----------------------------------------------------------------------------
(* As long as no node has restarted, a node's memory agrees with the chain. *)

(* Somebody's transaction of this kind for r waits in the mempool. *)
Underway(type, n, r) ==
    \E tx \in ToSet(mempool) : tx.type = type /\ tx.request_id = r /\ tx.validator = n

(* What n submitted for r is on its way, or the chain has it, or no longer *)
(* needs it.                                                               *)
Settled(type, n, r) ==
    /\ r \in Keys(working.requests)
    /\ \/ Underway(type, n, r)
       \/ AnsweredIn(working.requests[r], [type |-> type, validator |-> n])

(* Marks are justified, and nonces are held behind every commitment, on    *)
(* the chain or on its way there, that has not made a share.               *)
MarksInv ==
    \A n \in Nodes :
        /\ \A r \in nodes[n].committed_requests :
              n \in Keys(GroupKey) /\ Settled("SubmitCommitment", n, r)
        /\ \A r \in nodes[n].shared_requests : n \in Keys(GroupKey) /\ Settled("SubmitShare", n, r)

HoldInv ==
    /\ \A n \in Nodes : \A r \in Uuids :
          nodes[n].pending[r] # None => r \in nodes[n].committed_requests
    /\ \A tx \in ToSet(mempool) : tx.type = "SubmitCommitment" =>
          Holds(nodes[tx.validator], tx.request_id, tx.commitments)
    /\ HeldIn(nodes, state) /\ HeldIn(nodes, working)

(* A rejected transaction of a member was not needed. *)
LEMMA RejectedAnswered ==
    ASSUME SigInv, NEW tx \in Tx, HonestTx(working, tx), ~Accepts(working, tx),
           tx.type \in {"SubmitCommitment", "SubmitShare"}, tx.validator \in Keys(GroupKey)
    PROVE  AnsweredIn(working.requests[tx.request_id], tx)
<1> DEFINE r == tx.request_id
           e == working.requests[r]
<1>1. r \in Keys(working.requests)
  BY DEF HonestTx, HonestCommitment, HonestShare
<1>2. working.group # None /\ working.group.validators = Keys(GroupKey)
  BY <1>1 DEF SigInv, SimInv, Safe, OneGroup, HonestSim, HonestState
<1>3. CASE tx.type = "SubmitCommitment"
  <2>1. ~SubmitCommitmentOk(working, tx)
    BY <1>3 DEF Accepts
  <2> QED BY <1>1, <1>2, <1>3, <2>1 DEF SubmitCommitmentOk, AnsweredIn
<1>4. CASE tx.type = "SubmitShare"
  <2>1. ~SubmitShareOk(working, tx) /\ HonestShare(working, r, tx.validator, tx.share)
    BY <1>4 DEF Accepts, HonestTx
  <2> QED BY <1>1, <1>2, <1>4, <2>1 DEF SubmitShareOk, HonestShare, AnsweredIn
<1> QED BY <1>3, <1>4

(* commit_block settles what is under way. *)
LEMMA PopTxSettles ==
    ASSUME SigInv, PopTx, NEW type \in {"SubmitCommitment", "SubmitShare"},
           NEW n \in Keys(GroupKey), NEW r, Settled(type, n, r)
    PROVE  Settled(type, n, r)'
<1> DEFINE tx == Head(mempool)
           mark == [type |-> type, validator |-> n]
<1>1. mempool' = Tail(mempool) /\ mempool # <<>>
  BY DEF PopTx
<1>2. working \in State /\ mempool \in Seq(Tx) /\ OneGroup(working)
  BY DEF SigInv, SimInv, TypeOK, Safe
<1>3. tx \in Tx /\ ToSet(mempool) = {tx} \cup ToSet(mempool')
  BY <1>1, <1>2, ToSetTail
<1>4. HonestTx(working, tx)
  BY <1>3 DEF SigInv, HonestSim
<1>5. \/ Accepts(working, tx) /\ working' = apply_tx(working, tx)
      \/ ~Accepts(working, tx) /\ working' = working
  BY DEF PopTx
<1> HIDE DEF tx
<1>6. r \in Keys(working.requests)
  BY DEF Settled
<1>7. working' \in State /\ MovesForward(working, working')
  BY <1>2, <1>3, <1>5, ApplyTyped, ApplyForward, MovesForwardSelf
<1>8. r \in Keys(working'.requests)
  BY <1>2, <1>6, <1>7, ForwardKeys
<1>9. CASE AnsweredIn(working.requests[r], mark)
  <2>1. AnsweredIn(working'.requests[r], mark)
    BY <1>2, <1>6, <1>7, <1>9, AnswersGrow
  <2> QED BY <1>8, <2>1 DEF Settled
<1>10. ASSUME NEW w \in ToSet(mempool), w.type = type, w.request_id = r, w.validator = n
       PROVE  Settled(type, n, r)'
  <2>1. CASE w \in ToSet(mempool')
    BY <1>8, <1>10, <2>1 DEF Settled, Underway
  <2>2. CASE w = tx
    <3>1. AnsweredIn(working'.requests[r], tx)
      <4>1. CASE Accepts(working, tx) /\ working' = apply_tx(working, tx)
        BY <1>2, <1>3, <1>10, <2>2, <4>1, ApplyRecords DEF Recorded
      <4>2. CASE ~Accepts(working, tx) /\ working' = working
        BY <1>3, <1>4, <1>10, <2>2, <4>2, RejectedAnswered
      <4> QED BY <1>5, <4>1, <4>2
    <3>2. AnsweredIn(working'.requests[r], mark)
      BY <1>10, <2>2, <3>1 DEF AnsweredIn
    <3> QED BY <1>8, <3>2 DEF Settled
  <2> QED BY <1>3, <1>10, <2>1, <2>2
<1> QED BY <1>9, <1>10 DEF Settled, Underway

LEMMA BlockKeepsMarks ==
    ASSUME SigInv, MarksInv, HoldInv, CommitBlock
    PROVE  MarksInv' /\ HoldInv'
<1>1. nodes' = nodes
  BY DEF CommitBlock, nodeVars
<1>2. CASE BeginBlock \/ EndBlock
  <2>1. working' = working /\ mempool' = mempool /\ (state' = state \/ state' = working)
    BY <1>2 DEF BeginBlock, EndBlock
  <2>2. MarksInv'
    BY <1>1, <2>1 DEF MarksInv, Settled, Underway
  <2>3. HoldInv'
    BY <1>1, <2>1 DEF HoldInv
  <2> QED BY <2>2, <2>3
<1>3. CASE PopTx
  <2> DEFINE tx == Head(mempool)
  <2>1. mempool' = Tail(mempool) /\ mempool # <<>> /\ state' = state
    BY <1>3 DEF PopTx
  <2>2. working \in State /\ mempool \in Seq(Tx)
    BY DEF SigInv, SimInv, TypeOK
  <2>3. tx \in Tx /\ ToSet(mempool) = {tx} \cup ToSet(mempool')
    BY <2>1, <2>2, ToSetTail
  <2>4. HonestTx(working, tx)
    BY <2>3 DEF SigInv, HonestSim
  <2>5. \/ Accepts(working, tx) /\ working' = apply_tx(working, tx)
        \/ ~Accepts(working, tx) /\ working' = working
    BY <1>3 DEF PopTx
  <2> HIDE DEF tx
  <2>6. MarksInv'
    BY <1>1, <1>3, PopTxSettles DEF MarksInv
  <2>7. HeldIn(nodes, working')
    <3>1. CASE Accepts(working, tx) /\ working' = apply_tx(working, tx)
      <4>1. /\ HeldIn(nodes, working)
            /\ tx.type = "SubmitCommitment" => Holds(nodes[tx.validator], tx.request_id, tx.commitments)
        BY <2>3 DEF HoldInv
      <4>2. HeldIn(nodes, apply_tx(working, tx))
        BY <2>2, <2>3, <2>4, <3>1, <4>1, ApplyHeld
      <4> QED BY <3>1, <4>2
    <3>2. CASE working' = working
      BY <3>2 DEF HoldInv
    <3> QED BY <2>5, <3>1, <3>2
  <2>8. HoldInv'
    BY <1>1, <2>1, <2>3, <2>7 DEF HoldInv
  <2> QED BY <2>6, <2>8
<1> QED BY <1>2, <1>3 DEF CommitBlock

(* What is settled stays settled while transactions are added. *)
LEMMA SubmitSettles ==
    ASSUME SigInv, NEW txs \in Seq(Tx), SubmitAll(txs), NEW type, NEW n, NEW r, Settled(type, n, r)
    PROVE  Settled(type, n, r)'
<1>1. working' = working /\ mempool' = mempool \o txs /\ mempool \in Seq(Tx)
  BY DEF SubmitAll, SigInv, SimInv, TypeOK
<1>2. ToSet(mempool') = ToSet(mempool) \cup ToSet(txs)
  BY <1>1, ToSetConcat
<1> QED BY <1>1, <1>2 DEF Settled, Underway

LEMMA ReactKeepsMarks ==
    ASSUME SigInv, MarksInv, HoldInv, NEW n \in Nodes, React(n)
    PROVE  MarksInv' /\ HoldInv'
<1> DEFINE m == nodes[n]
           after == MemoryAfter(state, n, m)
           out == Out(state, n, m)
<1>1. SubmitAll(out) /\ nodes' = [nodes EXCEPT ![n] = after] /\ Listens(state, n)
  BY DEF React
<1>2. /\ state \in State /\ working = state /\ CutIsExact(state)
      /\ nodes \in [Nodes -> NodeMemory] /\ m \in NodeMemory
      /\ n \in Ids /\ n \in DOMAIN Approves
  BY <1>1, NodesAreIds DEF SigInv, SimInv, TypeOK, Safe, NodesTyped, SubmitAll
<1>3. n \in Keys(GroupKey)
  BY <1>1 DEF Listens, SigInv, HonestSim, HonestState
<1>4. Failing(state, n, m) = {}
  BY <1>2, HeldNoFailure DEF HoldInv
<1>5. out \in Seq(Tx) /\ mempool \in Seq(Tx)
  BY <1>2, OutTyped DEF SigInv, SimInv, TypeOK
<1>6. /\ \A tx \in ToSet(out) :
            \E r \in ToCommit(state, n, m) \cup ToShare(state, n, m) : tx = TxFor(state, n, m, r)
      /\ \A r \in ToCommit(state, n, m) \cup ToShare(state, n, m) :
            TxFor(state, n, m, r) \in ToSet(out)
  BY <1>2, <1>4, OutSet
<1>7. /\ after.committed_requests =
            m.committed_requests \cup CommitmentSeen(state, n) \cup ToCommit(state, n, m)
      /\ after.shared_requests = m.shared_requests \cup ShareSeen(state, n) \cup ToShare(state, n, m)
  BY <1>2, <1>4, ReactMarks
<1>8. /\ \A k \in Nodes : k # n => nodes'[k] = nodes[k]
      /\ nodes'[n] = after
  BY <1>1, <1>2
<1>9. /\ state' = state /\ working' = working
      /\ ToSet(mempool') = ToSet(mempool) \cup ToSet(out)
  BY <1>1, <1>5, ToSetConcat DEF SubmitAll
<1>10. \A r \in ToCommit(state, n, m) : Settled("SubmitCommitment", n, r)'
  <2> SUFFICES ASSUME NEW r \in ToCommit(state, n, m) PROVE Settled("SubmitCommitment", n, r)'
    OBVIOUS
  <2> DEFINE tx == TxFor(state, n, m, r)
  <2>1. tx.type = "SubmitCommitment" /\ tx.request_id = r /\ tx.validator = n
    BY DEF TxFor
  <2>2. tx \in ToSet(mempool') /\ r \in Keys(working'.requests)
    BY <1>2, <1>6, <1>9, ReactSets
  <2> HIDE DEF tx
  <2> QED BY <2>1, <2>2 DEF Settled, Underway
<1>11. \A r \in ToShare(state, n, m) : Settled("SubmitShare", n, r)'
  <2> SUFFICES ASSUME NEW r \in ToShare(state, n, m) PROVE Settled("SubmitShare", n, r)'
    OBVIOUS
  <2> DEFINE tx == TxFor(state, n, m, r)
  <2>1. r \notin ToCommit(state, n, m) /\ r \in Keys(state.requests)
    BY <1>2, ReactSets
  <2>2. tx.type = "SubmitShare" /\ tx.request_id = r /\ tx.validator = n
    BY <2>1 DEF TxFor
  <2>3. tx \in ToSet(mempool') /\ r \in Keys(working'.requests)
    BY <1>2, <1>6, <1>9, <2>1
  <2> HIDE DEF tx
  <2> QED BY <2>2, <2>3 DEF Settled, Underway
<1>12. /\ \A r \in CommitmentSeen(state, n) : Settled("SubmitCommitment", n, r)
       /\ \A r \in ShareSeen(state, n) : Settled("SubmitShare", n, r)
  BY <1>2 DEF CommitmentSeen, ShareSeen, InStatus, Settled, AnsweredIn
<1> HIDE DEF after, out
<1>13. MarksInv'
  <2>1. \A k \in Nodes : k # n =>
          /\ \A r \in nodes'[k].committed_requests :
                k \in Keys(GroupKey) /\ Settled("SubmitCommitment", k, r)'
          /\ \A r \in nodes'[k].shared_requests :
                k \in Keys(GroupKey) /\ Settled("SubmitShare", k, r)'
    BY <1>1, <1>5, <1>8, SubmitSettles DEF MarksInv
  <2>2. \A r \in after.committed_requests : Settled("SubmitCommitment", n, r)'
    BY <1>1, <1>5, <1>7, <1>10, <1>12, SubmitSettles DEF MarksInv
  <2>3. \A r \in after.shared_requests : Settled("SubmitShare", n, r)'
    BY <1>1, <1>5, <1>7, <1>11, <1>12, SubmitSettles DEF MarksInv
  <2> QED BY <1>3, <1>8, <2>1, <2>2, <2>3 DEF MarksInv
<1>14. \A k \in Nodes, r \in Uuids : \A d : Holds(nodes[k], r, d) => Holds(nodes'[k], r, d)
  BY <1>2, <1>4, <1>8, ReactHolds DEF after
<1>15. ASSUME NEW k \in Nodes, NEW r \in Uuids, nodes'[k].pending[r] # None
       PROVE  r \in nodes'[k].committed_requests
  <2>1. CASE k # n
    BY <1>8, <1>15, <2>1 DEF HoldInv
  <2>2. CASE k = n
    <3>1. r \in ToCommit(state, n, m) \/ after.pending[r] = m.pending[r]
      BY <1>2, <1>8, <1>15, <2>2, PendingEffect, ReactSets DEF after
    <3> QED BY <1>7, <1>8, <1>15, <2>2, <3>1 DEF HoldInv
  <2> QED BY <2>1, <2>2
<1>16. ASSUME NEW s \in State, HonestState(s), CutIsExact(s), HeldIn(nodes, s) PROVE HeldIn(nodes', s)
  <2> SUFFICES ASSUME NEW r \in Keys(s.requests) PROVE HeldEntry(nodes', r, s.requests[r])
    BY DEF HeldIn
  <2> DEFINE e == s.requests[r]
  <2>1. r \in Uuids /\ HeldEntry(nodes, r, e) /\ HonestEntry(e) /\ EntryExact(e, s.group)
    BY <1>16, StateParts DEF HeldIn, HonestState, CutIsExact
  <2> HIDE DEF e
  <2>2. CASE e.status.tag = "AwaitingCommitments"
    <3>1. Keys(e.status.commitments) \subseteq Nodes
      BY <2>1, <2>2 DEF HonestEntry, Approving, Nodes
    <3>2. HeldEntry(nodes', r, e)
      BY <1>14, <2>1, <2>2, <3>1 DEF HeldEntry
    <3> QED BY <3>2 DEF e
  <2>3. CASE e.status.tag = "Signing"
    <3>1. Keys(e.status.signing_package.commitments) \subseteq Nodes
      BY <2>1, <2>3 DEF HonestEntry, Approving, Nodes, EntryExact
    <3>2. HeldEntry(nodes', r, e)
      BY <1>14, <2>1, <2>3, <3>1 DEF HeldEntry
    <3> QED BY <3>2 DEF e
  <2>4. CASE e.status.tag \notin {"AwaitingCommitments", "Signing"}
    BY <2>4 DEF HeldEntry, e
  <2> QED BY <2>2, <2>3, <2>4
<1>17. HeldIn(nodes', state)
  BY <1>2, <1>16 DEF HoldInv, SigInv, HonestSim
<1>18. ASSUME NEW tx \in ToSet(mempool'), tx.type = "SubmitCommitment"
       PROVE  Holds(nodes'[tx.validator], tx.request_id, tx.commitments)
  <2>1. CASE tx \in ToSet(mempool)
    <3>1. tx.validator \in Nodes /\ tx.request_id \in Keys(working.requests)
      BY <1>18, <2>1 DEF SigInv, HonestSim, HonestTx, HonestCommitment, Approving, Nodes
    <3>2. tx.request_id \in Uuids
      BY <1>2, <3>1, StateParts
    <3> QED BY <1>14, <1>18, <2>1, <3>1, <3>2 DEF HoldInv
  <2>2. CASE tx \in ToSet(out)
    <3>1. PICK r \in ToCommit(state, n, m) \cup ToShare(state, n, m) : tx = TxFor(state, n, m, r)
      BY <1>6, <2>2
    <3>2. r \in Uuids
      BY <1>2, ReactSets, StateParts
    <3>3. /\ r \in ToCommit(state, n, m) /\ tx.request_id = r /\ tx.validator = n
          /\ tx.commitments = FreshNonces(state, n, m, r)
      BY <1>18, <3>1 DEF TxFor
    <3>4. Holds(after, r, FreshNonces(state, n, m, r))
      BY <1>2, <1>4, <3>2, <3>3, ReactHolds DEF after
    <3> QED BY <1>8, <3>3, <3>4
  <2> QED BY <1>9, <1>18, <2>1, <2>2
<1>19. HoldInv'
  BY <1>2, <1>9, <1>15, <1>17, <1>18 DEF HoldInv
<1> QED BY <1>13, <1>19

LEMMA SubmitRequestKeepsMarks ==
    ASSUME SigInv, MarksInv, HoldInv, NEW r \in Uuids, SubmitRequest(r)
    PROVE  MarksInv' /\ HoldInv'
<1> DEFINE tx == [type |-> "SubmitRequest", request_id |-> r, message |-> Requests[r].message,
                  randomizer |-> Requests[r].randomizer]
<1>1. tx \in Tx /\ tx.type # "SubmitCommitment"
  BY SigningAssumption DEF Tx
<1>2. SubmitAll(<<tx>>) /\ nodes' = nodes
  BY DEF SubmitRequest, Submit, nodeVars
<1> HIDE DEF tx
<1>3. <<tx>> \in Seq(Tx) /\ ToSet(<<tx>>) = {tx}
  BY <1>1 DEF ToSet
<1>4. state' = state /\ working' = working /\ mempool' = mempool \o <<tx>> /\ mempool \in Seq(Tx)
  BY <1>2 DEF SubmitAll, SigInv, SimInv, TypeOK
<1>5. ToSet(mempool \o <<tx>>) = ToSet(mempool) \cup ToSet(<<tx>>)
  BY <1>3, <1>4, ToSetConcat, ZenonT(30)
<1>6. ToSet(mempool') = ToSet(mempool) \cup {tx}
  BY <1>3, <1>4, <1>5, Zenon
<1>7. MarksInv'
  BY <1>2, <1>3, SubmitSettles DEF MarksInv
<1>8. HoldInv'
  BY <1>1, <1>2, <1>4, <1>6 DEF HoldInv
<1> QED BY <1>7, <1>8

(* The invariant of the nodes that have never restarted. *)
UpInv == restarts = 0 => MarksInv /\ HoldInv

LEMMA InitUp == Init => UpInv
<1> SUFFICES ASSUME Init PROVE MarksInv /\ HoldInv
  BY DEF UpInv
<1>1. /\ nodes = [n \in Nodes |-> NewNode(0)] /\ state = DefaultState /\ working = DefaultState
      /\ mempool = <<InitGroupTx>>
  BY DEF Init
<1>2. \A n \in Nodes : /\ nodes[n].committed_requests = {} /\ nodes[n].shared_requests = {}
                       /\ \A r \in Uuids : nodes[n].pending[r] = None
  BY <1>1 DEF NewNode, Empty
<1>3. Keys(DefaultState.requests) = {}
  BY EmptyKeys DEF DefaultState
<1>4. \A tx \in ToSet(mempool) : tx.type # "SubmitCommitment"
  BY <1>1 DEF ToSet, InitGroupTx
<1> QED BY <1>1, <1>2, <1>3, <1>4 DEF MarksInv, HoldInv, HeldIn

LEMMA NextUp == SigInv /\ UpInv /\ [Next]_vars => UpInv'
<1> SUFFICES ASSUME SigInv, UpInv, [Next]_vars, restarts' = 0 PROVE MarksInv' /\ HoldInv'
  BY DEF UpInv
<1>0. restarts \in Nat
  BY SigningAssumption DEF SigInv, NodesTyped
<1>1. CASE UNCHANGED vars
  <2>1. state' = state /\ working' = working /\ mempool' = mempool /\ nodes' = nodes
        /\ restarts' = restarts
    BY <1>1 DEF vars, simVars, nodeVars
  <2>2. MarksInv /\ HoldInv
    BY <2>1 DEF UpInv
  <2> QED BY <2>1, <2>2 DEF MarksInv, Settled, Underway, HoldInv
<1>2. ASSUME NEW r \in Uuids, SubmitRequest(r) PROVE MarksInv' /\ HoldInv'
  <2>1. restarts' = restarts
    BY <1>2 DEF SubmitRequest, nodeVars
  <2> QED BY <1>2, <2>1, SubmitRequestKeepsMarks DEF UpInv
<1>3. ASSUME NEW n \in Nodes, React(n) PROVE MarksInv' /\ HoldInv'
  <2>1. restarts' = restarts
    BY <1>3 DEF React
  <2> QED BY <1>3, <2>1, ReactKeepsMarks DEF UpInv
<1>4. ASSUME NEW n \in Nodes, Restart(n) PROVE FALSE
  <2>1. restarts' = restarts + 1
    BY <1>4 DEF Restart
  <2> QED BY <1>0, <2>1
<1>5. CASE CommitBlock
  <2>1. restarts' = restarts
    BY <1>5 DEF CommitBlock, nodeVars
  <2> QED BY <1>5, <2>1, BlockKeepsMarks DEF UpInv
<1> QED BY <1>1, <1>2, <1>3, <1>4, <1>5 DEF Next

(* Until the first restart, the marks of every node match what is on the   *)
(* chain or on its way there, and a node holds the nonces of every         *)
(* commitment of its own that a request has or will get.                   *)
THEOREM SigningUpInvariant == Spec => []UpInv
BY InitUp, NextUp, SigningInvariant, PTL DEF Spec

(* As long as no node has restarted, a node that has marked a request as   *)
(* committed to or shared for is right: its transaction is on the chain,   *)
(* on its way there, or no longer needed.                                  *)
THEOREM SigningMarkedIsInFlight == Spec => [](restarts = 0 => MarkedIsInFlight)
<1>1. SigInv /\ UpInv => (restarts = 0 => MarkedIsInFlight)
  <2> SUFFICES ASSUME SigInv, MarksInv, ~in_block, NEW n \in Nodes, NEW r \in Requested
               PROVE  /\ r \in nodes[n].committed_requests
                           /\ StatusOf(r).tag = "AwaitingCommitments" =>
                            \/ n \in Keys(StatusOf(r).commitments)
                            \/ Underway("SubmitCommitment", n, r)
                      /\ r \in nodes[n].shared_requests /\ StatusOf(r).tag = "Signing" =>
                            \/ n \in Keys(StatusOf(r).shares)
                            \/ Underway("SubmitShare", n, r)
    BY DEF UpInv, MarkedIsInFlight, Underway, InFlight
  <2>1. working = state
    BY DEF SigInv, SimInv
  <2>2. /\ r \in nodes[n].committed_requests => Settled("SubmitCommitment", n, r)
        /\ r \in nodes[n].shared_requests => Settled("SubmitShare", n, r)
    BY DEF MarksInv
  <2> QED BY <2>1, <2>2 DEF Settled, AnsweredIn, StatusOf
<1> QED BY <1>1, SigningInvariant, SigningUpInvariant, PTL

(* As long as no node has restarted, a node that was selected and has not  *)
(* made its share holds the nonces it committed to: react never fails and  *)
(* never passes over a request it is needed for.                           *)
THEOREM SigningSelectedHoldsNonces == Spec => [](restarts = 0 => SelectedHoldsNonces)
<1>1. SigInv /\ UpInv => (restarts = 0 => SelectedHoldsNonces)
  <2> SUFFICES ASSUME SigInv, HoldInv, NEW n \in Nodes, NEW r \in Requested,
                      StatusOf(r).tag = "Signing", n \in StatusOf(r).participants,
                      r \notin nodes[n].shared_requests
               PROVE  nodes[n].pending[r] # None
    BY DEF UpInv, SelectedHoldsNonces
  <2>1. r \in Keys(state.requests) /\ EntryExact(state.requests[r], state.group)
        /\ HeldEntry(nodes, r, state.requests[r])
    BY DEF Requested, SigInv, SimInv, Safe, CutIsExact, HoldInv, HeldIn
  <2>2. n \in Keys(StatusOf(r).signing_package.commitments)
    BY <2>1 DEF EntryExact, StatusOf
  <2>3. Holds(nodes[n], r, StatusOf(r).signing_package.commitments[n])
    BY <2>1, <2>2 DEF HeldEntry, StatusOf
  <2> QED BY <2>2, <2>3 DEF Holds, Keys
<1> QED BY <1>1, SigningInvariant, SigningUpInvariant, PTL
=============================================================================
