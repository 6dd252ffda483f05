---------------------------- MODULE SessionProofs ---------------------------
(***************************************************************************)
(* The properties of Session, for every set of nodes and policies, every   *)
(* choice of bundles, demos and slates, and any number of calls and of     *)
(* things done between them.                                               *)
(***************************************************************************)
EXTENDS Session, NodeProofs

----------------------------------------------------------------------------
(* The constants.                                                          *)

LEMMA SessionNodes ==
    /\ \A n \in Nodes : n \in Ids /\ n \in DOMAIN Approves
    /\ \A n \in DOMAIN Approves : n \in Nodes
    /\ \A n \in Nodes : \A m \in Approves[n] : m \in Messages /\ approve(Policies[n], m) = "Ok"
<1>1. Approves = [n \in Nodes |-> {m \in Messages : approve(Policies[n], m) = "Ok"}]
  BY SessionAssumption
<1>2. Keys(GroupKey) \subseteq Ids
  BY NodeAssumption DEF PublicKeyPackage, Map, Keys
<1> QED BY <1>1, <1>2, SessionAssumption

LEMMA GroupTxTyped == InitGroupTx \in Tx
<1>1. GroupKey \in PublicKeyPackage /\ Params \in MpcParams
  BY NodeAssumption, SessionAssumption
<1>2. Keys(GroupKey) \in SUBSET Ids
  BY <1>1 DEF PublicKeyPackage, Map, Keys
<1> QED BY <1>1, <1>2 DEF InitGroupTx, Tx

(* What a job is made of. *)
LEMMA JobFields ==
    ASSUME NEW j \in Jobs
    PROVE  /\ j # None /\ j.kind \in {"pczt", "demo"} /\ j.message \in Messages
           /\ j.alphas \in Seq(Randomizers \cup {None})
           /\ j.kind = "demo" => j.rounds \in Nat \ {0}
<1>1. j \in Job /\ j # None
  BY SessionAssumption
<1>2. CASE j \in [kind : {"pczt"}, message : Messages, alphas : Seq(Randomizers \cup {None})]
  BY <1>1, <1>2
<1>3. CASE j \in [kind : {"demo"}, message : Messages, alphas : Seq(Randomizers), rounds : Nat \ {0}]
  <2>1. j.kind = "demo" /\ j.message \in Messages /\ j.rounds \in Nat \ {0}
        /\ j.alphas \in Seq(Randomizers)
    BY <1>3
  <2>2. \A q \in Seq(Randomizers) : q \in Seq(Randomizers \cup {None})
    <3> TAKE q \in Seq(Randomizers)
    <3>1. Len(q) \in Nat /\ q \in [1 .. Len(q) -> Randomizers]
      OBVIOUS
    <3>2. q \in [1 .. Len(q) -> Randomizers \cup {None}]
      BY <3>1
    <3> QED BY <3>1, <3>2
  <2> QED BY <1>1, <2>1, <2>2
<1> QED BY <1>1, <1>2, <1>3 DEF Job

----------------------------------------------------------------------------
(* The inductive invariant.                                                *)

SessionTyped ==
    /\ nodes \in [Nodes -> NodeMemory]
    /\ pc \in Stages
    /\ job \in Jobs \cup {None} /\ slate \in Slates \cup {<<>>}
    /\ request \in Uuids \cup {None}
    /\ round \in 0 .. Rounds
    /\ turn \in 1 .. Len(slate) + 1
    /\ idx \in 1 .. (IF job = None THEN 0 ELSE Len(job.alphas)) + 1
    /\ emitted \in BOOLEAN /\ refused \in BOOLEAN
    /\ result \in Errors \cup {"Ok", None}
    /\ calls \in 0 .. MaxCalls /\ meddled \in 0 .. MaxMeddling
    /\ applied \in Seq(Signature)

(* Where the call is, and what its variables hold there. *)
StageInv ==
    /\ job = None => pc = "idle"
    /\ pc \in {"idle", "action"} => turn = 1 /\ round = 0
    /\ pc = "opening" => round = 0 /\ turn = 1
    /\ pc \in {"opening", "react", "closing"} => request \in Uuids /\ idx <= Len(job.alphas)
    /\ pc # "idle" => result = None

(* A node holds nonces only for requests on the chain that its policy      *)
(* approves and that it remembers having committed to.                     *)
PendingInv ==
    \A n \in Nodes : \A r \in Uuids : nodes[n].pending[r] # None =>
        /\ r \in Keys(state.requests)
        /\ state.requests[r].message \in Approves[n]
        /\ r \in nodes[n].committed_requests

SessInv ==
    SimInv /\ HonestSim /\ state.group # None /\ SessionTyped /\ StageInv /\ PendingInv /\ SignedUpToHere

LEMMA SessionInit == Init => SessInv
<1> SUFFICES ASSUME Init PROVE SessInv
  OBVIOUS
<1> DEFINE first == InitGroupNext(DefaultState, InitGroupTx)
<1>1. /\ InitGroupTx \in Tx /\ InitGroupTx.type = "InitGroup"
      /\ InitGroupTx.pkp = GroupKey /\ InitGroupTx.validators = Keys(GroupKey)
  BY GroupTxTyped DEF InitGroupTx
<1>2. /\ DefaultState \in State /\ DefaultState.group = None /\ DefaultState.ceremony = None
      /\ DefaultState.requests = Empty(Uuids) /\ Keys(DefaultState.requests) = {}
  BY DefaultTyped, EmptyKeys DEF DefaultState
<1>3. Accepts(DefaultState, InitGroupTx) /\ first = apply_tx(DefaultState, InitGroupTx)
  BY <1>1, <1>2 DEF Accepts, InitGroupOk, apply_tx
<1>4. /\ state = first /\ working = first /\ log = {InitGroupTx} /\ mempool = <<>>
      /\ last_block = <<InitGroupTx>> /\ accepted = <<>> /\ block_height = 1 /\ in_block = FALSE
  BY DEF Init
<1>5. Safe(DefaultState) /\ HonestState(DefaultState) /\ HonestTx(DefaultState, InitGroupTx)
  <2> HIDE DEF first
  <2>1. Safe(DefaultState)
    BY <1>2 DEF Safe, OneGroup, CeremonyInOrder, CutIsExact
  <2>2. HonestState(DefaultState)
    BY <1>2 DEF HonestState
  <2>3. HonestTx(DefaultState, InitGroupTx)
    BY <1>1 DEF HonestTx
  <2> QED BY <2>1, <2>2, <2>3
<1> HIDE DEF first
<1>6. first \in State
  BY <1>1, <1>2, <1>3, ApplyTyped
<1>7. Safe(first)
  BY <1>1, <1>2, <1>3, <1>5, ApplyOneGroup, ApplyCeremony, ApplyCut DEF Safe
<1>8. HonestState(first)
  BY <1>1, <1>2, <1>3, <1>5, ApplyHonest DEF Safe
<1>9. Recorded(first, InitGroupTx)
  BY <1>1, <1>2, <1>3, ApplyRecords
<1>10. first.group # None
  BY <1>1, <1>9 DEF Recorded
<1>11. TypeOK
  <2>1. <<>> \in Seq(Tx) /\ <<InitGroupTx>> \in Seq(Tx)
    BY <1>1
  <2>2. mempool \in Seq(Tx) /\ last_block \in Seq(Tx) /\ accepted \in Seq(Tx)
    BY <1>4, <2>1, Zenon
  <2> QED BY <1>1, <1>4, <1>6, <2>2 DEF TypeOK
<1>12. SimInv
  <2>1. MovesForward(first, first)
    BY <1>6, MovesForwardSelf
  <2> QED BY <1>4, <1>7, <1>9, <1>11, <2>1 DEF SimInv
<1>13. HonestSim
  <2>1. ToSet(mempool) = {}
    BY <1>4 DEF ToSet
  <2> QED BY <1>4, <1>8, <2>1 DEF HonestSim
<1>14. /\ nodes = [n \in Nodes |-> NewNode(0)] /\ pc = "idle" /\ job = None /\ slate = <<>>
       /\ idx = 1 /\ request = None /\ round = 0 /\ turn = 1 /\ emitted = FALSE /\ refused = FALSE
       /\ applied = <<>> /\ result = None /\ calls = 0 /\ meddled = 0
  BY DEF Init
<1>15. SessionTyped
  <2>1. NewNode(0) \in NodeMemory
    BY NewNodeTyped
  <2>2. applied \in Seq(Signature) /\ Len(slate) = 0
    BY <1>14
  <2>3. Rounds = 0
    BY <1>14 DEF Rounds
  <2>4. calls \in 0 .. MaxCalls /\ meddled \in 0 .. MaxMeddling
    BY <1>14, SessionAssumption
  <2>5. round \in 0 .. Rounds /\ turn \in 1 .. Len(slate) + 1
    BY <1>14, <2>2, <2>3
  <2>6. nodes \in [Nodes -> NodeMemory]
    BY <1>14, <2>1
  <2>7. slate \in Slates \cup {<<>>} /\ job \in Jobs \cup {None} /\ request \in Uuids \cup {None}
        /\ result \in Errors \cup {"Ok", None}
    BY <1>14, Zenon
  <2>8. idx \in 1 .. (IF job = None THEN 0 ELSE Len(job.alphas)) + 1
    BY <1>14
  <2>9. pc \in Stages /\ emitted \in BOOLEAN /\ refused \in BOOLEAN
    BY <1>14 DEF Stages
  <2> QED BY <2>2, <2>4, <2>5, <2>6, <2>7, <2>8, <2>9, Zenon DEF SessionTyped
<1>16. StageInv /\ SignedUpToHere
  BY <1>14 DEF StageInv, SignedUpToHere
<1>17. PendingInv
  BY <1>14 DEF PendingInv, NewNode, Empty
<1> QED BY <1>4, <1>10, <1>12, <1>13, <1>15, <1>16, <1>17 DEF SessInv

----------------------------------------------------------------------------
(* The parts of a step.                                                    *)

(* What the invariant says of the call's variables, as plain facts. *)
LEMMA SessionFacts ==
    ASSUME SessInv
    PROVE  /\ state \in State /\ working \in State /\ mempool \in Seq(Tx)
           /\ nodes \in [Nodes -> NodeMemory]
           /\ slate \in Seq(Nodes) /\ Len(slate) \in Nat
           /\ turn \in Nat /\ 1 <= turn /\ turn <= Len(slate) + 1
           /\ idx \in Nat /\ 1 <= idx
           /\ round \in Nat /\ Rounds \in Nat /\ round <= Rounds
           /\ MaxCalls \in Nat /\ MaxMeddling \in Nat /\ MaxRounds \in Nat \ {0}
           /\ job # None =>
                 /\ job \in Jobs /\ job.kind \in {"pczt", "demo"} /\ job.message \in Messages
                 /\ job.alphas \in Seq(Randomizers \cup {None}) /\ Len(job.alphas) \in Nat
                 /\ job.kind = "demo" => job.rounds \in Nat \ {0}
                 /\ idx <= Len(job.alphas) + 1
                 /\ Rounds = IF job.kind = "demo" THEN job.rounds ELSE MaxRounds
                 /\ 1 <= Rounds
<1>1. state \in State /\ working \in State /\ mempool \in Seq(Tx) /\ nodes \in [Nodes -> NodeMemory]
  BY DEF SessInv, SimInv, TypeOK, SessionTyped
<1>2. MaxCalls \in Nat /\ MaxMeddling \in Nat /\ MaxRounds \in Nat \ {0}
  BY SessionAssumption
<1>3. slate \in Seq(Nodes)
  <2>1. <<>> \in Seq(Nodes)
    OBVIOUS
  <2> QED BY <2>1, SessionAssumption, Zenon DEF SessInv, SessionTyped
<1>4. Len(slate) \in Nat
  BY <1>3
<1>5. job \in Jobs \cup {None} /\ turn \in 1 .. Len(slate) + 1 /\ round \in 0 .. Rounds
      /\ idx \in 1 .. (IF job = None THEN 0 ELSE Len(job.alphas)) + 1
  BY DEF SessInv, SessionTyped
<1>6. job # None =>
        /\ job \in Jobs /\ job.kind \in {"pczt", "demo"} /\ job.message \in Messages
        /\ job.alphas \in Seq(Randomizers \cup {None}) /\ Len(job.alphas) \in Nat
        /\ job.kind = "demo" => job.rounds \in Nat \ {0}
  BY <1>5, JobFields
<1>7. /\ job = None => Rounds = 0
      /\ job # None => Rounds = IF job.kind = "demo" THEN job.rounds ELSE MaxRounds
  BY DEF Rounds
<1>8. Rounds \in Nat /\ (job # None => 1 <= Rounds)
  BY <1>2, <1>6, <1>7
<1>9. round \in Nat /\ round <= Rounds
  BY <1>5, <1>8
<1>10. turn \in Nat /\ 1 <= turn /\ turn <= Len(slate) + 1
  BY <1>4, <1>5
<1>11. idx \in Nat /\ 1 <= idx /\ (job # None => idx <= Len(job.alphas) + 1)
  BY <1>5, <1>6
<1> QED BY <1>1, <1>2, <1>3, <1>4, <1>6, <1>7, <1>8, <1>9, <1>10, <1>11

(* The chain's part of the invariant. *)
ChainInv == SimInv /\ HonestSim /\ state.group # None

LEMMA ChainStays ==
    ASSUME SessInv, UNCHANGED simVars
    PROVE  ChainInv' /\ state' = state
<1>1. /\ state' = state /\ working' = working /\ mempool' = mempool /\ log' = log
      /\ in_block' = in_block /\ block_height' = block_height /\ last_block' = last_block
      /\ accepted' = accepted
  BY DEF simVars
<1>2. TypeOK'
  BY <1>1 DEF SessInv, SimInv, TypeOK
<1>3. SimInv'
  BY <1>1, <1>2 DEF SessInv, SimInv
<1>4. HonestSim'
  BY <1>1 DEF SessInv, HonestSim
<1> QED BY <1>1, <1>3, <1>4 DEF SessInv, ChainInv

LEMMA ChainSubmits ==
    ASSUME SessInv, NEW txs \in Seq(Tx), SubmitAll(txs), \A tx \in ToSet(txs) : HonestTx(working, tx)
    PROVE  ChainInv' /\ state' = state
<1>1. SimInv' /\ HonestSim'
  BY SubmitAllInv, SubmitAllHonest DEF SessInv
<1>2. state' = state
  BY DEF SubmitAll
<1> QED BY <1>1, <1>2 DEF SessInv, ChainInv

LEMMA ChainBlocks ==
    ASSUME SessInv, BeginBlock \/ PopTx \/ EndBlock
    PROVE  ChainInv' /\ MovesForward(state, state')
<1>1. SimInv' /\ Progress
  BY BeginBlockInv, PopTxInv, EndBlockInv DEF SessInv
<1>2. HonestSim'
  BY PopTxHonest, BlockEdgeHonest DEF SessInv
<1> QED BY <1>1, <1>2 DEF SessInv, ChainInv, Progress

(* The nodes' part: the chain moves on and the nodes do not. *)
LEMMA PendingForward ==
    ASSUME SessInv, ChainInv', nodes' = nodes, MovesForward(state, state')
    PROVE  PendingInv'
<1>1. state \in State /\ state' \in State
  BY DEF SessInv, ChainInv, SimInv, TypeOK
<1>2. \A r \in Keys(state.requests) :
        r \in Keys(state'.requests) /\ state'.requests[r].message = state.requests[r].message
  BY <1>1, ForwardKeys
<1> QED BY <1>2 DEF SessInv, PendingInv

LEMMA PendingSame ==
    ASSUME SessInv, nodes' = nodes, state' = state
    PROVE  PendingInv'
BY DEF SessInv, PendingInv

(* A node reacts. *)
LEMMA PendingReact ==
    ASSUME SessInv, NEW n \in Nodes, state' = state,
           nodes' = [nodes EXCEPT ![n] = MemoryAfter(state, n, nodes[n])]
    PROVE  PendingInv' /\ nodes' \in [Nodes -> NodeMemory]
<1> DEFINE m == nodes[n]
           after == MemoryAfter(state, n, m)
<1>1. state \in State /\ nodes \in [Nodes -> NodeMemory] /\ m \in NodeMemory /\ n \in Ids
  BY SessionFacts, SessionNodes
<1>2. after \in NodeMemory
  BY <1>1, MemoryAfterTyped
<1>3. \A r \in Uuids : after.pending[r] # None =>
         r \in Committing(state, n, m) \/ after.pending[r] = m.pending[r]
  BY <1>1, PendingEffect
<1>4. /\ Committing(state, n, m) \subseteq after.committed_requests
      /\ m.committed_requests \subseteq after.committed_requests
  BY DEF MemoryAfter, CommittedAfter
<1>5. \A r \in Committing(state, n, m) :
         r \in Keys(state.requests) /\ state.requests[r].message \in Approves[n]
  <2>1. Committing(state, n, m) \subseteq ToCommit(state, n, m)
        /\ ToCommit(state, n, m) \subseteq Keys(state.requests)
    BY <1>1, ReactSets
  <2> QED BY <2>1 DEF ToCommit
<1> HIDE DEF after, m
<1>6. ASSUME NEW r \in Uuids, after.pending[r] # None
      PROVE  /\ r \in Keys(state.requests) /\ state.requests[r].message \in Approves[n]
             /\ r \in after.committed_requests
  <2>1. CASE r \in Committing(state, n, m)
    BY <1>4, <1>5, <2>1
  <2>2. CASE after.pending[r] = m.pending[r]
    BY <1>4, <1>6, <2>2 DEF SessInv, PendingInv, m
  <2> QED BY <1>3, <1>6, <2>1, <2>2
<1>7. nodes'[n] = after /\ \A k \in Nodes : k # n => nodes'[k] = nodes[k]
  BY <1>1 DEF after, m
<1>8. nodes' \in [Nodes -> NodeMemory]
  BY <1>1, <1>2 DEF after, m
<1>9. ASSUME NEW k \in Nodes, NEW r \in Uuids, nodes'[k].pending[r] # None
      PROVE  /\ r \in Keys(state.requests) /\ state.requests[r].message \in Approves[k]
             /\ r \in nodes'[k].committed_requests
  <2>1. CASE k = n
    BY <1>6, <1>7, <1>9, <2>1
  <2>2. CASE k # n
    BY <1>7, <1>9, <2>2 DEF SessInv, PendingInv
  <2> QED BY <2>1, <2>2
<1> QED BY <1>8, <1>9 DEF PendingInv

(* A node is rebuilt. *)
LEMMA PendingRebuild ==
    ASSUME SessInv, NEW n \in Nodes, state' = state,
           nodes' = [nodes EXCEPT ![n] = NewNode(nodes[n].drawn)]
    PROVE  PendingInv' /\ nodes' \in [Nodes -> NodeMemory]
<1>1. nodes \in [Nodes -> NodeMemory] /\ nodes[n].drawn \in Nat
  BY SessionFacts DEF NodeMemory
<1>2. NewNode(nodes[n].drawn) \in NodeMemory
  BY <1>1, NewNodeTyped
<1>3. \A r \in Uuids : NewNode(nodes[n].drawn).pending[r] = None
  BY DEF NewNode, Empty
<1> DEFINE new == NewNode(nodes[n].drawn)
<1>4. nodes'[n] = new /\ \A k \in Nodes : k # n => nodes'[k] = nodes[k]
  BY <1>1
<1>5. nodes' \in [Nodes -> NodeMemory]
  BY <1>1, <1>2
<1> HIDE DEF new
<1>6. \A k \in Nodes : \A r \in Uuids : nodes'[k].pending[r] # None => nodes'[k] = nodes[k]
  BY <1>3, <1>4 DEF new
<1> QED BY <1>5, <1>6 DEF SessInv, PendingInv

----------------------------------------------------------------------------
(* The steps.                                                              *)

(* The owner, between two calls. *)
LEMMA MeddleStep ==
    ASSUME SessInv,
           LeaveTx \/ \E n \in Nodes : ReactOutside(n) \/ Rebuild(n)
    PROVE  SessInv'
<1>1. Meddle
  BY DEF LeaveTx, ReactOutside, Rebuild
<1>2. /\ pc' = pc /\ job' = job /\ slate' = slate /\ idx' = idx /\ request' = request
      /\ round' = round /\ turn' = turn /\ emitted' = emitted /\ refused' = refused
      /\ applied' = applied /\ result' = result /\ calls' = calls
      /\ meddled' = meddled + 1 /\ meddled < MaxMeddling
  BY <1>1 DEF Meddle, sessionVars, Locals
<1>3. meddled' \in 0 .. MaxMeddling
  BY <1>2, SessionFacts DEF SessInv, SessionTyped
<1>4. Rounds' = Rounds /\ StageInv' /\ SignedUpToHere'
  BY <1>2 DEF SessInv, StageInv, SignedUpToHere, Rounds
<1>5. ChainInv' /\ PendingInv' /\ nodes' \in [Nodes -> NodeMemory]
  <2>1. CASE LeaveTx
    <3>1. nodes' = nodes /\ SubmitAll(<<InitGroupTx>>)
      BY <2>1 DEF LeaveTx, Submit
    <3>2. InitGroupTx \in Tx /\ HonestTx(working, InitGroupTx)
      BY GroupTxTyped DEF HonestTx, InitGroupTx
    <3>3. <<InitGroupTx>> \in Seq(Tx) /\ ToSet(<<InitGroupTx>>) = {InitGroupTx}
      BY <3>2 DEF ToSet
    <3>4. \A tx \in ToSet(<<InitGroupTx>>) : HonestTx(working, tx)
      BY <3>2, <3>3, Zenon
    <3>5. ChainInv' /\ state' = state
      BY <3>1, <3>3, <3>4, ChainSubmits
    <3> QED BY <3>1, <3>5, PendingSame, SessionFacts
  <2>2. ASSUME NEW n \in Nodes, ReactOutside(n)
        PROVE  ChainInv' /\ PendingInv' /\ nodes' \in [Nodes -> NodeMemory]
    <3> DEFINE out == Out(state, n, nodes[n])
    <3>1. SubmitAll(out) /\ nodes' = [nodes EXCEPT ![n] = MemoryAfter(state, n, nodes[n])]
      BY <2>2 DEF ReactOutside
    <3>2. /\ state \in State /\ nodes[n] \in NodeMemory /\ n \in Ids /\ n \in DOMAIN Approves
          /\ working = state
      BY <3>1, SessionFacts, SessionNodes DEF SessInv, SimInv, SubmitAll
    <3>3. out \in Seq(Tx) /\ \A tx \in ToSet(out) : HonestTx(working, tx)
      BY <3>2, OutTyped, OutSet
    <3> HIDE DEF out
    <3>4. ChainInv' /\ state' = state
      BY <3>1, <3>3, ChainSubmits
    <3> QED BY <3>1, <3>4, PendingReact
  <2>3. ASSUME NEW n \in Nodes, Rebuild(n)
        PROVE  ChainInv' /\ PendingInv' /\ nodes' \in [Nodes -> NodeMemory]
    <3>1. nodes' = [nodes EXCEPT ![n] = NewNode(nodes[n].drawn)] /\ UNCHANGED simVars
      BY <2>3 DEF Rebuild
    <3>2. ChainInv' /\ state' = state
      BY <3>1, ChainStays
    <3> QED BY <3>1, <3>2, PendingRebuild
  <2> QED BY <2>1, <2>2, <2>3
<1>6. SessionTyped'
  BY <1>2, <1>3, <1>4, <1>5 DEF SessInv, SessionTyped
<1> QED BY <1>4, <1>5, <1>6 DEF SessInv, ChainInv

(* A call begins. *)
LEMMA CallStep ==
    ASSUME SessInv, NEW j \in Jobs, NEW s \in Slates, Call(j, s)
    PROVE  SessInv'
<1>1. /\ pc = "idle" /\ pc' = "action" /\ job' = j /\ slate' = s /\ idx' = 1 /\ applied' = <<>>
      /\ result' = None /\ calls < MaxCalls /\ calls' = calls + 1 /\ nodes' = nodes
      /\ request' = request /\ round' = round /\ turn' = turn /\ emitted' = emitted
      /\ refused' = refused /\ meddled' = meddled /\ UNCHANGED simVars
  BY DEF Call, Locals
<1>2. ChainInv' /\ state' = state
  BY <1>1, ChainStays
<1>3. PendingInv'
  BY <1>1, <1>2, PendingSame
<1>4. turn = 1 /\ round = 0
  BY <1>1 DEF SessInv, StageInv
<1>5. j # None /\ j.alphas \in Seq(Randomizers \cup {None}) /\ Len(j.alphas) \in Nat
      /\ j.kind \in {"pczt", "demo"} /\ (j.kind = "demo" => j.rounds \in Nat \ {0})
  BY JobFields
<1>6. Len(s) \in Nat
  BY SessionAssumption
<1>7. applied' \in Seq(Signature) /\ Len(applied') = 0 /\ DOMAIN applied' = {}
  BY <1>1
<1>8. SessionTyped'
  <2>1. Rounds' \in Nat
    BY <1>1, <1>5, SessionAssumption DEF Rounds
  <2>2. round' \in 0 .. Rounds'
    BY <1>1, <1>4, <2>1
  <2>3. turn' \in 1 .. Len(slate') + 1
    BY <1>1, <1>4, <1>6
  <2>4. idx' \in 1 .. (IF job' = None THEN 0 ELSE Len(job'.alphas)) + 1
    BY <1>1, <1>5
  <2>5. calls' \in 0 .. MaxCalls
    BY <1>1, SessionFacts DEF SessInv, SessionTyped
  <2> QED BY <1>1, <1>7, <2>2, <2>3, <2>4, <2>5 DEF SessInv, SessionTyped, Stages
<1>9. StageInv'
  BY <1>1, <1>4, <1>5 DEF StageInv
<1>10. SignedUpToHere'
  <2>1. result' # "Ok" \/ Len(applied') = Len(job'.alphas)
    BY <1>1, SessionAssumption
  <2> QED BY <1>1, <1>7, <2>1 DEF SignedUpToHere
<1> QED BY <1>2, <1>3, <1>8, <1>9, <1>10 DEF SessInv, ChainInv

(* However a call returns, its variables are left in order. *)
LEMMA ReturnStep ==
    ASSUME SessInv, ChainInv', PendingInv', nodes' \in [Nodes -> NodeMemory],
           pc # "idle", NEW r \in Errors \cup {"Ok"}, Return(r),
           r = "Ok" => idx > Len(job.alphas),
           job' = job, slate' = slate, idx' = idx, applied' = applied,
           calls' = calls, meddled' = meddled
    PROVE  SessInv'
<1>1. /\ pc' = "idle" /\ result' = r /\ request' = None /\ round' = 0 /\ turn' = 1
      /\ emitted' = FALSE /\ refused' = FALSE
  BY DEF Return, EndSession
<1>2. job # None
  BY DEF SessInv, StageInv
<1>3. Rounds' = Rounds /\ Rounds \in Nat /\ Len(slate) \in Nat
  BY SessionFacts DEF Rounds
<1>4. round' \in 0 .. Rounds' /\ turn' \in 1 .. Len(slate') + 1
  BY <1>1, <1>3
<1>5. SessionTyped'
  BY <1>1, <1>4 DEF SessInv, SessionTyped, Stages
<1>6. StageInv'
  BY <1>1, <1>2 DEF StageInv
<1>7. SignedUpToHere'
  <2>1. Len(applied) = idx - 1
    BY <1>2 DEF SessInv, SignedUpToHere
  <2>2. r = "Ok" => idx - 1 = Len(job.alphas)
    BY <1>2, SessionFacts
  <2> QED BY <1>1, <1>2, <2>1, <2>2 DEF SessInv, SignedUpToHere
<1> QED BY <1>5, <1>6, <1>7 DEF SessInv, ChainInv

LEMMA AllSignedStep ==
    ASSUME SessInv, AllSigned
    PROVE  SessInv'
<1>1. /\ pc = "action" /\ idx > Len(job.alphas) /\ Return("Ok") /\ UNCHANGED simVars
      /\ nodes' = nodes /\ job' = job /\ slate' = slate /\ idx' = idx /\ applied' = applied
      /\ calls' = calls /\ meddled' = meddled
  BY DEF AllSigned
<1>2. ChainInv' /\ PendingInv' /\ nodes' \in [Nodes -> NodeMemory]
  BY <1>1, ChainStays, PendingSame, SessionFacts
<1> QED BY <1>1, <1>2, ReturnStep

LEMMA MissingAlphaStep ==
    ASSUME SessInv, MissingAlpha
    PROVE  SessInv'
<1>1. /\ pc = "action" /\ Return("ActionMissingAlpha") /\ UNCHANGED simVars
      /\ nodes' = nodes /\ job' = job /\ slate' = slate /\ idx' = idx /\ applied' = applied
      /\ calls' = calls /\ meddled' = meddled
  BY DEF MissingAlpha
<1>2. ChainInv' /\ PendingInv' /\ nodes' \in [Nodes -> NodeMemory]
  BY <1>1, ChainStays, PendingSame, SessionFacts
<1>3. "ActionMissingAlpha" \in Errors
  BY DEF Errors
<1> QED BY <1>1, <1>2, <1>3, ReturnStep

(* The request of an action. *)
AskTx(r) == [type |-> "SubmitRequest", request_id |-> r, message |-> job.message,
             randomizer |-> job.alphas[idx]]

LEMMA AskTyped ==
    ASSUME SessInv, NEW r \in Uuids, Ask(r)
    PROVE  AskTx(r) \in Tx /\ <<AskTx(r)>> \in Seq(Tx) /\ ToSet(<<AskTx(r)>>) = {AskTx(r)}
           /\ HonestTx(working, AskTx(r))
<1>1. pc = "action" /\ idx <= Len(job.alphas) /\ job.alphas[idx] # None
  BY DEF Ask
<1>2. job # None
  BY <1>1 DEF SessInv, StageInv
<1>3. job.message \in Messages /\ job.alphas[idx] \in Randomizers
  BY <1>1, <1>2, SessionFacts
<1>4. AskTx(r) \in Tx
  BY <1>3 DEF AskTx, Tx
<1>5. HonestTx(working, AskTx(r))
  BY DEF AskTx, HonestTx
<1> QED BY <1>4, <1>5 DEF ToSet

LEMMA AskStep ==
    ASSUME SessInv, NEW r \in Uuids, Ask(r)
    PROVE  SessInv'
<1>1. /\ pc = "action" /\ idx <= Len(job.alphas) /\ SubmitAll(<<AskTx(r)>>)
      /\ pc' = "opening" /\ request' = r /\ round' = 0 /\ refused' = FALSE /\ nodes' = nodes
      /\ job' = job /\ slate' = slate /\ idx' = idx /\ turn' = turn /\ emitted' = emitted
      /\ applied' = applied /\ result' = result /\ calls' = calls /\ meddled' = meddled
  BY DEF Ask, Submit, AskTx
<1>2. <<AskTx(r)>> \in Seq(Tx) /\ \A tx \in ToSet(<<AskTx(r)>>) : HonestTx(working, tx)
  BY AskTyped, Zenon
<1>3. ChainInv' /\ state' = state
  BY <1>1, <1>2, ChainSubmits
<1>4. PendingInv'
  BY <1>1, <1>3, PendingSame
<1>5. Rounds' = Rounds /\ Rounds \in Nat
  BY <1>1, SessionFacts DEF Rounds
<1>6. SessionTyped'
  <2>1. round' \in 0 .. Rounds'
    BY <1>1, <1>5
  <2> QED BY <1>1, <2>1 DEF SessInv, SessionTyped, Stages
<1>7. StageInv' /\ SignedUpToHere'
  BY <1>1 DEF SessInv, StageInv, SignedUpToHere
<1> QED BY <1>3, <1>4, <1>6, <1>7 DEF SessInv, ChainInv

LEMMA BlockStepStep ==
    ASSUME SessInv, BlockStep
    PROVE  SessInv'
<1>1. /\ BeginBlock \/ PopTx
      /\ refused' = (refused \/ (pc = "opening" /\ in_block /\ ~Accepts(working, Head(mempool))))
      /\ nodes' = nodes /\ pc' = pc /\ job' = job /\ slate' = slate /\ idx' = idx
      /\ request' = request /\ round' = round /\ turn' = turn /\ emitted' = emitted
      /\ applied' = applied /\ result' = result /\ calls' = calls /\ meddled' = meddled
  BY DEF BlockStep
<1>2. ChainInv' /\ PendingInv'
  BY <1>1, ChainBlocks, PendingForward
<1>3. Rounds' = Rounds
  BY <1>1 DEF Rounds
<1>4. refused' \in BOOLEAN
  BY <1>1 DEF SessInv, SessionTyped
<1>5. SessionTyped'
  BY <1>1, <1>3, <1>4 DEF SessInv, SessionTyped
<1>6. StageInv' /\ SignedUpToHere'
  BY <1>1 DEF SessInv, StageInv, SignedUpToHere
<1> QED BY <1>2, <1>5, <1>6 DEF SessInv, ChainInv

(* A round begins: the first one, or the next. *)
LEMMA RoundStep ==
    ASSUME SessInv, ChainInv', PendingInv', nodes' = nodes,
           pc \in {"opening", "closing"}, round < Rounds, BeginRound,
           job' = job, slate' = slate, idx' = idx, applied' = applied,
           request' = request, refused' = refused, result' = result,
           calls' = calls, meddled' = meddled
    PROVE  SessInv'
<1>1. pc' = "react" /\ round' = round + 1 /\ turn' = 1 /\ emitted' = FALSE
  BY DEF BeginRound
<1>2. Rounds' = Rounds /\ Rounds \in Nat /\ round \in Nat /\ Len(slate) \in Nat
  BY SessionFacts DEF Rounds
<1>3. round' \in 0 .. Rounds' /\ turn' \in 1 .. Len(slate') + 1
  BY <1>1, <1>2
<1>4. SessionTyped'
  BY <1>1, <1>3 DEF SessInv, SessionTyped, Stages
<1>5. StageInv' /\ SignedUpToHere'
  BY <1>1 DEF SessInv, StageInv, SignedUpToHere
<1> QED BY <1>4, <1>5 DEF SessInv, ChainInv

LEMMA OpenedStep ==
    ASSUME SessInv, Opened
    PROVE  SessInv'
<1>1. /\ pc = "opening" /\ EndBlock /\ nodes' = nodes /\ job' = job /\ slate' = slate
      /\ idx' = idx /\ applied' = applied /\ calls' = calls /\ meddled' = meddled
  BY DEF Opened
<1>2. ChainInv' /\ PendingInv' /\ nodes' \in [Nodes -> NodeMemory]
  BY <1>1, ChainBlocks, PendingForward, SessionFacts
<1>3. CASE Return("SubmitRequestRejected")
  <2>1. "SubmitRequestRejected" \in Errors
    BY DEF Errors
  <2> QED BY <1>1, <1>2, <1>3, <2>1, ReturnStep
<1>4. CASE BeginRound /\ UNCHANGED <<request, result, refused>>
  <2>1. round = 0 /\ job # None
    BY <1>1 DEF SessInv, StageInv
  <2>2. round < Rounds
    BY <2>1, SessionFacts
  <2> QED BY <1>1, <1>2, <1>4, <2>2, RoundStep
<1> QED BY <1>3, <1>4 DEF Opened

LEMMA ReactInTurnStep ==
    ASSUME SessInv, ReactInTurn
    PROVE  SessInv'
<1> DEFINE n == slate[turn]
           out == Out(state, n, nodes[n])
<1>1. /\ pc = "react" /\ turn <= Len(slate) /\ SubmitAll(out)
      /\ nodes' = [nodes EXCEPT ![n] = MemoryAfter(state, n, nodes[n])]
      /\ emitted' = (emitted \/ out # <<>>) /\ turn' = turn + 1
      /\ pc' = pc /\ job' = job /\ slate' = slate /\ idx' = idx /\ request' = request
      /\ round' = round /\ refused' = refused /\ applied' = applied /\ result' = result
      /\ calls' = calls /\ meddled' = meddled
  BY DEF ReactInTurn
<1>2. n \in Nodes
  BY <1>1, SessionFacts
<1>3. /\ state \in State /\ nodes[n] \in NodeMemory /\ n \in Ids /\ n \in DOMAIN Approves
      /\ working = state
  BY <1>1, <1>2, SessionFacts, SessionNodes DEF SessInv, SimInv, SubmitAll
<1>4. out \in Seq(Tx) /\ \A tx \in ToSet(out) : HonestTx(working, tx)
  BY <1>3, OutTyped, OutSet
<1> HIDE DEF n, out
<1>5. ChainInv' /\ state' = state
  BY <1>1, <1>4, ChainSubmits
<1>6. PendingInv' /\ nodes' \in [Nodes -> NodeMemory]
  BY <1>1, <1>2, <1>5, PendingReact
<1>7. Rounds' = Rounds
  BY <1>1 DEF Rounds
<1>8. turn' \in 1 .. Len(slate') + 1
  BY <1>1, SessionFacts
<1>9. emitted' \in BOOLEAN
  BY <1>1 DEF SessInv, SessionTyped
<1>10. SessionTyped'
  BY <1>1, <1>6, <1>7, <1>8, <1>9 DEF SessInv, SessionTyped
<1>11. StageInv' /\ SignedUpToHere'
  BY <1>1 DEF SessInv, StageInv, SignedUpToHere
<1> QED BY <1>5, <1>6, <1>10, <1>11 DEF SessInv, ChainInv

LEMMA ReactFailsStep ==
    ASSUME SessInv, ReactFails
    PROVE  SessInv'
<1> DEFINE n == slate[turn]
<1>1. /\ pc = "react" /\ turn <= Len(slate) /\ UNCHANGED simVars
      /\ nodes' = [nodes EXCEPT ![n] = MemoryAfter(state, n, nodes[n])]
      /\ Return("ValidatorReact")
      /\ job' = job /\ slate' = slate /\ idx' = idx /\ applied' = applied
      /\ calls' = calls /\ meddled' = meddled
  BY DEF ReactFails
<1>2. n \in Nodes
  BY <1>1, SessionFacts
<1> HIDE DEF n
<1>3. ChainInv' /\ state' = state
  BY <1>1, ChainStays
<1>4. PendingInv' /\ nodes' \in [Nodes -> NodeMemory]
  BY <1>1, <1>2, <1>3, PendingReact
<1>5. "ValidatorReact" \in Errors
  BY DEF Errors
<1> QED BY <1>1, <1>3, <1>4, <1>5, ReturnStep

LEMMA AllReactedStep ==
    ASSUME SessInv, AllReacted
    PROVE  SessInv'
<1>1. /\ pc = "react" /\ pc' = "closing" /\ UNCHANGED simVars /\ nodes' = nodes
      /\ job' = job /\ slate' = slate /\ idx' = idx /\ request' = request /\ round' = round
      /\ turn' = turn /\ emitted' = emitted /\ refused' = refused
      /\ applied' = applied /\ result' = result /\ calls' = calls /\ meddled' = meddled
  BY DEF AllReacted, Locals
<1>2. ChainInv' /\ PendingInv'
  BY <1>1, ChainStays, PendingSame
<1>3. Rounds' = Rounds
  BY <1>1 DEF Rounds
<1>4. SessionTyped'
  BY <1>1, <1>3 DEF SessInv, SessionTyped, Stages
<1>5. StageInv' /\ SignedUpToHere'
  BY <1>1 DEF SessInv, StageInv, SignedUpToHere
<1> QED BY <1>2, <1>4, <1>5 DEF SessInv, ChainInv

(* A verdict to go on is given before the last round only, and one to      *)
(* apply only on a signature that Orchard accepts.                         *)
LEMMA VerdictFacts ==
    ASSUME SessInv, job # None,
           NEW st, st.tag \in {"AwaitingCommitments", "Signing", "Completed", "Failed"}
    PROVE  /\ Verdict(st) = "Again" => round < Rounds
           /\ Verdict(st) = "Applied" => st.tag = "Completed" /\ apply_signature_ok(st.signature)
<1>1. /\ job.kind \in {"pczt", "demo"} /\ round \in Nat /\ round <= Rounds /\ MaxRounds \in Nat
      /\ job.kind = "demo" => job.rounds \in Nat /\ Rounds = job.rounds
      /\ job.kind = "pczt" => Rounds = MaxRounds
  BY SessionFacts
<1>2. CASE job.kind = "demo"
  <2>1. CASE round = job.rounds
    BY <1>1, <1>2, <2>1 DEF Verdict
  <2>2. CASE round < job.rounds
    BY <1>1, <1>2, <2>2 DEF Verdict
  <2> QED BY <1>1, <1>2, <2>1, <2>2
<1>3. CASE job.kind = "pczt"
  <2>1. CASE st.tag = "Completed"
    BY <1>1, <1>3, <2>1 DEF Verdict
  <2>2. CASE st.tag = "Failed"
    BY <1>1, <1>3, <2>2 DEF Verdict
  <2>3. CASE st.tag \in {"AwaitingCommitments", "Signing"}
    <3>1. Verdict(st) = IF GivesUp THEN "StuckBeforeCompletion" ELSE "Again"
      BY <1>1, <1>3, <2>3 DEF Verdict
    <3> QED BY <1>1, <1>3, <2>3, <3>1 DEF GivesUp
  <2> QED BY <2>1, <2>2, <2>3
<1> QED BY <1>1, <1>2, <1>3

LEMMA ClosedStep ==
    ASSUME SessInv, Closed
    PROVE  SessInv'
<1> DEFINE entry == EntryAfter(working)
           verdict == IF entry = None THEN "RequestMissing" ELSE Verdict(entry.status)
<1>1. /\ pc = "closing" /\ EndBlock /\ nodes' = nodes /\ job' = job /\ slate' = slate
      /\ calls' = calls /\ meddled' = meddled
  BY DEF Closed
<1>2. ChainInv' /\ PendingInv' /\ nodes' \in [Nodes -> NodeMemory]
  BY <1>1, ChainBlocks, PendingForward, SessionFacts
<1>3. job # None /\ request \in Uuids /\ idx <= Len(job.alphas) /\ result = None
  BY <1>1 DEF SessInv, StageInv
<1>4. entry # None => /\ entry \in RequestEntry /\ entry.status \in RequestStatus
                      /\ entry.status.tag \in {"AwaitingCommitments", "Signing", "Completed", "Failed"}
  <2>1. working.requests \in Map(Uuids, RequestEntry)
    BY SessionFacts, StateParts
  <2>2. entry # None => entry \in RequestEntry
    BY <1>3, <2>1 DEF EntryAfter, Map
  <2> HIDE DEF entry
  <2>3. entry \in RequestEntry => entry.status \in RequestStatus
    BY DEF RequestEntry
  <2>4. \A st \in RequestStatus :
           st.tag \in {"AwaitingCommitments", "Signing", "Completed", "Failed"}
    BY DEF RequestStatus
  <2> QED BY <2>2, <2>3, <2>4
<1>5. CASE verdict = "Applied" /\ applied' = Append(applied, entry.status.signature)
           /\ idx' = idx + 1 /\ pc' = "action" /\ EndSession /\ UNCHANGED result
  <2> DEFINE sig == entry.status.signature
  <2>1. entry # None /\ Verdict(entry.status) = "Applied"
    BY <1>5
  <2>2. entry.status.tag = "Completed" /\ apply_signature_ok(sig)
    BY <1>3, <1>4, <2>1, VerdictFacts
  <2>3. sig \in Signature
    BY <1>4, <2>1, <2>2, StatusFields
  <2> HIDE DEF entry, sig
  <2>4. /\ request' = None /\ round' = 0 /\ turn' = 1 /\ emitted' = FALSE /\ refused' = FALSE
        /\ result' = None /\ pc' = "action" /\ idx' = idx + 1 /\ applied' = Append(applied, sig)
    BY <1>3, <1>5 DEF EndSession, sig
  <2>5. Rounds' = Rounds /\ Rounds \in Nat /\ Len(slate) \in Nat
    BY <1>1, SessionFacts DEF Rounds
  <2>6. round' \in 0 .. Rounds' /\ turn' \in 1 .. Len(slate') + 1
    BY <1>1, <2>4, <2>5
  <2>7. idx' \in 1 .. (IF job' = None THEN 0 ELSE Len(job'.alphas)) + 1
    BY <1>1, <1>3, <2>4, SessionFacts, SMTT(30)
  <2>8. applied \in Seq(Signature)
    BY DEF SessInv, SessionTyped
  <2>9. applied' \in Seq(Signature)
    BY <2>3, <2>4, <2>8
  <2>10. SessionTyped'
    BY <1>1, <1>2, <2>4, <2>6, <2>7, <2>9 DEF SessInv, SessionTyped, Stages
  <2>11. StageInv'
    BY <1>1, <1>3, <2>4 DEF StageInv
  <2>12. SignedUpToHere'
    <3> DEFINE right(i) == [message |-> job.message, randomizer |-> job.alphas[i], pkp |-> GroupKey]
    <3>1. Len(applied) = idx - 1 /\ \A i \in DOMAIN applied : applied[i] = right(i)
      BY <1>3 DEF SessInv, SignedUpToHere
    <3>2. sig = right(idx)
      BY <2>2 DEF apply_signature_ok
    <3> HIDE DEF right
    <3>3. /\ Len(applied') = Len(applied) + 1 /\ Len(applied) \in Nat
          /\ DOMAIN applied' = 1 .. Len(applied) + 1 /\ DOMAIN applied = 1 .. Len(applied)
          /\ \A i \in 1 .. Len(applied) : applied'[i] = applied[i]
          /\ applied'[Len(applied) + 1] = sig
      BY <2>3, <2>4, <2>8
    <3>4. Len(applied') = idx' - 1 /\ Len(applied) + 1 = idx
      BY <2>4, <3>1, <3>3, SessionFacts, SMTT(30)
    <3>5. \A i \in DOMAIN applied' : applied'[i] = right(i)
      BY <3>1, <3>2, <3>3, <3>4
    <3>6. result' # "Ok"
      BY <2>4, SessionAssumption
    <3> QED BY <1>1, <3>4, <3>5, <3>6 DEF SignedUpToHere, right
  <2> QED BY <1>2, <2>10, <2>11, <2>12 DEF SessInv, ChainInv
<1>6. CASE verdict = "Again" /\ BeginRound /\ UNCHANGED <<request, refused, applied, idx, result>>
  <2>1. entry # None /\ Verdict(entry.status) = "Again"
    BY <1>6
  <2>2. round < Rounds
    BY <1>3, <1>4, <2>1, VerdictFacts
  <2> QED BY <1>1, <1>2, <1>6, <2>2, RoundStep
<1>7. CASE verdict \in Errors /\ Return(verdict) /\ UNCHANGED <<applied, idx>>
  <2>1. verdict # "Ok"
    BY <1>7 DEF Errors
  <2> HIDE DEF verdict
  <2> QED BY <1>1, <1>2, <1>7, <2>1, ReturnStep
<1> QED BY <1>5, <1>6, <1>7 DEF Closed

(* The call's next step, whatever the stage. *)
LEMMA SessionNext == SessInv /\ [Next]_vars => SessInv'
<1> SUFFICES ASSUME SessInv, [Next]_vars PROVE SessInv'
  OBVIOUS
<1>1. CASE \E j \in Jobs, s \in Slates : Call(j, s)
  BY <1>1, CallStep
<1>2. CASE Step
  BY <1>2, AllSignedStep, MissingAlphaStep, AskStep, BlockStepStep, OpenedStep, ReactInTurnStep,
     ReactFailsStep, AllReactedStep, ClosedStep DEF Step
<1>3. CASE LeaveTx \/ \E n \in Nodes : ReactOutside(n) \/ Rebuild(n)
  BY <1>3, MeddleStep
<1>4. CASE UNCHANGED vars
  <2>1. /\ UNCHANGED simVars /\ nodes' = nodes /\ pc' = pc /\ job' = job /\ slate' = slate
        /\ idx' = idx /\ request' = request /\ round' = round /\ turn' = turn
        /\ emitted' = emitted /\ refused' = refused /\ applied' = applied /\ result' = result
        /\ calls' = calls /\ meddled' = meddled
    BY <1>4 DEF vars, sessionVars, Locals
  <2>2. ChainInv' /\ PendingInv'
    BY <2>1, ChainStays, PendingSame
  <2>3. Rounds' = Rounds
    BY <2>1 DEF Rounds
  <2>4. SessionTyped'
    BY <2>1, <2>3 DEF SessInv, SessionTyped
  <2>5. StageInv' /\ SignedUpToHere'
    BY <2>1 DEF SessInv, StageInv, SignedUpToHere
  <2> QED BY <2>2, <2>4, <2>5 DEF SessInv, ChainInv
<1> QED BY <1>1, <1>2, <1>3, <1>4 DEF Next

(* The inductive invariant holds. *)
THEOREM SessionInvariant == Spec => []SessInv
BY SessionInit, SessionNext, PTL DEF Spec

----------------------------------------------------------------------------
(* The theorems.                                                           *)

(* The session's variables keep their types; in particular no request is   *)
(* given more rounds than the driver's bound or the demo's number.         *)
THEOREM SessionTypes == Spec => []SessionTypeOK
<1>1. SessInv => SessionTypeOK
  BY DEF SessInv, SimInv, SessionTyped, SessionTypeOK
<1> QED BY <1>1, SessionInvariant, PTL

(* Whatever ends a call of sign_pczt_orchard_bundle or of the demo, the    *)
(* actions before the one being signed, and no other, carry a signature of *)
(* the sighash under their own alpha, and Ok means all of them.            *)
THEOREM SessionSignedUpToHere == Spec => []SignedUpToHere
<1>1. SessInv => SignedUpToHere
  BY DEF SessInv
<1> QED BY <1>1, SessionInvariant, PTL

(* What an escrow node approves: a release that its registry's terms call  *)
(* for.                                                                    *)
LEMMA EscrowApproves ==
    ASSUME NEW policy, NEW m, policy.kind = "Escrow", approve(policy, m) = "Ok"
    PROVE  /\ m.kind = "release" /\ m.escrow_id \in DOMAIN policy.escrows
           /\ m.intent.payment.amount = policy.escrows[m.escrow_id].amount
           /\ m.intent.payment.to = policy.escrows[m.escrow_id].payee
           /\ verify(policy.verifier, policy.escrows[m.escrow_id], m.intent.witness)
           /\ policy.verifier = "HashPreimage" =>
                 \A h : oracle_verdict(policy.escrows[m.escrow_id], m, h) = "Ok"
<1> DEFINE terms == policy.escrows[m.escrow_id]
<1>1. m.kind = "release" /\ m.escrow_id \in DOMAIN policy.escrows
      /\ validate_settlement(terms, m.intent, policy.verifier) = "Ok"
  BY DEF approve, IsProposal
<1> HIDE DEF terms
<1>2. /\ m.intent.payment.amount = terms.amount /\ m.intent.payment.to = terms.payee
      /\ verify(policy.verifier, terms, m.intent.witness)
  BY <1>1 DEF validate_settlement
<1>3. policy.verifier = "HashPreimage" => \A h : oracle_verdict(terms, m, h) = "Ok"
  BY <1>1 DEF oracle_verdict
<1> QED BY <1>1, <1>2, <1>3 DEF terms

(* A release that has been signed moves what the terms in the registry of  *)
(* every escrow node among its signers say, to whom they say, and such a   *)
(* node takes part in nothing but releases: EscrowPolicy::approve holds    *)
(* through commitments left over from other calls, rebuilt nodes and       *)
(* transactions of earlier sessions.                                       *)
THEOREM SessionEscrowHonoured == Spec => []EscrowHonoured
<1>1. SessInv => EscrowHonoured
  <2> SUFFICES ASSUME SessInv, NEW r \in Keys(state.requests),
                      state.requests[r].status.tag = "Completed",
                      NEW n \in state.requests[r].status.participants,
                      Policies[n].kind = "Escrow"
               PROVE  LET m == state.requests[r].message
                      IN  /\ m.kind = "release"
                          /\ m.escrow_id \in DOMAIN Policies[n].escrows
                          /\ LET terms == Policies[n].escrows[m.escrow_id]
                             IN  /\ m.intent.payment.amount = terms.amount
                                 /\ m.intent.payment.to = terms.payee
                                 /\ Policies[n].verifier = "HashPreimage" =>
                                       terms.condition = digest(m.intent.witness)
    BY DEF EscrowHonoured
  <2>1. n \in Approving(state.requests[r].message)
    BY DEF SessInv, HonestSim, HonestState, HonestEntry
  <2>2. approve(Policies[n], state.requests[r].message) = "Ok"
    BY <2>1, SessionNodes DEF Approving
  <2> QED BY <2>2, EscrowApproves DEF verify
<1> QED BY <1>1, SessionInvariant, PTL

(* A settlement the oracle command refuses at every height is one an       *)
(* escrow node with the same terms has no nonces for and takes no part in. *)
THEOREM SessionOracleRefusalHolds == Spec => []OracleRefusalHolds
<1>1. SessInv => OracleRefusalHolds
  <2> SUFFICES ASSUME SessInv, NEW r \in Keys(state.requests), NEW n \in Nodes,
                      Concerned(n, state.requests[r].message),
                      NEW h, OracleSays(n, state.requests[r].message, h) # "Ok"
               PROVE  /\ nodes[n].pending[r] = None
                      /\ state.requests[r].status.tag = "AwaitingCommitments" =>
                            state.requests[r].status.commitments[n] = None
                      /\ state.requests[r].status.tag \in {"Signing", "Completed"} =>
                            n \notin state.requests[r].status.participants
    BY DEF OracleRefusalHolds
  <2>1. state.requests[r].message \notin Approves[n]
    BY EscrowApproves, SessionNodes DEF Concerned, OracleSays
  <2>2. r \in Uuids /\ state.requests[r] \in RequestEntry
    BY SessionFacts, StateParts
  <2>3. nodes[n].pending[r] = None
    BY <2>1, <2>2 DEF SessInv, PendingInv
  <2>4. HonestEntry(state.requests[r]) /\ n \notin Approving(state.requests[r].message)
    BY <2>1 DEF SessInv, HonestSim, HonestState, Approving
  <2>5. ASSUME state.requests[r].status.tag = "AwaitingCommitments"
        PROVE  state.requests[r].status.commitments[n] = None
    <3>1. state.requests[r].status.commitments \in Map(Ids, Draw)
      BY <2>2, <2>5, StatusFields DEF RequestEntry
    <3>2. n \notin Keys(state.requests[r].status.commitments)
      BY <2>4, <2>5 DEF HonestEntry
    <3> QED BY <3>1, <3>2, SessionNodes DEF Keys, Map
  <2> QED BY <2>3, <2>4, <2>5 DEF HonestEntry
<1> QED BY <1>1, SessionInvariant, PTL

----------------------------------------------------------------------------
(* An error of react clears its cause.                                     *)

(* A node that remembers what it holds nonces for fails on nonces that do  *)
(* not fit, and on nothing else.                                           *)
Remembers(m) == \A r \in Uuids : m.pending[r] # None => r \in m.committed_requests

LEMMA FailingIs ==
    ASSUME NEW s \in State, NEW n, NEW m, Remembers(m)
    PROVE  Failing(s, n, m) = IncorrectCommitment(s, n, m)
<1>1. ASSUME NEW r \in SessionInUse(s, n, m) PROVE FALSE
  <2>1. r \in ToCommit(s, n, m) /\ m.pending[r] # None /\ r \notin m.committed_requests
    BY DEF SessionInUse, ToCommit
  <2>2. r \in Uuids
    BY <2>1, ReactSets, StateParts
  <2> QED BY <2>1, <2>2 DEF Remembers
<1> QED BY <1>1 DEF Failing

(* A call that fails removes the nonces of the request it fails on, and    *)
(* makes it fail on no other.                                              *)
LEMMA FailureShrinks ==
    ASSUME NEW s \in State, NEW n, NEW m \in NodeMemory, Remembers(m),
           Remembers(MemoryAfter(s, n, m)), Failing(s, n, m) # {}
    PROVE  Cardinality(Failing(s, n, MemoryAfter(s, n, m))) < Cardinality(Failing(s, n, m))
<1> DEFINE after == MemoryAfter(s, n, m)
           F == Failing(s, n, m)
           G == Failing(s, n, after)
<1>1. F = IncorrectCommitment(s, n, m) /\ G = IncorrectCommitment(s, n, after)
  BY FailingIs
<1>2. /\ F \subseteq ToShare(s, n, m) /\ F \subseteq Keys(s.requests)
      /\ G \subseteq ToShare(s, n, after) /\ G \subseteq Keys(s.requests)
  BY <1>1, ReactSets DEF IncorrectCommitment
<1>3. F \subseteq Nat /\ IsFiniteSet(F) /\ Cardinality(F) \in Nat
  BY <1>2, RequestsFinite
<1>4. PICK f \in F : \A g \in F : f <= g
  <2>1. PICK f \in F : \A g \in SetLessThan(f, OpToRel(<, Nat), Nat) : g \notin F
    BY <1>3, WFMin, NatLessThanWellFounded DEF SetLessThan
  <2>2. \A g \in F : ~(g < f)
    BY <1>3, <2>1 DEF SetLessThan, OpToRel
  <2>3. \A g \in F : f <= g
    BY <1>3, <2>2
  <2> QED BY <2>3
<1>5. f \in Reached(s, n, m)
  BY <1>2, <1>4 DEF Reached
<1>6. ASSUME NEW r \in G PROVE r \in F /\ r # f
  <2>1. r \in Uuids /\ r \in ToShare(s, n, after) /\ r \in Keys(s.requests)
    BY <1>2, StateParts
  <2>2. /\ s.requests[r].status.tag = "Signing" /\ n \in s.requests[r].status.participants
        /\ n \notin Keys(s.requests[r].status.shares)
        /\ r \notin after.shared_requests /\ after.pending[r] # None
        /\ after.pending[r] # s.requests[r].status.signing_package.commitments[n]
    BY <1>1, <1>6 DEF IncorrectCommitment, ToShare, InStatus
  <2>3. r \notin Committing(s, n, m)
    BY <2>2, ReactSets
  <2>4. after.pending[r] = m.pending[r] /\ r \notin ToShare(s, n, m) \cap Reached(s, n, m)
    BY <2>1, <2>2, <2>3, PendingEffect
  <2>5. r \notin m.shared_requests
    BY <2>2 DEF MemoryAfter, SharedAfter
  <2> HIDE DEF after
  <2>6. r \in ToShare(s, n, m)
    BY <2>1, <2>2, <2>4, <2>5 DEF ToShare, InStatus
  <2>7. r \in F
    BY <1>1, <2>2, <2>4, <2>6 DEF IncorrectCommitment
  <2> QED BY <1>5, <2>4, <2>6, <2>7
<1> HIDE DEF F, G, after
<1>7. G \in SUBSET F /\ f \in F /\ f \notin G
  BY <1>4, <1>6
<1>8. /\ IsFiniteSet(G) /\ Cardinality(G) <= Cardinality(F)
      /\ (Cardinality(F) = Cardinality(G) => F = G)
  BY <1>3, <1>7, FS_Subset
<1>9. Cardinality(G) \in Nat /\ F # G
  BY <1>7, <1>8, FS_CardinalityType
<1>10. Cardinality(G) < Cardinality(F)
  BY <1>3, <1>8, <1>9
<1> QED BY <1>10 DEF F, G, after

(* react on a node that has just been built does not fail. *)
LEMMA NewNodeNoFailure ==
    ASSUME NEW s \in State, NEW n, NEW k
    PROVE  Failing(s, n, NewNode(k)) = {}
<1>1. \A r \in Uuids : NewNode(k).pending[r] = None
  BY DEF NewNode, Empty
<1>2. ToCommit(s, n, NewNode(k)) \subseteq Uuids /\ ToShare(s, n, NewNode(k)) \subseteq Uuids
  BY ReactSets, StateParts
<1> QED BY <1>1, <1>2 DEF Failing, SessionInUse, IncorrectCommitment, ToShare

(* When react fails, or a node that would fail is rebuilt, the node has    *)
(* fewer requests left to fail on than before: a call that is repeated     *)
(* gets past the error in the end.                                         *)
THEOREM SessionReactErrorIsTransient == Spec => ReactErrorIsTransient
<1> DEFINE Shrinks ==
      \A n \in Nodes : Failing(state, n, nodes[n]) # {} /\ nodes'[n] # nodes[n] =>
          Cardinality(Failing(state, n, nodes'[n])) < Cardinality(Failing(state, n, nodes[n]))
<1>1. SessInv /\ SessInv' /\ [Next]_vars => [Shrinks]_vars
  <2> SUFFICES ASSUME SessInv, SessInv', Next, NEW n \in Nodes,
                      Failing(state, n, nodes[n]) # {}, nodes'[n] # nodes[n]
               PROVE  Cardinality(Failing(state, n, nodes'[n]))
                        < Cardinality(Failing(state, n, nodes[n]))
    OBVIOUS
  <2>1. state \in State /\ nodes \in [Nodes -> NodeMemory] /\ slate \in Seq(Nodes)
        /\ turn \in Nat /\ 1 <= turn
    BY SessionFacts
  <2>2. Remembers(nodes[n]) /\ Remembers(nodes'[n])
    BY DEF SessInv, PendingInv, Remembers
  <2>3. \/ \E k \in Nodes : ReactOutside(k) \/ Rebuild(k)
        \/ ReactInTurn \/ ReactFails
    BY DEF Next, Step, Call, AllSigned, MissingAlpha, Ask, BlockStep, Opened, AllReacted, Closed,
           LeaveTx
  <2>4. ASSUME NEW k \in Nodes, ReactOutside(k)
        PROVE  Cardinality(Failing(state, n, nodes'[n])) < Cardinality(Failing(state, n, nodes[n]))
    <3>1. nodes' = [nodes EXCEPT ![k] = MemoryAfter(state, k, nodes[k])]
      BY <2>4 DEF ReactOutside
    <3>2. nodes'[n] = MemoryAfter(state, n, nodes[n]) /\ nodes[n] \in NodeMemory
      BY <2>1, <3>1
    <3> QED BY <2>1, <2>2, <3>2, FailureShrinks
  <2>5. ASSUME ReactInTurn PROVE FALSE
    <3>1. /\ Failing(state, slate[turn], nodes[slate[turn]]) = {} /\ turn <= Len(slate)
          /\ nodes' = [nodes EXCEPT ![slate[turn]] =
                          MemoryAfter(state, slate[turn], nodes[slate[turn]])]
      BY <2>5 DEF ReactInTurn
    <3>2. slate[turn] \in Nodes
      BY <2>1, <3>1
    <3> QED BY <2>1, <3>1, <3>2
  <2>6. CASE ReactFails
    <3>1. /\ turn <= Len(slate)
          /\ nodes' = [nodes EXCEPT ![slate[turn]] =
                          MemoryAfter(state, slate[turn], nodes[slate[turn]])]
      BY <2>6 DEF ReactFails
    <3>2. slate[turn] \in Nodes
      BY <2>1, <3>1
    <3>3. nodes'[n] = MemoryAfter(state, n, nodes[n]) /\ nodes[n] \in NodeMemory
      BY <2>1, <3>1, <3>2
    <3> QED BY <2>1, <2>2, <3>3, FailureShrinks
  <2>7. CASE \E k \in Nodes : Rebuild(k)
    <3>1. PICK k \in Nodes : nodes' = [nodes EXCEPT ![k] = NewNode(nodes[k].drawn)]
      BY <2>7 DEF Rebuild
    <3>2. nodes'[n] = NewNode(nodes[n].drawn)
      BY <2>1, <3>1
    <3>3. Failing(state, n, nodes'[n]) = {}
      BY <2>1, <3>2, NewNodeNoFailure
    <3> DEFINE F == Failing(state, n, nodes[n])
    <3>4. F \subseteq Keys(state.requests)
      BY <2>1, ReactSets DEF Failing, SessionInUse, IncorrectCommitment
    <3>5. IsFiniteSet(F) /\ Cardinality(F) \in Nat
      BY <2>1, <3>4, RequestsFinite
    <3>6. Cardinality(F) # 0 /\ Cardinality({}) = 0
      BY <3>5, FS_EmptySet
    <3> HIDE DEF F
    <3>7. Cardinality({}) < Cardinality(F)
      BY <3>5, <3>6
    <3> QED BY <3>3, <3>7 DEF F
  <2> QED BY <2>3, <2>4, <2>5, <2>6, <2>7
<1>2. [][Shrinks]_vars <=> ReactErrorIsTransient
  BY DEF ReactErrorIsTransient
<1> QED BY <1>1, <1>2, SessionInvariant, PTL DEF Spec

----------------------------------------------------------------------------
(* Two rounds are enough: the invariant.                                   *)

(* A transaction of v about the call's request is in the mempool. *)
Sent(type, v) ==
    \E tx \in ToSet(mempool) : tx.type = type /\ tx.request_id = request /\ tx.validator = v

(* v's commitment has been taken into the status. *)
Counted(st, v) ==
    \/ st.tag = "AwaitingCommitments" /\ v \in Keys(st.commitments)
    \/ st.tag = "Signing" /\ v \in st.participants

(* v can answer the package once it is selected. *)
Ready(v) == nodes[v].pending[request] # None /\ request \notin nodes[v].shared_requests

(* The nodes that have reacted in this round. *)
Turned == {slate[i] : i \in 1 .. turn - 1}

(* The slate can sign what the call asks for. *)
Enough == job # None /\ Cardinality(Willing) >= Params.threshold

(* The status a request starts with. *)
FreshStatus == [tag |-> "AwaitingCommitments", commitments |-> Empty(Ids)]

(* The status of the call's request in a state. *)
StatusIn(s) == s.requests[request].status

(* Nodes and mempool know of nothing that the published state does not     *)
(* have, so that the id of a new request means nothing to them.            *)
NodesKnown ==
    \A n \in Nodes :
        nodes[n].committed_requests \cup nodes[n].shared_requests \subseteq Keys(state.requests)

TxKnown(tx) ==
    /\ tx.type \in {"SubmitCommitment", "SubmitShare"} => tx.request_id \in Keys(state.requests)
    /\ tx.type = "SubmitRequest" => pc = "opening" /\ tx = AskTx(request)

KnownInv ==
    /\ state.group.params = Params
    /\ NodesKnown
    /\ \A tx \in ToSet(mempool) : TxKnown(tx)

(* The opening block puts the request on the chain as it was asked. *)
OpeningInv ==
    pc = "opening" =>
        /\ request \notin Keys(state.requests)
        /\ \/ request \notin Keys(working.requests) /\ AskTx(request) \in ToSet(mempool)
           \/ /\ request \in Keys(working.requests)
              /\ working.requests[request] = [message |-> job.message, randomizer |-> job.alphas[idx],
                                              status |-> FreshStatus]

InRound == pc \in {"react", "closing"}

(* In a round the request is on the chain as it was asked. *)
AskedInv ==
    InRound =>
        /\ request \in Keys(state.requests)
        /\ state.requests[request].message = job.message
        /\ state.requests[request].randomizer = job.alphas[idx]
        /\ 1 <= round
        /\ pc = "closing" => turn = Len(slate) + 1

(* Round one: whoever has reacted and is willing has committed, and nobody *)
(* else has.                                                               *)
FirstRound ==
    /\ StatusIn(state) = FreshStatus
    /\ StatusIn(working).tag \in {"AwaitingCommitments", "Signing"}
    /\ StatusIn(working).tag = "Signing" => Keys(StatusIn(working).shares) = {}
    /\ \A v \in Nodes :
          /\ ~Sent("SubmitShare", v)
          /\ request \notin nodes[v].shared_requests
          /\ request \in nodes[v].committed_requests => v \in Turned
          /\ Sent("SubmitCommitment", v) \/ Counted(StatusIn(working), v) =>
                v \in Turned /\ nodes[v].pending[request] # None
          /\ v \in Turned /\ job.message \in Approves[v] =>
                /\ emitted
                /\ \/ Sent("SubmitCommitment", v) \/ Counted(StatusIn(working), v)
                   \/ StatusIn(working).tag = "Signing"

(* Round two: the participants have shared, or it is not their turn yet    *)
(* and they are able to.  Later rounds, the demo's, change nothing.        *)
LaterRound ==
    /\ StatusIn(state).tag # "AwaitingCommitments"
    /\ 2 < round => StatusIn(state).tag # "Signing"
    /\ StatusIn(working).tag = "Signing" =>
          \A v \in StatusIn(working).participants :
              /\ v \in ToSet(slate)
              /\ \/ v \in Keys(StatusIn(working).shares)
                 \/ Sent("SubmitShare", v)
                 \/ v \notin Turned /\ Ready(v)

(* The inductive invariant of a session with enough willing nodes. *)
RoundsInv ==
    /\ KnownInv /\ OpeningInv /\ AskedInv
    /\ InRound /\ round = 1 => FirstRound
    /\ InRound /\ 2 <= round /\ Enough => LaterRound
    /\ TwoRoundsAreEnough

----------------------------------------------------------------------------
(* Calls of react, seen from one request.                                  *)

(* A transaction react returns is the node's, about a request on the chain. *)
LEMMA OutIs ==
    ASSUME NEW s \in State, NEW n, NEW m, NEW tx \in ToSet(Out(s, n, m))
    PROVE  /\ Failing(s, n, m) = {}
           /\ tx.validator = n /\ tx.request_id \in Keys(s.requests)
           /\ \/ tx.type = "SubmitCommitment" /\ tx.request_id \in ToCommit(s, n, m)
              \/ tx.type = "SubmitShare" /\ tx.request_id \in ToShare(s, n, m)
<1>1. Failing(s, n, m) = {}
  BY OutSet
<1>2. PICK r \in ToCommit(s, n, m) \cup ToShare(s, n, m) : tx = TxFor(s, n, m, r)
  BY OutSet
<1>3. r \in Keys(s.requests)
  BY ReactSets
<1> QED BY <1>1, <1>2, <1>3 DEF TxFor

(* A call that does not fail answers every request it has to answer. *)
LEMMA OutHas ==
    ASSUME NEW s \in State, NEW n, NEW m, Failing(s, n, m) = {}, NEW r
    PROVE  /\ r \in ToCommit(s, n, m) =>
                \E tx \in ToSet(Out(s, n, m)) :
                    tx.type = "SubmitCommitment" /\ tx.request_id = r /\ tx.validator = n
           /\ r \in ToShare(s, n, m) =>
                \E tx \in ToSet(Out(s, n, m)) :
                    tx.type = "SubmitShare" /\ tx.request_id = r /\ tx.validator = n
<1>1. r \in ToCommit(s, n, m) \cup ToShare(s, n, m) => TxFor(s, n, m, r) \in ToSet(Out(s, n, m))
  BY OutSet
<1>2. r \in ToShare(s, n, m) => r \notin ToCommit(s, n, m)
  BY ReactSets
<1> QED BY <1>1, <1>2 DEF TxFor

(* After a call the node knows of requests on the chain only. *)
LEMMA MemoryKnown ==
    ASSUME NEW s \in State, NEW n, NEW m,
           m.committed_requests \cup m.shared_requests \subseteq Keys(s.requests)
    PROVE  MemoryAfter(s, n, m).committed_requests \cup MemoryAfter(s, n, m).shared_requests
               \subseteq Keys(s.requests)
<1>1. /\ CommitmentSeen(s, n) \subseteq Keys(s.requests) /\ ShareSeen(s, n) \subseteq Keys(s.requests)
      /\ Committing(s, n, m) \subseteq Keys(s.requests) /\ Sharing(s, n, m) \subseteq Keys(s.requests)
  BY ReactSets DEF CommitmentSeen, ShareSeen, InStatus
<1> QED BY <1>1 DEF MemoryAfter, CommittedAfter, SharedAfter

----------------------------------------------------------------------------
(* A transaction, seen from one request.                                   *)

(* What an honest transaction makes of the status of request r: nothing,   *)
(* because it is about something else or comes too late; one commitment    *)
(* more, or the cut; one share more, or the outcome.                       *)
StatusStep(st, tx, r, u) ==
    \/ /\ u = st
       /\ tx.type = "SubmitCommitment" /\ tx.request_id = r =>
             st.tag # "AwaitingCommitments" \/ tx.validator \in Keys(st.commitments)
       /\ tx.type = "SubmitShare" /\ tx.request_id = r =>
             st.tag # "Signing" \/ tx.validator \in Keys(st.shares)
    \/ /\ tx.type = "SubmitCommitment" /\ tx.request_id = r
       /\ st.tag = "AwaitingCommitments"
       /\ \/ /\ u.tag = "AwaitingCommitments"
             /\ Keys(u.commitments) = Keys(st.commitments) \cup {tx.validator}
          \/ /\ u.tag = "Signing" /\ Keys(u.shares) = {}
             /\ u.participants \subseteq Keys(st.commitments) \cup {tx.validator}
    \/ /\ tx.type = "SubmitShare" /\ tx.request_id = r
       /\ st.tag = "Signing"
       /\ \/ /\ u.tag = "Signing" /\ u.participants = st.participants
             /\ Keys(u.shares) = Keys(st.shares) \cup {tx.validator}
          \/ u.tag \in {"Completed", "Failed"}

LEMMA AcceptedStep ==
    ASSUME NEW s \in State, NEW tx \in Tx, HonestTx(s, tx), Accepts(s, tx),
           NEW r \in Keys(s.requests)
    PROVE  StatusStep(s.requests[r].status, tx, r, apply_tx(s, tx).requests[r].status)
<1> DEFINE t == apply_tx(s, tx)
           st == s.requests[r].status
           u == t.requests[r].status
<1> SUFFICES StatusStep(st, tx, r, u)
  OBVIOUS
<1>1. CASE tx.type = "InitGroup"
  <2>1. t.requests = s.requests
    BY <1>1, Frame
  <2> QED BY <1>1, <2>1 DEF StatusStep
<1>2. CASE tx.type = "SubmitRequest"
  <2>1. t.requests[r] = s.requests[r]
    BY <1>2, RequestEffect DEF SameBut
  <2> QED BY <1>2, <2>1 DEF StatusStep
<1>3. CASE tx.type = "SubmitCommitment"
  <2> DEFINE map == CommitmentsWith(s, tx)
  <2>1. /\ SameBut(s, t, {tx.request_id})
        /\ tx.request_id = r =>
             /\ st.tag = "AwaitingCommitments"
             /\ Keys(map) = Keys(st.commitments) \cup {tx.validator}
             /\ \/ u = [tag |-> "AwaitingCommitments", commitments |-> map]
                \/ CutFrom(u, map, s.requests[r].message)
    BY <1>3, CommitmentEffect
  <2> HIDE DEF map, t
  <2>2. CASE tx.request_id # r
    <3>1. u = st
      BY <2>1, <2>2 DEF SameBut
    <3> HIDE DEF u
    <3> QED BY <1>3, <2>2, <3>1 DEF StatusStep
  <2>3. CASE tx.request_id = r /\ u = [tag |-> "AwaitingCommitments", commitments |-> map]
    <3>1. u.tag = "AwaitingCommitments" /\ u.commitments = map
      BY <2>3
    <3> HIDE DEF u
    <3> QED BY <1>3, <2>1, <2>3, <3>1 DEF StatusStep
  <2>4. CASE tx.request_id = r /\ CutFrom(u, map, s.requests[r].message)
    <3>1. u.tag = "Signing" /\ u.participants \subseteq Keys(map) /\ u.shares = Empty(Ids)
      BY <2>4 DEF CutFrom, Cut
    <3>2. Keys(u.shares) = {}
      BY <3>1 DEF Keys, Empty
    <3> HIDE DEF u
    <3> QED BY <1>3, <2>1, <2>4, <3>1, <3>2 DEF StatusStep
  <2> QED BY <2>1, <2>2, <2>3, <2>4
<1>4. CASE tx.type = "SubmitShare"
  <2> DEFINE shares == SharesWith(s, tx)
             e == s.requests[tx.request_id]
             f == t.requests[tx.request_id]
             good == aggregate_ok(e.status.signing_package, shares, s.group.pkp, e.randomizer)
  <2>1. /\ SameBut(s, t, {tx.request_id})
        /\ tx.request_id = r =>
             /\ st.tag = "Signing"
             /\ Keys(shares) = Keys(st.shares) \cup {tx.validator}
             /\ \/ u = [tag |-> "Signing", signing_package |-> st.signing_package,
                        participants |-> st.participants, shares |-> shares]
                \/ u.tag = "Completed" \/ u.tag = "Failed"
    <3>1. /\ SameBut(s, t, {tx.request_id}) /\ e.status.tag = "Signing"
          /\ Keys(shares) = Keys(e.status.shares) \cup {tx.validator}
          /\ \/ f.status = [tag |-> "Signing", signing_package |-> e.status.signing_package,
                            participants |-> e.status.participants, shares |-> shares]
             \/ good /\ f.status =
                  [tag |-> "Completed", participants |-> e.status.participants,
                   signature |-> [message |-> e.status.signing_package.message,
                                  randomizer |-> e.randomizer, pkp |-> s.group.pkp]]
             \/ ~good /\ f.status = [tag |-> "Failed"]
      BY <1>4, ShareEffect, Zenon
    <3> HIDE DEF shares, t, good
    <3> QED BY <3>1
  <2> HIDE DEF shares, t
  <2>2. CASE tx.request_id # r
    <3>1. u = st
      BY <2>1, <2>2 DEF SameBut
    <3> HIDE DEF u
    <3> QED BY <1>4, <2>2, <3>1 DEF StatusStep
  <2>3. CASE tx.request_id = r /\ u.tag \in {"Completed", "Failed"}
    <3> HIDE DEF u
    <3> QED BY <1>4, <2>1, <2>3 DEF StatusStep
  <2>4. CASE tx.request_id = r /\ u = [tag |-> "Signing", signing_package |-> st.signing_package,
                                       participants |-> st.participants, shares |-> shares]
    <3>1. u.tag = "Signing" /\ u.participants = st.participants /\ u.shares = shares
      BY <2>4
    <3> HIDE DEF u
    <3> QED BY <1>4, <2>1, <2>4, <3>1 DEF StatusStep
  <2> QED BY <2>1, <2>2, <2>3, <2>4
<1> QED BY <1>1, <1>2, <1>3, <1>4 DEF HonestTx

(* An honest transaction is rejected only because it comes too late. *)
LEMMA RejectedStep ==
    ASSUME NEW s \in State, NEW tx \in Tx, HonestTx(s, tx), ~Accepts(s, tx),
           s.group # None, HonestState(s), CutIsExact(s), Nodes \subseteq Keys(GroupKey),
           NEW r \in Keys(s.requests)
    PROVE  StatusStep(s.requests[r].status, tx, r, s.requests[r].status)
<1> DEFINE st == s.requests[r].status
<1>1. ASSUME tx.type = "SubmitCommitment", tx.request_id = r
      PROVE  st.tag # "AwaitingCommitments" \/ tx.validator \in Keys(st.commitments)
  <2>1. tx.validator \in Nodes
    BY <1>1, SessionNodes DEF HonestTx, HonestCommitment, Approving
  <2>2. tx.validator \in s.group.validators
    BY <2>1 DEF HonestState
  <2> QED BY <1>1, <2>2 DEF Accepts, SubmitCommitmentOk
<1>2. ASSUME tx.type = "SubmitShare", tx.request_id = r, st.tag = "Signing"
      PROVE  tx.validator \in Keys(st.shares)
  <2>1. tx.validator \in st.participants
    BY <1>2 DEF HonestTx, HonestShare
  <2>2. tx.validator \in s.group.validators
    BY <1>2, <2>1 DEF CutIsExact, EntryExact
  <2> QED BY <1>2, <2>1, <2>2 DEF Accepts, SubmitShareOk
<1> QED BY <1>1, <1>2 DEF StatusStep

----------------------------------------------------------------------------
(* What the nodes and the mempool know of.                                 *)

(* The published state keeps its group and its requests.                   *)
LEMMA PublishedStays ==
    ASSUME SessInv, [Next]_vars
    PROVE  state'.group = state.group /\ Keys(state.requests) \subseteq Keys(state'.requests)
<1>1. state' = state \/ BeginBlock \/ PopTx \/ EndBlock
  BY DEF Next, Step, Call, AllSigned, MissingAlpha, Ask, BlockStep, Opened, ReactInTurn, ReactFails,
         AllReacted, Closed, LeaveTx, ReactOutside, Rebuild, Submit, SubmitAll, vars, simVars
<1>2. CASE BeginBlock \/ PopTx \/ EndBlock
  <2>1. SimInv /\ SimInv' /\ Progress
    BY <1>2, BeginBlockInv, PopTxInv, EndBlockInv DEF SessInv
  <2>2. state \in State /\ state' \in State
    BY <2>1 DEF SimInv, TypeOK
  <2> QED BY <2>1, <2>2, ForwardKeys DEF SessInv, Progress
<1> QED BY <1>1, <1>2

(* What a node knows of after a call of react, or when it is new. *)
LEMMA NodesStayKnown ==
    ASSUME SessInv, NodesKnown, [Next]_vars
    PROVE  NodesKnown'
<1>1. Keys(state.requests) \subseteq Keys(state'.requests)
  BY PublishedStays
<1>2. state \in State /\ nodes \in [Nodes -> NodeMemory]
  BY SessionFacts
<1>3. \/ nodes' = nodes
      \/ \E n \in Nodes : nodes' = [nodes EXCEPT ![n] = NewNode(nodes[n].drawn)]
      \/ \E n \in Nodes : nodes' = [nodes EXCEPT ![n] = MemoryAfter(state, n, nodes[n])]
  <2>1. CASE ReactInTurn \/ ReactFails
    <3>1. turn <= Len(slate) /\
          nodes' = [nodes EXCEPT ![slate[turn]] = MemoryAfter(state, slate[turn], nodes[slate[turn]])]
      BY <2>1 DEF ReactInTurn, ReactFails
    <3>2. slate[turn] \in Nodes
      BY <3>1, SessionFacts
    <3> QED BY <3>1, <3>2
  <2>2. CASE \E n \in Nodes : ReactOutside(n) \/ Rebuild(n)
    BY <2>2 DEF ReactOutside, Rebuild
  <2> QED BY <2>1, <2>2
       DEF Next, Step, Call, AllSigned, MissingAlpha, Ask, BlockStep, Opened, AllReacted, Closed,
           LeaveTx, vars
<1>4. CASE nodes' = nodes
  BY <1>1, <1>4 DEF NodesKnown
<1>5. ASSUME NEW n \in Nodes, NEW new, nodes' = [nodes EXCEPT ![n] = new],
             new.committed_requests \cup new.shared_requests \subseteq Keys(state.requests)
      PROVE  NodesKnown'
  <2>1. nodes'[n] = new /\ \A k \in Nodes : k # n => nodes'[k] = nodes[k]
    BY <1>2, <1>5
  <2> QED BY <1>1, <1>5, <2>1 DEF NodesKnown
<1>6. \A n \in Nodes :
        /\ NewNode(nodes[n].drawn).committed_requests = {}
        /\ NewNode(nodes[n].drawn).shared_requests = {}
  BY DEF NewNode
<1>7. \A n \in Nodes :
         MemoryAfter(state, n, nodes[n]).committed_requests
            \cup MemoryAfter(state, n, nodes[n]).shared_requests \subseteq Keys(state.requests)
  BY <1>2, MemoryKnown DEF NodesKnown
<1>8. CASE \E n \in Nodes : nodes' = [nodes EXCEPT ![n] = NewNode(nodes[n].drawn)]
  <2>1. PICK n \in Nodes : nodes' = [nodes EXCEPT ![n] = NewNode(nodes[n].drawn)]
    BY <1>8
  <2> DEFINE new == NewNode(nodes[n].drawn)
  <2>2. nodes' = [nodes EXCEPT ![n] = new] /\ new.committed_requests = {} /\ new.shared_requests = {}
    BY <1>6, <2>1
  <2> HIDE DEF new
  <2> QED BY <1>5, <2>2
<1>9. CASE \E n \in Nodes : nodes' = [nodes EXCEPT ![n] = MemoryAfter(state, n, nodes[n])]
  BY <1>5, <1>7, <1>9
<1> QED BY <1>3, <1>4, <1>8, <1>9

(* Where the transactions of the mempool come from. *)
LEMMA MempoolKnown ==
    ASSUME SessInv, SessInv', KnownInv, [Next]_vars
    PROVE  \A tx \in ToSet(mempool') : TxKnown(tx)'
<1>1. /\ Keys(state.requests) \subseteq Keys(state'.requests)
      /\ mempool \in Seq(Tx) /\ state \in State /\ nodes \in [Nodes -> NodeMemory]
  BY PublishedStays, SessionFacts
<1>2. \A tx \in ToSet(mempool) : TxKnown(tx)
  BY DEF KnownInv
<1>3. ASSUME NEW tx \in ToSet(mempool), pc = "opening" => pc' = "opening" /\ AskTx(request)' = AskTx(request)
      PROVE  TxKnown(tx)'
  <2>1. TxKnown(tx)
    BY <1>2
  <2> QED BY <1>1, <1>3, <2>1 DEF TxKnown
<1>4. ASSUME NEW n \in Nodes, NEW tx \in ToSet(Out(state, n, nodes[n]))
      PROVE  TxKnown(tx)'
  BY <1>1, OutIs DEF TxKnown
<1>5. ASSUME NEW n \in Nodes, SubmitAll(Out(state, n, nodes[n])), pc # "opening"
      PROVE  \A tx \in ToSet(mempool') : TxKnown(tx)'
  <2> DEFINE out == Out(state, n, nodes[n])
  <2>1. mempool' = mempool \o out
    BY <1>5 DEF SubmitAll
  <2>2. out \in Seq(Tx)
    BY <1>1, SessionNodes, OutTyped
  <2> HIDE DEF out
  <2>3. ToSet(mempool \o out) = ToSet(mempool) \cup ToSet(out)
    BY <1>1, <2>2, ToSetConcat, ZenonT(30)
  <2>4. \A tx \in ToSet(out) : TxKnown(tx)'
    BY <1>4 DEF out
  <2> QED BY <1>3, <1>5, <2>1, <2>3, <2>4
<1>6. ASSUME NEW new \in Tx, SubmitAll(<<new>>), pc # "opening", TxKnown(new)'
      PROVE  \A tx \in ToSet(mempool') : TxKnown(tx)'
  <2>1. ToSet(mempool') = ToSet(mempool) \cup {new}
    BY <1>1, <1>6, ToSetAppend DEF SubmitAll
  <2> QED BY <1>3, <1>6, <2>1
<1>7. CASE LeaveTx
  <2>1. SubmitAll(<<InitGroupTx>>) /\ pc # "opening"
    BY <1>7 DEF LeaveTx, Meddle, Submit
  <2>2. InitGroupTx \in Tx /\ TxKnown(InitGroupTx)'
    BY GroupTxTyped DEF InitGroupTx, TxKnown
  <2> QED BY <1>6, <2>1, <2>2
<1>8. ASSUME NEW r \in Uuids, Ask(r)
      PROVE  \A tx \in ToSet(mempool') : TxKnown(tx)'
  <2>1. /\ SubmitAll(<<AskTx(r)>>) /\ pc # "opening" /\ pc' = "opening" /\ request' = r
        /\ job' = job /\ idx' = idx
    BY <1>8 DEF Ask, Submit, AskTx
  <2>2. AskTx(r) \in Tx
    BY <1>8, AskTyped
  <2>3. AskTx(request)' = AskTx(r)
    BY <2>1 DEF AskTx
  <2>4. ASSUME NEW new \in Tx, new = AskTx(r)
        PROVE  \A tx \in ToSet(mempool') : TxKnown(tx)'
    <3>1. new.type = "SubmitRequest"
      BY <2>4 DEF AskTx
    <3>2. TxKnown(new)'
      BY <2>1, <2>3, <2>4, <3>1 DEF TxKnown
    <3>3. SubmitAll(<<new>>)
      BY <2>1, <2>4
    <3> QED BY <1>6, <2>1, <3>2, <3>3
  <2> QED BY <2>2, <2>4
<1>9. CASE mempool' = <<>>
  BY <1>9 DEF ToSet
<1>10. CASE BlockStep
  <2>1. /\ pc' = pc /\ request' = request /\ job' = job /\ idx' = idx
        /\ mempool' = mempool \/ (mempool # <<>> /\ mempool' = Tail(mempool))
    BY <1>10 DEF BlockStep, BeginBlock, PopTx
  <2>2. ToSet(mempool') \subseteq ToSet(mempool)
    BY <1>1, <2>1, ToSetTail
  <2>3. AskTx(request)' = AskTx(request)
    BY <2>1 DEF AskTx
  <2> QED BY <1>3, <2>1, <2>2, <2>3
<1>11. CASE ReactInTurn
  <2>1. pc # "opening" /\ turn <= Len(slate) /\ SubmitAll(Out(state, slate[turn], nodes[slate[turn]]))
    BY <1>11 DEF ReactInTurn
  <2>2. slate[turn] \in Nodes
    BY <2>1, SessionFacts
  <2> QED BY <1>5, <2>1, <2>2
<1>12. ASSUME NEW n \in Nodes, ReactOutside(n)
       PROVE  \A tx \in ToSet(mempool') : TxKnown(tx)'
  BY <1>5, <1>12 DEF ReactOutside, Meddle
<1>13. CASE \/ \E j \in Jobs, s \in Slates : Call(j, s)
            \/ AllSigned \/ MissingAlpha \/ ReactFails \/ AllReacted
            \/ \E n \in Nodes : Rebuild(n)
  <2>1. mempool' = mempool /\ pc # "opening"
    BY <1>13 DEF Call, AllSigned, MissingAlpha, ReactFails, AllReacted, Rebuild, Meddle, simVars
  <2> QED BY <1>3, <2>1
<1>14. CASE Opened \/ Closed
  BY <1>9, <1>14 DEF Opened, Closed, EndBlock
<1>15. CASE UNCHANGED vars
  <2>1. mempool' = mempool /\ pc' = pc /\ AskTx(request)' = AskTx(request)
    BY <1>15 DEF vars, simVars, sessionVars, Locals, AskTx
  <2> QED BY <1>3, <2>1
<1> QED BY <1>7, <1>8, <1>10, <1>11, <1>12, <1>13, <1>14, <1>15 DEF Next, Step

LEMMA KnownStays ==
    ASSUME SessInv, SessInv', KnownInv, [Next]_vars
    PROVE  KnownInv'
<1>1. NodesKnown /\ state'.group = state.group /\ state.group.params = Params
  BY PublishedStays DEF KnownInv
<1>2. NodesKnown' /\ \A tx \in ToSet(mempool') : TxKnown(tx)'
  BY <1>1, NodesStayKnown, MempoolKnown
<1> QED BY <1>1, <1>2 DEF KnownInv

----------------------------------------------------------------------------
(* The opening block.                                                      *)

LEMMA AskOpens ==
    ASSUME SessInv, SessInv', NEW r \in Uuids, Ask(r)
    PROVE  OpeningInv'
<1>1. /\ SubmitAll(<<AskTx(r)>>) /\ request' = r /\ job' = job /\ idx' = idx
      /\ r \notin Keys(state.requests) /\ mempool \in Seq(Tx)
  BY SessionFacts DEF Ask, Submit, AskTx
<1>2. AskTx(r) \in Tx
  BY AskTyped
<1>3. mempool' = mempool \o <<AskTx(r)>> /\ state' = state /\ working' = working /\ working = state
  BY <1>1 DEF SubmitAll, SessInv, SimInv
<1>4. AskTx(r) \in ToSet(mempool')
  <2>1. ASSUME NEW new \in Tx, mempool' = mempool \o <<new>>
        PROVE  new \in ToSet(mempool')
    <3>1. ToSet(mempool') = ToSet(mempool) \cup {new}
      BY <1>1, <2>1, ToSetAppend
    <3> QED BY <3>1
  <2> QED BY <1>2, <1>3, <2>1
<1>5. AskTx(request)' = AskTx(r)
  BY <1>1 DEF AskTx
<1> QED BY <1>1, <1>3, <1>4, <1>5 DEF OpeningInv

(* One transaction of the opening block: the request's own puts it on the  *)
(* chain, and no other touches it.                                         *)
LEMMA OpeningPop ==
    ASSUME SessInv, KnownInv, OpeningInv, pc = "opening", PopTx,
           state' = state, pc' = pc, request' = request, job' = job, idx' = idx
    PROVE  OpeningInv'
<1> DEFINE tx == Head(mempool)
<1>1. /\ mempool \in Seq(Tx) /\ working \in State /\ mempool # <<>> /\ mempool' = Tail(mempool)
      /\ working.group # None
      /\ Keys(state.requests) \subseteq Keys(working.requests)
  BY ForwardKeys, SessionFacts DEF PopTx, SessInv, SimInv
<1>2. tx \in Tx /\ ToSet(mempool) = {tx} \cup ToSet(mempool')
  BY <1>1, ToSetTail
<1>3. HonestTx(working, tx) /\ TxKnown(tx)
  BY <1>2 DEF KnownInv, SessInv, HonestSim
<1>4. \/ Accepts(working, tx) /\ working' = apply_tx(working, tx)
      \/ ~Accepts(working, tx) /\ working' = working
  BY DEF PopTx
<1>5. request \notin Keys(state.requests) /\ request \in Uuids
  BY DEF OpeningInv, SessInv, StageInv
<1>6. AskTx(request)' = AskTx(request)
  BY DEF AskTx
<1> DEFINE asked == [message |-> job.message, randomizer |-> job.alphas[idx], status |-> FreshStatus]
           On == request \in Keys(working.requests) /\ working.requests[request] = asked
           Off == request \notin Keys(working.requests) /\ AskTx(request) \in ToSet(mempool)
<1>7. asked' = asked
  BY DEF FreshStatus
<1>8. On \/ Off
  BY DEF OpeningInv
<1>9. On' \/ Off'
  <2>1. CASE tx.type = "SubmitRequest"
    <3>1. /\ tx = AskTx(request) /\ tx.request_id = request
          /\ tx.message = job.message /\ tx.randomizer = job.alphas[idx]
      BY <1>3, <2>1 DEF TxKnown, AskTx
    <3>2. CASE Accepts(working, tx)
      <4> DEFINE t == apply_tx(working, tx)
      <4>1. /\ Keys(t.requests) = Keys(working.requests) \cup {request}
            /\ t.requests[request] =
                 [message |-> tx.message, randomizer |-> tx.randomizer,
                  status |-> [tag |-> "AwaitingCommitments", commitments |-> Empty(Ids)]]
        BY <1>1, <1>2, <2>1, <3>1, <3>2, RequestEffect
      <4>2. t.requests[request] = asked
        BY <3>1, <4>1 DEF FreshStatus
      <4> HIDE DEF t, asked
      <4>3. working' = t
        BY <1>4, <3>2 DEF t
      <4> QED BY <1>7, <4>1, <4>2, <4>3
    <3>3. CASE ~Accepts(working, tx)
      <4>1. request \in Keys(working.requests)
        BY <1>1, <2>1, <3>1, <3>3 DEF Accepts, SubmitRequestOk
      <4> HIDE DEF asked
      <4> QED BY <1>4, <1>7, <1>8, <3>3, <4>1
    <3> QED BY <3>2, <3>3
  <2>2. CASE tx.type # "SubmitRequest"
    <3>1. /\ request \in Keys(working'.requests) <=> request \in Keys(working.requests)
          /\ request \in Keys(working.requests) =>
                working'.requests[request] = working.requests[request]
      <4>1. CASE Accepts(working, tx) /\ tx.type = "InitGroup"
        <5>1. apply_tx(working, tx).requests = working.requests
          BY <1>1, <1>2, <4>1, Frame
        <5> QED BY <1>4, <4>1, <5>1
      <4>2. CASE Accepts(working, tx) /\ tx.type \in {"SubmitCommitment", "SubmitShare"}
        <5> DEFINE t == apply_tx(working, tx)
        <5>1. /\ Keys(t.requests) = Keys(working.requests) \cup {tx.request_id}
              /\ SameBut(working, t, {tx.request_id})
          BY <1>1, <1>2, <4>2, OneRequest
        <5>2. tx.request_id \in Keys(working.requests) /\ tx.request_id # request
          BY <1>1, <1>3, <1>5, <4>2 DEF TxKnown
        <5> HIDE DEF t
        <5>3. working' = t
          BY <1>4, <4>2 DEF t
        <5> QED BY <5>1, <5>2, <5>3 DEF SameBut
      <4>3. CASE ~Accepts(working, tx)
        BY <1>4, <4>3
      <4> QED BY <1>3, <2>2, <4>1, <4>2, <4>3 DEF HonestTx
    <3>2. tx # AskTx(request)
      BY <2>2 DEF AskTx
    <3>3. AskTx(request) \in ToSet(mempool) => AskTx(request) \in ToSet(mempool')
      BY <1>2, <3>2
    <3> HIDE DEF asked
    <3> QED BY <1>6, <1>7, <1>8, <3>1, <3>3
  <2> QED BY <2>1, <2>2
<1>10. request' \notin Keys(state'.requests)
  BY <1>5
<1> QED BY <1>9, <1>10 DEF OpeningInv

(* The opening block is done: everybody has yet to react.                  *)
LEMMA OpenedRound ==
    ASSUME SessInv, SessInv', KnownInv, OpeningInv, Opened, pc' = "react"
    PROVE  round' = 1 /\ AskedInv' /\ FirstRound'
<1>1. /\ pc = "opening" /\ EndBlock /\ BeginRound /\ request' = request /\ nodes' = nodes
      /\ job' = job /\ idx' = idx /\ round = 0
  BY DEF Opened, Return, SessInv, StageInv
<1>2. round' = 1 /\ turn' = 1 /\ mempool' = <<>> /\ mempool = <<>>
      /\ state' = working /\ working' = working
  BY <1>1 DEF BeginRound, EndBlock
<1>3. ToSet(mempool) = {} /\ ToSet(mempool') = {}
  BY <1>2 DEF ToSet
<1>4. /\ request \notin Keys(state.requests) /\ request \in Keys(working.requests)
      /\ working.requests[request] = [message |-> job.message, randomizer |-> job.alphas[idx],
                                      status |-> FreshStatus]
  BY <1>1, <1>3 DEF OpeningInv
<1>5. AskedInv'
  BY <1>1, <1>2, <1>4 DEF AskedInv, InRound
<1>6. StatusIn(state)' = FreshStatus /\ StatusIn(working)' = FreshStatus
  BY <1>1, <1>2, <1>4 DEF StatusIn
<1>7. FreshStatus' = FreshStatus /\ FreshStatus.tag = "AwaitingCommitments"
      /\ Keys(FreshStatus.commitments) = {}
  BY EmptyKeys DEF FreshStatus
<1>8. Turned' = {}
  <2>1. 1 .. turn' - 1 = {}
    BY <1>2
  <2> QED BY <2>1 DEF Turned
<1>9. \A type, v : ~Sent(type, v)'
  BY <1>3 DEF Sent
<1>10. \A v : ~Counted(FreshStatus, v)
  BY <1>7 DEF Counted
<1>11. \A v \in Nodes : request \notin nodes[v].committed_requests /\ request \notin nodes[v].shared_requests
  BY <1>4 DEF KnownInv, NodesKnown
<1>12. \A v : ~Counted(StatusIn(working), v)'
  BY <1>1, <1>6, <1>10 DEF Counted
<1>13. FirstRound'
  BY <1>1, <1>6, <1>7, <1>8, <1>9, <1>11, <1>12 DEF FirstRound
<1> QED BY <1>2, <1>5, <1>13

----------------------------------------------------------------------------
(* A round.                                                                *)

(* The request in both states, as plain facts. *)
LEMMA RoundFacts ==
    ASSUME SessInv, AskedInv, InRound
    PROVE  /\ job # None /\ request \in Uuids
           /\ request \in Keys(state.requests) /\ request \in Keys(working.requests)
           /\ working.requests[request].message = job.message
           /\ working.requests[request].randomizer = job.alphas[idx]
           /\ StatusIn(state).tag \in {"AwaitingCommitments", "Signing", "Completed", "Failed"}
           /\ StatusIn(working) \in RequestStatus
           /\ StatusIn(working).tag \in {"AwaitingCommitments", "Signing", "Completed", "Failed"}
           /\ StatusIn(state).tag # "AwaitingCommitments" => StatusIn(working).tag # "AwaitingCommitments"
           /\ HonestEntry(working.requests[request])
           /\ EntryExact(working.requests[request], working.group)
           /\ working.group.params = state.group.params /\ working.group.pkp = GroupKey
           /\ \A n \in Nodes : n \in working.group.validators
<1>1. /\ state \in State /\ working \in State /\ MovesForward(state, working)
      /\ CutIsExact(state) /\ CutIsExact(working) /\ HonestState(working)
      /\ state.group # None /\ working.group = state.group
  BY SessionFacts DEF SessInv, SimInv, Safe, HonestSim
<1>2. job # None /\ request \in Uuids /\ request \in Keys(state.requests)
      /\ state.requests[request].message = job.message
      /\ state.requests[request].randomizer = job.alphas[idx]
  BY DEF InRound, AskedInv, SessInv, StageInv
<1>3. /\ request \in Keys(working.requests)
      /\ working.requests[request].message = job.message
      /\ working.requests[request].randomizer = job.alphas[idx]
  BY <1>1, <1>2, ForwardKeys
<1>4. state.requests[request] \in RequestEntry /\ working.requests[request] \in RequestEntry
  BY <1>1, <1>2, <1>3, StateParts
<1>5. StatusIn(state) \in RequestStatus /\ StatusIn(working) \in RequestStatus
  BY <1>4 DEF StatusIn, RequestEntry
<1>6. StatusIn(state).tag # "AwaitingCommitments" => StatusIn(working).tag # "AwaitingCommitments"
  BY <1>1, <1>2, SigningStays DEF StatusIn
<1>7. \A n \in Nodes : n \in working.group.validators
  BY <1>1, SessionAssumption DEF HonestState
<1>8. HonestEntry(working.requests[request]) /\ EntryExact(working.requests[request], working.group)
      /\ working.group.pkp = GroupKey
  BY <1>1, <1>3 DEF HonestState, CutIsExact
<1>9. /\ StatusIn(state).tag \in {"AwaitingCommitments", "Signing", "Completed", "Failed"}
      /\ StatusIn(working).tag \in {"AwaitingCommitments", "Signing", "Completed", "Failed"}
  BY <1>5, StatusFields
<1> QED BY <1>1, <1>2, <1>3, <1>5, <1>6, <1>7, <1>8, <1>9

(* What is not changed by a step of the round. *)
RoundKept ==
    /\ InRound /\ InRound'
    /\ state' = state /\ request' = request /\ round' = round /\ slate' = slate
    /\ job' = job /\ idx' = idx

(* The transactions a node adds to the mempool in its turn. *)
LEMMA TurnSends ==
    ASSUME SessInv, AskedInv, ReactInTurn, NEW n, n = slate[turn]
    PROVE  /\ RoundKept /\ working' = working /\ working = state /\ n \in Nodes
           /\ state \in State /\ nodes[n] \in NodeMemory /\ Failing(state, n, nodes[n]) = {}
           /\ nodes'[n] = MemoryAfter(state, n, nodes[n])
           /\ \A v \in Nodes : v # n => nodes'[v] = nodes[v]
           /\ Turned' = Turned \cup {n}
           /\ emitted => emitted'
           /\ \A type, v : Sent(type, v) => Sent(type, v)'
           /\ \A type, v : v # n /\ Sent(type, v)' => Sent(type, v)
           /\ Sent("SubmitCommitment", n)' =>
                 Sent("SubmitCommitment", n) \/ request \in ToCommit(state, n, nodes[n])
           /\ Sent("SubmitShare", n)' =>
                 Sent("SubmitShare", n) \/ request \in ToShare(state, n, nodes[n])
           /\ request \in ToCommit(state, n, nodes[n]) => Sent("SubmitCommitment", n)' /\ emitted'
           /\ request \in ToShare(state, n, nodes[n]) => Sent("SubmitShare", n)'
<1> DEFINE out == Out(state, n, nodes[n])
<1>1. /\ pc = "react" /\ pc' = pc /\ turn <= Len(slate) /\ turn' = turn + 1 /\ SubmitAll(out)
      /\ Failing(state, n, nodes[n]) = {}
      /\ nodes' = [nodes EXCEPT ![n] = MemoryAfter(state, n, nodes[n])]
      /\ emitted' = (emitted \/ out # <<>>)
      /\ job' = job /\ slate' = slate /\ idx' = idx /\ request' = request /\ round' = round
  BY DEF ReactInTurn
<1>2. /\ n \in Nodes /\ state \in State /\ nodes \in [Nodes -> NodeMemory] /\ mempool \in Seq(Tx)
      /\ turn \in Nat /\ 1 <= turn
  BY <1>1, SessionFacts
<1>3. working = state /\ state' = state /\ working' = working /\ mempool' = mempool \o out
  BY <1>1 DEF SubmitAll, SessInv, SimInv
<1>4. out \in Seq(Tx)
  BY <1>2, OutTyped, SessionNodes
<1>5. Turned' = Turned \cup {n}
  <2>1. 1 .. turn' - 1 = (1 .. turn - 1) \cup {turn}
    BY <1>1, <1>2
  <2> QED BY <1>1, <2>1 DEF Turned
<1>6. \A tx \in ToSet(out) :
        /\ tx.validator = n
        /\ tx.type = "SubmitCommitment" => tx.request_id \in ToCommit(state, n, nodes[n])
        /\ tx.type = "SubmitShare" => tx.request_id \in ToShare(state, n, nodes[n])
  BY <1>2, OutIs
<1>7. /\ request \in ToCommit(state, n, nodes[n]) =>
            \E tx \in ToSet(out) :
                tx.type = "SubmitCommitment" /\ tx.request_id = request /\ tx.validator = n
      /\ request \in ToShare(state, n, nodes[n]) =>
            \E tx \in ToSet(out) :
                tx.type = "SubmitShare" /\ tx.request_id = request /\ tx.validator = n
  BY <1>1, <1>2, OutHas
<1> HIDE DEF out
<1>8. ToSet(mempool \o out) = ToSet(mempool) \cup ToSet(out)
  BY <1>2, <1>4, ToSetConcat, ZenonT(30)
<1>9. ToSet(mempool') = ToSet(mempool) \cup ToSet(out)
  BY <1>3, <1>8
<1>10. \A type, v :
         Sent(type, v)' <=>
            \/ Sent(type, v)
            \/ \E tx \in ToSet(out) : tx.type = type /\ tx.request_id = request /\ tx.validator = v
  BY <1>1, <1>9 DEF Sent
<1>11. ToSet(out) # {} => out # <<>>
  BY DEF ToSet
<1>12. emitted => emitted'
  BY <1>1
<1>13. ToSet(out) # {} => emitted'
  BY <1>1, <1>11
<1>14. nodes'[n] = MemoryAfter(state, n, nodes[n]) /\ \A v \in Nodes : v # n => nodes'[v] = nodes[v]
  BY <1>1, <1>2
<1>15. RoundKept
  BY <1>1, <1>3 DEF RoundKept, InRound
<1> QED BY <1>1, <1>2, <1>3, <1>5, <1>6, <1>7, <1>10, <1>12, <1>13, <1>14, <1>15

(* Round one: a node that is willing commits in its turn, and keeps the    *)
(* nonces.                                                                 *)
LEMMA FirstTurn ==
    ASSUME SessInv, AskedInv, FirstRound, ReactInTurn
    PROVE  FirstRound'
<1>0. PICK n : n = slate[turn]
  OBVIOUS
<1> DEFINE m == nodes[n]
<1>1. /\ RoundKept /\ working' = working /\ working = state /\ n \in Nodes
      /\ state \in State /\ m \in NodeMemory /\ Failing(state, n, m) = {}
      /\ nodes'[n] = MemoryAfter(state, n, m)
      /\ \A v \in Nodes : v # n => nodes'[v] = nodes[v]
      /\ Turned' = Turned \cup {n}
      /\ emitted => emitted'
      /\ \A type, v : Sent(type, v) => Sent(type, v)'
      /\ \A type, v : v # n /\ Sent(type, v)' => Sent(type, v)
      /\ Sent("SubmitCommitment", n)' =>
            Sent("SubmitCommitment", n) \/ request \in ToCommit(state, n, m)
      /\ Sent("SubmitShare", n)' => Sent("SubmitShare", n) \/ request \in ToShare(state, n, m)
      /\ request \in ToCommit(state, n, m) => Sent("SubmitCommitment", n)' /\ emitted'
  BY <1>0, TurnSends
<1>2. /\ StatusIn(state) = FreshStatus /\ state.requests[request].message = job.message
      /\ request \in Uuids /\ request \in Keys(state.requests)
  BY <1>1, RoundFacts DEF FirstRound, RoundKept
<1>3. /\ state.requests[request].status.tag = "AwaitingCommitments"
      /\ Keys(state.requests[request].status.commitments) = {}
  BY <1>2, EmptyKeys DEF StatusIn, FreshStatus
<1>4. request \notin ToShare(state, n, m) /\ request \notin ShareSeen(state, n)
      /\ request \notin CommitmentSeen(state, n)
  BY <1>3 DEF ToShare, ShareSeen, CommitmentSeen, InStatus
<1>5. /\ StatusIn(state)' = StatusIn(state) /\ StatusIn(working)' = StatusIn(working)
      /\ FreshStatus' = FreshStatus
      /\ \A v : Counted(StatusIn(working), v)' <=> Counted(StatusIn(working), v)
  BY <1>1 DEF RoundKept, StatusIn, FreshStatus, Counted
<1> DEFINE after == MemoryAfter(state, n, m)
<1>6. request \in after.shared_requests => request \in m.shared_requests
  BY <1>1, <1>4, ReactMarks
<1>7. request \in ToCommit(state, n, m) \/ m.pending[request] # None => after.pending[request] # None
  <2>1. Committing(state, n, m) = ToCommit(state, n, m)
    BY <1>1, NoFailure
  <2>2. FreshNonces(state, n, m, request) # None
    BY <1>1, SessionNodes, FreshNoncesTyped, NoneAssumption
  <2> QED BY <1>1, <1>2, <1>4, <2>1, <2>2, PendingEffect
<1>8. n \notin Turned /\ job.message \in Approves[n] => request \in ToCommit(state, n, m)
  <2>1. request \in m.committed_requests => n \in Turned
    BY <1>1 DEF FirstRound, m
  <2> QED BY <1>2, <1>3, <1>4, <2>1 DEF ToCommit, InStatus
<1> HIDE DEF after
<1>9. nodes'[n] = after
  BY <1>1 DEF after
<1>10. ASSUME NEW v \in Nodes
       PROVE  /\ ~Sent("SubmitShare", v)'
              /\ request \notin nodes'[v].shared_requests
              /\ request \in nodes'[v].committed_requests => v \in Turned'
              /\ Sent("SubmitCommitment", v)' \/ Counted(StatusIn(working), v) =>
                    v \in Turned' /\ nodes'[v].pending[request] # None
              /\ v \in Turned' /\ job.message \in Approves[v] =>
                    /\ emitted'
                    /\ \/ Sent("SubmitCommitment", v)' \/ Counted(StatusIn(working), v)
                       \/ StatusIn(working).tag = "Signing"
  <2>1. /\ ~Sent("SubmitShare", v)
        /\ request \notin nodes[v].shared_requests
        /\ request \in nodes[v].committed_requests => v \in Turned
        /\ Sent("SubmitCommitment", v) \/ Counted(StatusIn(working), v) =>
              v \in Turned /\ nodes[v].pending[request] # None
        /\ v \in Turned /\ job.message \in Approves[v] =>
              /\ emitted
              /\ \/ Sent("SubmitCommitment", v) \/ Counted(StatusIn(working), v)
                 \/ StatusIn(working).tag = "Signing"
    BY DEF FirstRound
  <2>2. CASE v = n
    BY <1>1, <1>4, <1>6, <1>7, <1>8, <1>9, <2>1, <2>2 DEF m
  <2>3. CASE v # n
    BY <1>1, <2>1, <2>3
  <2> QED BY <2>2, <2>3
<1>11. /\ StatusIn(working).tag \in {"AwaitingCommitments", "Signing"}
       /\ StatusIn(working).tag = "Signing" => Keys(StatusIn(working).shares) = {}
  BY DEF FirstRound
<1> QED BY <1>1, <1>2, <1>5, <1>10, <1>11 DEF FirstRound, RoundKept

(* Later: a participant shares in its turn, if it has not. *)
LEMMA LaterTurn ==
    ASSUME SessInv, AskedInv, LaterRound, ReactInTurn
    PROVE  LaterRound'
<1>0. PICK n : n = slate[turn]
  OBVIOUS
<1> DEFINE m == nodes[n]
<1>1. /\ RoundKept /\ working' = working /\ working = state
      /\ \A v \in Nodes : v # n => nodes'[v] = nodes[v]
      /\ Turned' = Turned \cup {n}
      /\ \A type, v : Sent(type, v) => Sent(type, v)'
      /\ request \in ToShare(state, n, m) => Sent("SubmitShare", n)'
  BY <1>0, TurnSends
<1>2. request \in Keys(state.requests) /\ slate \in Seq(Nodes)
  BY <1>1, RoundFacts, SessionFacts DEF RoundKept
<1>3. /\ StatusIn(state).tag # "AwaitingCommitments"
      /\ 2 < round => StatusIn(state).tag # "Signing"
  BY DEF LaterRound
<1>4. StatusIn(state)' = StatusIn(state) /\ StatusIn(working)' = StatusIn(working)
  BY <1>1 DEF RoundKept, StatusIn
<1>5. ASSUME StatusIn(working).tag = "Signing", NEW v \in StatusIn(working).participants
      PROVE  /\ v \in ToSet(slate)
             /\ \/ v \in Keys(StatusIn(working).shares)
                \/ Sent("SubmitShare", v)'
                \/ v \notin Turned' /\ Ready(v)'
  <2>1. /\ v \in ToSet(slate)
        /\ \/ v \in Keys(StatusIn(working).shares)
           \/ Sent("SubmitShare", v)
           \/ v \notin Turned /\ Ready(v)
    BY <1>5 DEF LaterRound
  <2>2. v \in Nodes
    BY <1>2, <2>1 DEF ToSet
  <2>3. CASE v = n /\ Ready(v) /\ v \notin Keys(StatusIn(working).shares)
    <3>1. request \in ToShare(state, n, m)
      BY <1>1, <1>2, <1>5, <2>3 DEF ToShare, InStatus, StatusIn, Ready
    <3> QED BY <1>1, <2>1, <2>3, <3>1
  <2>4. CASE v # n
    <3>1. Ready(v) => Ready(v)'
      BY <1>1, <2>2, <2>4 DEF Ready, RoundKept
    <3> QED BY <1>1, <2>1, <2>4, <3>1
  <2> QED BY <1>1, <2>1, <2>3, <2>4
<1> QED BY <1>1, <1>3, <1>4, <1>5 DEF LaterRound, RoundKept

(* A transaction of the round's block, seen from the request. *)
LEMMA ClosingPop ==
    ASSUME SessInv, AskedInv, pc = "closing", PopTx, NEW tx, tx = Head(mempool),
           state' = state, request' = request
    PROVE  /\ StatusStep(StatusIn(working), tx, request, StatusIn(working)')
           /\ \A type, v :
                 Sent(type, v) <=>
                    \/ Sent(type, v)'
                    \/ tx.type = type /\ tx.request_id = request /\ tx.validator = v
<1>1. InRound
  BY DEF InRound
<1>2. /\ mempool \in Seq(Tx) /\ working \in State /\ mempool # <<>> /\ mempool' = Tail(mempool)
      /\ CutIsExact(working) /\ HonestState(working) /\ working.group # None
  BY SessionFacts DEF PopTx, SessInv, SimInv, Safe, HonestSim
<1>3. tx \in Tx /\ ToSet(mempool) = {tx} \cup ToSet(mempool')
  BY <1>2, ToSetTail
<1>4. HonestTx(working, tx)
  BY <1>3 DEF SessInv, HonestSim
<1>5. request \in Keys(working.requests)
  BY <1>1, RoundFacts
<1>6. \/ Accepts(working, tx) /\ working' = apply_tx(working, tx)
      \/ ~Accepts(working, tx) /\ working' = working
  BY DEF PopTx
<1>7. StatusIn(working)' = working'.requests[request].status
      /\ StatusIn(working) = working.requests[request].status
  BY DEF StatusIn
<1>8. CASE Accepts(working, tx)
  <2>1. StatusStep(working.requests[request].status, tx, request,
                   apply_tx(working, tx).requests[request].status)
    BY <1>2, <1>3, <1>4, <1>5, <1>8, AcceptedStep
  <2>2. StatusStep(StatusIn(working), tx, request, StatusIn(working)')
    BY <1>6, <1>7, <1>8, <2>1
  <2> QED BY <1>3, <2>2 DEF Sent
<1>9. CASE ~Accepts(working, tx)
  <2>1. StatusStep(working.requests[request].status, tx, request, working.requests[request].status)
    BY <1>2, <1>3, <1>4, <1>5, <1>9, RejectedStep, SessionAssumption
  <2>2. StatusStep(StatusIn(working), tx, request, StatusIn(working)')
    BY <1>6, <1>7, <1>9, <2>1
  <2> QED BY <1>3, <2>2 DEF Sent
<1> QED BY <1>8, <1>9

LEMMA FirstPop ==
    ASSUME SessInv, AskedInv, FirstRound, pc = "closing", PopTx,
           state' = state, request' = request, job' = job, slate' = slate, turn' = turn,
           nodes' = nodes, emitted' = emitted
    PROVE  FirstRound'
<1>0. PICK tx : tx = Head(mempool)
  OBVIOUS
<1> DEFINE st == StatusIn(working)
           u == StatusIn(working)'
<1>1. /\ StatusStep(st, tx, request, u)
      /\ \A type, v :
            Sent(type, v) <=>
               \/ Sent(type, v)'
               \/ tx.type = type /\ tx.request_id = request /\ tx.validator = v
  BY <1>0, ClosingPop
<1>2. /\ StatusIn(state)' = StatusIn(state) /\ FreshStatus' = FreshStatus /\ Turned' = Turned
      /\ \A v : Counted(StatusIn(working), v)' <=> Counted(u, v)
  BY DEF StatusIn, FreshStatus, Turned, Counted
<1> HIDE DEF st, u
<1>3. /\ StatusIn(state) = FreshStatus
      /\ st.tag \in {"AwaitingCommitments", "Signing"}
      /\ st.tag = "Signing" => Keys(st.shares) = {}
      /\ \A v \in Nodes :
            /\ ~Sent("SubmitShare", v)
            /\ request \notin nodes[v].shared_requests
            /\ request \in nodes[v].committed_requests => v \in Turned
            /\ Sent("SubmitCommitment", v) \/ Counted(st, v) =>
                  v \in Turned /\ nodes[v].pending[request] # None
            /\ v \in Turned /\ job.message \in Approves[v] =>
                  /\ emitted
                  /\ Sent("SubmitCommitment", v) \/ Counted(st, v) \/ st.tag = "Signing"
  BY DEF FirstRound, st
<1>4. tx.type = "SubmitShare" /\ tx.request_id = request => FALSE
  <2>1. SUFFICES ASSUME tx.type = "SubmitShare", tx.request_id = request PROVE FALSE
    OBVIOUS
  <2>2. Sent("SubmitShare", tx.validator)
    BY <1>1, <2>1
  <2>3. tx \in ToSet(mempool) /\ request \in Keys(working.requests) /\ InRound
    <3>1. mempool \in Seq(Tx) /\ mempool # <<>>
      BY SessionFacts DEF PopTx
    <3> QED BY <1>0, <3>1, ToSetTail, RoundFacts DEF InRound
  <2>4. HonestTx(working, tx) /\ working.requests[request].status.tag # "AwaitingCommitments"
    BY <2>1, <2>3 DEF SessInv, HonestSim, HonestTx, HonestShare
  <2>5. st.tag = "Signing" /\ tx.validator \in st.participants
    BY <1>3, <2>1, <2>4 DEF HonestTx, HonestShare, st, StatusIn
  <2>6. tx.validator \in Nodes
    <3>1. HonestEntry(working.requests[request])
      BY <2>3, RoundFacts
    <3> QED BY <2>5, <3>1, SessionNodes DEF HonestEntry, Approving, st, StatusIn
  <2> QED BY <1>3, <2>2, <2>6
<1>5. /\ u.tag \in {"AwaitingCommitments", "Signing"}
      /\ u.tag = "Signing" => Keys(u.shares) = {}
  BY <1>1, <1>3, <1>4 DEF StatusStep
<1>6. ASSUME NEW v \in Nodes
      PROVE  /\ ~Sent("SubmitShare", v)'
             /\ Sent("SubmitCommitment", v)' \/ Counted(u, v) =>
                   v \in Turned /\ nodes[v].pending[request] # None
             /\ v \in Turned /\ job.message \in Approves[v] =>
                   /\ emitted
                   /\ Sent("SubmitCommitment", v)' \/ Counted(u, v) \/ u.tag = "Signing"
  <2>1. ~Sent("SubmitShare", v)'
    BY <1>1, <1>3
  <2>2. Counted(u, v) => Counted(st, v) \/ Sent("SubmitCommitment", v)
    BY <1>1, <1>4 DEF StatusStep, Counted
  <2>3. Sent("SubmitCommitment", v) \/ Counted(st, v) \/ st.tag = "Signing" =>
           Sent("SubmitCommitment", v)' \/ Counted(u, v) \/ u.tag = "Signing"
    BY <1>1, <1>3, <1>4 DEF StatusStep, Counted
  <2> QED BY <1>1, <1>3, <2>1, <2>2, <2>3
<1> QED BY <1>2, <1>3, <1>5, <1>6 DEF FirstRound, u

LEMMA LaterPop ==
    ASSUME SessInv, AskedInv, LaterRound, pc = "closing", PopTx,
           state' = state, request' = request, slate' = slate, turn' = turn,
           nodes' = nodes, round' = round
    PROVE  LaterRound'
<1>0. PICK tx : tx = Head(mempool)
  OBVIOUS
<1> DEFINE st == StatusIn(working)
           u == StatusIn(working)'
<1>1. /\ StatusStep(st, tx, request, u)
      /\ \A type, v :
            Sent(type, v) <=>
               \/ Sent(type, v)'
               \/ tx.type = type /\ tx.request_id = request /\ tx.validator = v
  BY <1>0, ClosingPop
<1>2. /\ StatusIn(state)' = StatusIn(state) /\ Turned' = Turned
      /\ \A v : Ready(v)' <=> Ready(v)
  BY DEF StatusIn, Turned, Ready
<1>3. /\ StatusIn(state).tag # "AwaitingCommitments" /\ st.tag # "AwaitingCommitments"
      /\ 2 < round => StatusIn(state).tag # "Signing"
  BY RoundFacts DEF LaterRound, InRound
<1> HIDE DEF st, u
<1>4. st.tag = "Signing" =>
        \A v \in st.participants :
            /\ v \in ToSet(slate)
            /\ v \in Keys(st.shares) \/ Sent("SubmitShare", v) \/ (v \notin Turned /\ Ready(v))
  BY DEF LaterRound, st
<1>5. ASSUME u.tag = "Signing", NEW v \in u.participants
      PROVE  /\ v \in ToSet(slate)
             /\ v \in Keys(u.shares) \/ Sent("SubmitShare", v)' \/ (v \notin Turned /\ Ready(v))
  <2>1. st.tag = "Signing" /\ u.participants = st.participants /\ Keys(st.shares) \subseteq Keys(u.shares)
    BY <1>1, <1>3, <1>5 DEF StatusStep
  <2>2. Sent("SubmitShare", v) => Sent("SubmitShare", v)' \/ v \in Keys(u.shares)
    BY <1>1, <1>3, <1>5, <2>1 DEF StatusStep
  <2> QED BY <1>4, <1>5, <2>1, <2>2
<1> QED BY <1>2, <1>3, <1>5 DEF LaterRound, u

----------------------------------------------------------------------------
(* The end of a round.                                                     *)

(* The slate has been gone through. *)
LEMMA AllTurned ==
    ASSUME SessInv, AskedInv, pc = "closing"
    PROVE  Turned = ToSet(slate) /\ ToSet(slate) \subseteq Nodes
<1>1. turn = Len(slate) + 1 /\ slate \in Seq(Nodes) /\ Len(slate) \in Nat
  BY SessionFacts DEF AskedInv, InRound
<1>2. 1 .. turn - 1 = 1 .. Len(slate) /\ DOMAIN slate = 1 .. Len(slate)
  BY <1>1
<1>3. \A i \in 1 .. Len(slate) : slate[i] \in Nodes
  BY <1>1
<1> QED BY <1>2, <1>3 DEF Turned, ToSet

(* The first round's block cuts the package: the willing nodes would be    *)
(* too many to wait for more.                                              *)
LEMMA FirstRoundCuts ==
    ASSUME 0 < Params.threshold, SessInv, KnownInv, AskedInv, FirstRound, Enough,
           pc = "closing", mempool = <<>>
    PROVE  StatusIn(working).tag = "Signing" /\ emitted
<1> DEFINE st == StatusIn(working)
           t == Params.threshold
<1>1. InRound /\ t \in Nat
  BY SessionAssumption, U16Typed DEF InRound, MpcParams
<1>2. /\ st \in RequestStatus /\ EntryExact(working.requests[request], working.group)
      /\ working.group.params.threshold = t
  BY <1>1, RoundFacts DEF KnownInv
<1>3. \A type, v : ~Sent(type, v)
  BY DEF Sent, ToSet
<1>4. Willing \subseteq Turned /\ Willing \subseteq Nodes
  BY AllTurned DEF Willing
<1>5. Cardinality(Willing) >= t
  BY DEF Enough
<1>6. ASSUME Willing = {} PROVE FALSE
  <2>1. Cardinality(Willing) = 0
    BY <1>6, FS_EmptySet
  <2> HIDE DEF t
  <2>2. 0 < t
    BY DEF t
  <2> QED BY <1>1, <1>5, <2>1, <2>2
<1>7. \A v \in Willing : emitted /\ (Counted(st, v) \/ st.tag = "Signing")
  BY <1>3, <1>4 DEF FirstRound, Willing
<1>8. ASSUME st.tag # "Signing" PROVE FALSE
  <2>1. st.tag = "AwaitingCommitments"
    BY <1>8 DEF FirstRound
  <2> DEFINE K == Keys(st.commitments)
  <2>2. Willing \subseteq K
    BY <1>7, <2>1 DEF Counted
  <2>3. IsFiniteSet(K) /\ Cardinality(K) \in Nat
    BY <1>2, <2>1, StatusFields, KeysFinite
  <2>4. K = {} \/ Cardinality(K) < t
    BY <1>2, <2>1 DEF EntryExact, StatusIn
  <2> HIDE DEF K
  <2>5. Willing \in SUBSET K
    BY <2>2
  <2>6. IsFiniteSet(Willing) /\ Cardinality(Willing) <= Cardinality(K)
    BY <2>3, <2>5, FS_Subset
  <2>7. Cardinality(Willing) \in Nat
    BY <2>6, FS_CardinalityType
  <2> QED BY <1>1, <1>5, <1>6, <2>2, <2>3, <2>4, <2>6, <2>7
<1> QED BY <1>6, <1>7, <1>8

(* The second round's block completes the request, with a signature that   *)
(* fits the action.                                                        *)
LEMMA LaterRoundCompletes ==
    ASSUME 0 < Params.threshold, SessInv, KnownInv, AskedInv, LaterRound,
           pc = "closing", mempool = <<>>
    PROVE  /\ StatusIn(working).tag = "Completed"
           /\ apply_signature_ok(StatusIn(working).signature)
<1> DEFINE e == working.requests[request]
           st == StatusIn(working)
           t == Params.threshold
<1>1. InRound /\ t \in Nat
  BY SessionAssumption, U16Typed DEF InRound, MpcParams
<1>2. /\ HonestEntry(e) /\ EntryExact(e, working.group) /\ working.group.params.threshold = t
      /\ e.message = job.message /\ e.randomizer = job.alphas[idx] /\ working.group.pkp = GroupKey
      /\ st.tag \in {"AwaitingCommitments", "Signing", "Completed", "Failed"}
      /\ st = e.status
  BY <1>1, RoundFacts DEF KnownInv, StatusIn
<1>3. st.tag # "AwaitingCommitments"
  BY <1>1, RoundFacts DEF LaterRound
<1>4. st.tag # "Failed"
  BY <1>2 DEF HonestEntry
<1>5. ASSUME st.tag = "Signing" PROVE FALSE
  <2>1. \A type, v : ~Sent(type, v)
    BY DEF Sent, ToSet
  <2>2. \A v \in st.participants : v \in Keys(st.shares)
    BY <1>5, <2>1, AllTurned DEF LaterRound
  <2>3. /\ Cardinality(st.participants) = t /\ Keys(st.shares) \subseteq st.participants
        /\ st.participants = {} \/ Keys(st.shares) # st.participants
    BY <1>2, <1>5 DEF EntryExact
  <2>4. st.participants = {}
    BY <2>2, <2>3
  <2>5. Cardinality({}) = 0
    BY FS_EmptySet
  <2> QED BY <1>1, <2>3, <2>4, <2>5
<1>6. st.tag = "Completed"
  BY <1>2, <1>3, <1>4, <1>5
<1>7. st.signature = [message |-> e.message, randomizer |-> e.randomizer, pkp |-> working.group.pkp]
  BY <1>2, <1>6 DEF EntryExact
<1> QED BY <1>2, <1>6, <1>7 DEF apply_signature_ok

(* What the client makes of it: round one of a bundle is followed by       *)
(* another, and a later one is the last.                                   *)
LEMMA FirstVerdict ==
    ASSUME 2 <= MaxRounds, SessInv, job # None, round = 1, emitted, NEW st, st.tag = "Signing"
    PROVE  Verdict(st) \in {"Again", "NotCompleted"}
<1>1. /\ job.kind \in {"pczt", "demo"} /\ MaxRounds \in Nat
      /\ job.kind = "demo" => job.rounds \in Nat /\ round <= job.rounds
  BY SessionFacts
<1>2. CASE job.kind = "demo"
  <2>1. round = job.rounds \/ round < job.rounds
    BY <1>1, <1>2
  <2> QED BY <1>1, <1>2, <2>1 DEF Verdict
<1>3. CASE job.kind = "pczt"
  <2>1. ~GivesUp
    BY <1>1 DEF GivesUp
  <2> QED BY <1>3, <2>1 DEF Verdict
<1> QED BY <1>1, <1>2, <1>3

LEMMA LaterVerdict ==
    ASSUME SessInv, job # None, NEW st, st.tag = "Completed", apply_signature_ok(st.signature)
    PROVE  Verdict(st) = "Applied" \/ (job.kind = "demo" /\ Verdict(st) = "Again")
<1>1. /\ job.kind \in {"pczt", "demo"} /\ round \in Nat
      /\ job.kind = "demo" => job.rounds \in Nat /\ round <= job.rounds
  BY SessionFacts
<1>2. CASE job.kind = "demo" /\ round < job.rounds
  BY <1>1, <1>2 DEF Verdict
<1>3. CASE job.kind = "demo" => round = job.rounds
  BY <1>1, <1>3 DEF Verdict
<1> QED BY <1>1, <1>2, <1>3

LEMMA ClosedRound ==
    ASSUME 0 < Params.threshold, 2 <= MaxRounds, SessInv, SessInv', RoundsInv, Closed
    PROVE  /\ AskedInv'
           /\ InRound' => round' = round + 1
           /\ InRound' /\ Enough' => LaterRound'
           /\ TwoRoundsAreEnough'
<1> DEFINE st == StatusIn(working)
           verdict == IF EntryAfter(working) = None THEN "RequestMissing"
                      ELSE Verdict(EntryAfter(working).status)
<1>1. /\ pc = "closing" /\ EndBlock /\ nodes' = nodes /\ job' = job /\ slate' = slate
      /\ \/ verdict = "Applied" /\ pc' = "action" /\ EndSession /\ result' = result
         \/ /\ verdict = "Again" /\ BeginRound /\ result' = result
            /\ request' = request /\ idx' = idx
         \/ verdict \in Errors /\ Return(verdict)
  BY DEF Closed
<1>2. InRound /\ AskedInv /\ KnownInv /\ round \in Nat /\ 1 <= round
  BY <1>1, SessionFacts DEF RoundsInv, InRound, AskedInv
<1>3. /\ mempool = <<>> /\ mempool' = <<>> /\ state' = working /\ working' = working
  BY <1>1 DEF EndBlock
<1>4. /\ job # None /\ request \in Keys(working.requests) /\ result = None
      /\ working.requests[request].message = job.message
      /\ working.requests[request].randomizer = job.alphas[idx]
  BY <1>1, <1>2, RoundFacts DEF SessInv, StageInv
<1>5. verdict = Verdict(st)
  BY <1>4 DEF EntryAfter, StatusIn, Keys
<1>6. Enough' <=> Enough
  BY <1>1 DEF Enough, Willing
<1> HIDE DEF verdict
<1>7. ASSUME Enough, round = 1
      PROVE  st.tag = "Signing" /\ verdict \in {"Again", "NotCompleted"} /\ FirstRound
  <2>1. FirstRound
    BY <1>2, <1>7 DEF RoundsInv, InRound
  <2>2. st.tag = "Signing" /\ emitted
    BY <1>1, <1>2, <1>3, <1>7, <2>1, FirstRoundCuts
  <2> HIDE DEF st
  <2> QED BY <1>4, <1>5, <1>7, <2>1, <2>2, FirstVerdict
<1>8. ASSUME Enough, 2 <= round
      PROVE  st.tag = "Completed" /\ (verdict = "Applied" \/ (job.kind = "demo" /\ verdict = "Again"))
  <2>1. LaterRound
    BY <1>2, <1>8 DEF RoundsInv, InRound
  <2>2. st.tag = "Completed" /\ apply_signature_ok(st.signature)
    BY <1>1, <1>2, <1>3, <2>1, LaterRoundCompletes
  <2> HIDE DEF st
  <2> QED BY <1>4, <1>5, <2>2, LaterVerdict
<1>9. InRound' => /\ verdict = "Again" /\ pc' = "react" /\ round' = round + 1 /\ turn' = 1
                  /\ request' = request /\ idx' = idx /\ result' = result
  BY <1>1 DEF InRound, BeginRound, Return
<1>10. AskedInv'
  <2>1. SUFFICES ASSUME InRound' PROVE AskedInv'
    BY DEF AskedInv, InRound
  <2>2. 1 <= round'
    BY <1>2, <1>9, <2>1
  <2> QED BY <1>1, <1>3, <1>4, <1>9, <2>1, <2>2 DEF AskedInv
<1>11. ASSUME InRound', Enough' PROVE LaterRound'
  <2>1. /\ StatusIn(state)' = st /\ StatusIn(working)' = st /\ slate' = slate
        /\ \A v : Ready(v)' <=> Ready(v)
    BY <1>1, <1>3, <1>9, <1>11 DEF StatusIn, Ready
  <2>2. Turned' = {}
    <3>1. 1 .. turn' - 1 = {}
      BY <1>9, <1>11
    <3> QED BY <3>1 DEF Turned
  <2>3. CASE round = 1
    <3>1. st.tag = "Signing" /\ FirstRound
      BY <1>6, <1>7, <1>11, <2>3
    <3>2. round' = 2
      BY <1>9, <1>11, <2>3
    <3>3. ASSUME NEW v \in st.participants PROVE v \in ToSet(slate) /\ Ready(v)
      <4>1. Counted(st, v)
        BY <3>1 DEF Counted
      <4>2. v \in Nodes
        <5>1. HonestEntry(working.requests[request])
          BY <1>2, RoundFacts
        <5> QED BY <3>1, <5>1, SessionNodes DEF HonestEntry, Approving, StatusIn
      <4> QED BY <1>1, <1>2, <3>1, <4>1, <4>2, AllTurned DEF FirstRound, Ready
    <3> HIDE DEF st
    <3> QED BY <2>1, <2>2, <3>1, <3>2, <3>3 DEF LaterRound
  <2>4. CASE 2 <= round
    <3>1. st.tag = "Completed"
      BY <1>6, <1>8, <1>11, <2>4
    <3> HIDE DEF st
    <3> QED BY <2>1, <3>1 DEF LaterRound
  <2> QED BY <1>2, <2>3, <2>4
<1>12. TwoRoundsAreEnough'
  <2> SUFFICES ASSUME Enough
               PROVE  /\ job'.kind = "pczt" => round' <= 2
                      /\ result' \notin {"StuckBeforeCompletion", "AggregationFailed",
                                         "RequestMissing", "ApplyRejected"}
    BY <1>6 DEF TwoRoundsAreEnough, Enough
  <2>1. verdict \in {"Again", "NotCompleted", "Applied"}
    BY <1>2, <1>7, <1>8
  <2>2. None \notin {"StuckBeforeCompletion", "AggregationFailed", "RequestMissing", "ApplyRejected"}
    BY SessionAssumption DEF Errors
  <2>3. result' \notin {"StuckBeforeCompletion", "AggregationFailed", "RequestMissing", "ApplyRejected"}
    BY <1>1, <1>4, <2>1, <2>2 DEF Return
  <2>4. job'.kind = "pczt" => round' <= 2
    <3>1. CASE InRound'
      <4>1. job.kind = "pczt" => round = 1
        BY <1>2, <1>8, <1>9, <3>1
      <4> QED BY <1>1, <1>9, <3>1, <4>1
    <3>2. CASE ~InRound'
      BY <1>1, <3>2 DEF InRound, BeginRound, EndSession, Return
    <3> QED BY <3>1, <3>2
  <2> QED BY <2>3, <2>4
<1> QED BY <1>9, <1>10, <1>11, <1>12

----------------------------------------------------------------------------
(* The invariant.                                                          *)

LEMMA RoundsInit == Init => RoundsInv
<1> SUFFICES ASSUME Init PROVE RoundsInv
  OBVIOUS
<1>1. /\ state = InitGroupNext(DefaultState, InitGroupTx) /\ mempool = <<>>
      /\ nodes = [n \in Nodes |-> NewNode(0)] /\ pc = "idle" /\ job = None
  BY DEF Init
<1>2. state.group.params = Params
  BY <1>1 DEF InitGroupNext, DefaultState, InitGroupTx
<1>3. \A n \in Nodes : nodes[n].committed_requests = {} /\ nodes[n].shared_requests = {}
  BY <1>1 DEF NewNode
<1>4. ToSet(mempool) = {}
  BY <1>1 DEF ToSet
<1>5. KnownInv
  BY <1>2, <1>3, <1>4 DEF KnownInv, NodesKnown
<1> QED BY <1>1, <1>5 DEF InRound, RoundsInv, OpeningInv, AskedInv, TwoRoundsAreEnough

(* A step that is not in a round, or ends one, with an error that is not   *)
(* one of giving up.                                                       *)
LEMMA OutsideRounds ==
    ASSUME SessInv, KnownInv', TwoRoundsAreEnough, pc' \in {"idle", "action"},
           round' = 0,
           \/ job' = job /\ slate' = slate
           \/ result' = None,
           \/ result' = result
           \/ result' \in {None, "Ok", "ActionMissingAlpha", "SubmitRequestRejected", "ValidatorReact"}
    PROVE  RoundsInv'
<1>1. None \notin {"StuckBeforeCompletion", "AggregationFailed", "RequestMissing", "ApplyRejected"}
  BY SessionAssumption DEF Errors
<1>2. TwoRoundsAreEnough'
  BY <1>1 DEF TwoRoundsAreEnough, Willing
<1> QED BY <1>2 DEF InRound, RoundsInv, OpeningInv, AskedInv

(* A step of a round that leaves the request's status, the nodes and the   *)
(* mempool alone.                                                          *)
LEMMA RoundIdles ==
    ASSUME SessInv, RoundsInv, KnownInv',
           mempool' = mempool, state' = state, working' = working, nodes' = nodes,
           job' = job, slate' = slate, idx' = idx, request' = request, round' = round,
           turn' = turn, emitted' = emitted, result' = result,
           \/ pc' = pc
           \/ pc = "react" /\ pc' = "closing" /\ turn = Len(slate) + 1
    PROVE  RoundsInv'
<1>1. /\ \A type, v : Sent(type, v)' <=> Sent(type, v)
      /\ \A v : Ready(v)' <=> Ready(v)
      /\ \A v : Counted(StatusIn(working), v)' <=> Counted(StatusIn(working), v)
      /\ Turned' = Turned /\ FreshStatus' = FreshStatus
      /\ StatusIn(state)' = StatusIn(state) /\ StatusIn(working)' = StatusIn(working)
      /\ Enough' <=> Enough
      /\ AskTx(request)' = AskTx(request)
  BY DEF Sent, Ready, Counted, Turned, FreshStatus, StatusIn, Enough, Willing, AskTx
<1>2. FirstRound => FirstRound'
  BY <1>1 DEF FirstRound
<1>3. LaterRound => LaterRound'
  BY <1>1 DEF LaterRound
<1>4. TwoRoundsAreEnough => TwoRoundsAreEnough'
  BY DEF TwoRoundsAreEnough, Willing
<1>5. AskedInv => AskedInv'
  BY DEF InRound, AskedInv
<1>6. OpeningInv => OpeningInv'
  BY <1>1 DEF OpeningInv
<1> QED BY <1>1, <1>2, <1>3, <1>4, <1>5, <1>6 DEF RoundsInv, InRound

LEMMA BlockStepRounds ==
    ASSUME SessInv, SessInv', RoundsInv, KnownInv', BlockStep
    PROVE  RoundsInv'
<1>1. /\ pc \in {"opening", "closing"} /\ (BeginBlock \/ PopTx)
      /\ nodes' = nodes /\ pc' = pc /\ job' = job /\ slate' = slate /\ idx' = idx
      /\ request' = request /\ round' = round /\ turn' = turn /\ emitted' = emitted
      /\ result' = result /\ state' = state
  BY DEF BlockStep, BeginBlock, PopTx
<1>2. CASE BeginBlock
  <2>1. mempool' = mempool /\ working' = working
    BY <1>2 DEF BeginBlock
  <2> QED BY <1>1, <2>1, RoundIdles
<1>3. CASE PopTx
  <2>1. KnownInv /\ OpeningInv /\ AskedInv
    BY DEF RoundsInv
  <2>2. OpeningInv'
    <3>1. CASE pc = "opening"
      BY <1>1, <1>3, <2>1, <3>1, OpeningPop
    <3>2. CASE pc # "opening"
      BY <1>1, <3>2 DEF OpeningInv
    <3> QED BY <3>1, <3>2
  <2>3. AskedInv' /\ TwoRoundsAreEnough' /\ (Enough' <=> Enough)
    BY <1>1 DEF InRound, RoundsInv, AskedInv, TwoRoundsAreEnough, Enough, Willing
  <2>4. pc = "closing" /\ FirstRound => FirstRound'
    BY <1>1, <1>3, <2>1, FirstPop
  <2>5. pc = "closing" /\ LaterRound => LaterRound'
    BY <1>1, <1>3, <2>1, LaterPop
  <2> QED BY <1>1, <2>2, <2>3, <2>4, <2>5 DEF RoundsInv, InRound
<1> QED BY <1>1, <1>2, <1>3

LEMMA TurnRounds ==
    ASSUME SessInv, SessInv', RoundsInv, KnownInv', ReactInTurn
    PROVE  RoundsInv'
<1>1. AskedInv /\ pc = "react" /\ pc' = pc /\ result' = result
  BY DEF ReactInTurn, RoundsInv
<1>2. RoundKept
  BY <1>1, TurnSends
<1>3. AskedInv' /\ TwoRoundsAreEnough' /\ (Enough' <=> Enough) /\ OpeningInv'
  BY <1>1, <1>2 DEF InRound, RoundsInv, AskedInv, TwoRoundsAreEnough, Enough, Willing, RoundKept, OpeningInv
<1>4. (FirstRound => FirstRound') /\ (LaterRound => LaterRound')
  BY <1>1, FirstTurn, LaterTurn
<1> QED BY <1>1, <1>2, <1>3, <1>4 DEF RoundsInv, RoundKept

LEMMA RoundsNext ==
    ASSUME 0 < Params.threshold, 2 <= MaxRounds
    PROVE  SessInv /\ SessInv' /\ RoundsInv /\ [Next]_vars => RoundsInv'
<1> SUFFICES ASSUME SessInv, SessInv', RoundsInv, [Next]_vars PROVE RoundsInv'
  OBVIOUS
<1>1. KnownInv' /\ KnownInv /\ OpeningInv /\ AskedInv /\ TwoRoundsAreEnough
  BY KnownStays DEF RoundsInv
<1>2. CASE \E j \in Jobs, s \in Slates : Call(j, s)
  <2>1. pc' = "action" /\ result' = None /\ round' = 0
    BY <1>2 DEF Call, Locals, SessInv, StageInv
  <2> QED BY <1>1, <2>1, OutsideRounds
<1>3. CASE AllSigned \/ MissingAlpha \/ ReactFails
  <2>1. /\ pc' = "idle" /\ round' = 0 /\ job' = job /\ slate' = slate
        /\ result' \in {"Ok", "ActionMissingAlpha", "ValidatorReact"}
    BY <1>3 DEF AllSigned, MissingAlpha, ReactFails, Return, EndSession
  <2> QED BY <1>1, <2>1, OutsideRounds
<1>4. ASSUME NEW r \in Uuids, Ask(r) PROVE RoundsInv'
  <2>1. /\ pc' = "opening" /\ round' = 0 /\ job' = job /\ slate' = slate /\ result' = result
    BY <1>4 DEF Ask
  <2>2. OpeningInv'
    BY <1>4, AskOpens
  <2>3. AskedInv' /\ TwoRoundsAreEnough'
    BY <1>1, <2>1 DEF InRound, AskedInv, TwoRoundsAreEnough, Willing
  <2> QED BY <1>1, <2>1, <2>2, <2>3 DEF RoundsInv, InRound
<1>5. CASE BlockStep
  BY <1>1, <1>5, BlockStepRounds
<1>6. CASE Opened
  <2>1. /\ job' = job /\ slate' = slate
        /\ \/ pc' = "idle" /\ round' = 0 /\ result' = "SubmitRequestRejected"
           \/ pc' = "react" /\ result' = result
    BY <1>6 DEF Opened, Return, EndSession, BeginRound
  <2>2. CASE pc' = "idle" /\ round' = 0 /\ result' = "SubmitRequestRejected"
    BY <1>1, <2>1, <2>2, OutsideRounds
  <2>3. CASE pc' = "react" /\ result' = result
    <3>1. round' = 1 /\ AskedInv' /\ FirstRound'
      BY <1>1, <1>6, <2>3, OpenedRound
    <3>2. TwoRoundsAreEnough' /\ OpeningInv'
      BY <1>1, <2>1, <2>3, <3>1 DEF TwoRoundsAreEnough, Willing, OpeningInv
    <3> QED BY <1>1, <2>3, <3>1, <3>2 DEF RoundsInv, InRound
  <2> QED BY <2>1, <2>2, <2>3
<1>7. CASE ReactInTurn
  BY <1>1, <1>7, TurnRounds
<1>8. CASE AllReacted
  <2>1. /\ UNCHANGED simVars /\ nodes' = nodes /\ job' = job /\ slate' = slate /\ idx' = idx
        /\ request' = request /\ round' = round /\ turn' = turn /\ emitted' = emitted
        /\ result' = result /\ pc = "react" /\ pc' = "closing" /\ turn > Len(slate)
    BY <1>8 DEF AllReacted, Locals
  <2>2. turn = Len(slate) + 1
    BY <2>1, SessionFacts
  <2> QED BY <1>1, <2>1, <2>2, RoundIdles DEF simVars
<1>9. CASE Closed
  <2>1. /\ AskedInv' /\ TwoRoundsAreEnough'
        /\ InRound' => round' = round + 1
        /\ InRound' /\ Enough' => LaterRound'
    BY <1>9, ClosedRound
  <2>2. pc = "closing" /\ pc' # "opening" /\ round \in Nat /\ 1 <= round
    BY <1>1, <1>9, SessionFacts DEF InRound, Closed, Return, BeginRound, AskedInv
  <2>3. InRound' => round' # 1
    BY <2>1, <2>2
  <2>4. OpeningInv'
    BY <2>2 DEF OpeningInv
  <2> QED BY <1>1, <2>1, <2>3, <2>4 DEF RoundsInv, InRound
<1>10. CASE LeaveTx \/ \E n \in Nodes : ReactOutside(n) \/ Rebuild(n)
  <2>1. pc' = "idle" /\ round' = 0 /\ job' = job /\ slate' = slate /\ result' = result
    BY <1>10 DEF LeaveTx, ReactOutside, Rebuild, Meddle, sessionVars, Locals, SessInv, StageInv
  <2> QED BY <1>1, <2>1, OutsideRounds
<1>11. CASE UNCHANGED vars
  <2>1. /\ UNCHANGED simVars /\ nodes' = nodes /\ job' = job /\ slate' = slate /\ idx' = idx
        /\ request' = request /\ round' = round /\ turn' = turn /\ emitted' = emitted
        /\ result' = result /\ pc' = pc
    BY <1>11 DEF vars, sessionVars, Locals
  <2> QED BY <1>1, <2>1, RoundIdles DEF simVars
<1> QED BY <1>2, <1>3, <1>4, <1>5, <1>6, <1>7, <1>8, <1>9, <1>10, <1>11 DEF Next, Step

(* As long as the slate holds threshold nodes that approve the message,    *)
(* drive_signing_session needs two rounds, never gives up and never meets  *)
(* an aggregation or a signature that fails, whatever earlier calls left   *)
(* in the chain, the mempool and the nodes.  The threshold is not 0, as    *)
(* MpcParams::new sees to (InitGroup does not), and the loop's bound, 8 in *)
(* the code, is at least 2.                                                *)
THEOREM SessionTwoRoundsAreEnough ==
    ASSUME 0 < Params.threshold, 2 <= MaxRounds
    PROVE  Spec => []TwoRoundsAreEnough
<1>1. Init => RoundsInv
  BY RoundsInit
<1>2. SessInv /\ SessInv' /\ RoundsInv /\ [Next]_vars => RoundsInv'
  BY RoundsNext
<1>3. RoundsInv => TwoRoundsAreEnough
  BY DEF RoundsInv
<1> QED BY <1>1, <1>2, <1>3, SessionInvariant, PTL DEF Spec
=============================================================================
