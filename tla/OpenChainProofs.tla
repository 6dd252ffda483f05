--------------------------- MODULE OpenChainProofs --------------------------
(***************************************************************************)
(* The properties of OpenChain, for every set of identifiers, requests and *)
(* payloads, every set of scenarios, and every bound: the mempool and the     *)
(* number of blocks are not limited in the argument.                       *)
(***************************************************************************)
EXTENDS OpenChain, ChainProofs

(* What may be submitted stays a set of transactions. *)
OpenInv == SimInv /\ inputs \subseteq Tx

(* One step of the open chain. *)
LEMMA StepInv ==
    ASSUME OpenInv, [Next]_vars
    PROVE  OpenInv' /\ Progress
<1>1. inputs' = inputs
  BY DEF Next, vars
<1> SUFFICES SimInv' /\ Progress
  BY <1>1 DEF OpenInv
<1>2. ASSUME NEW tx \in inputs, Submit(tx) PROVE SimInv' /\ Progress
  <2>1. <<tx>> \in Seq(Tx)
    BY DEF OpenInv
  <2> QED BY <1>2, <2>1, SubmitAllInv DEF Submit, OpenInv
<1>3. CASE BeginBlock
  BY <1>3, BeginBlockInv DEF OpenInv
<1>4. CASE PopTx
  BY <1>4, PopTxInv DEF OpenInv
<1>5. CASE EndBlock
  BY <1>5, EndBlockInv DEF OpenInv
<1>6. CASE UNCHANGED vars
  <2>1. /\ state' = state /\ working' = working /\ log' = log /\ in_block' = in_block
        /\ block_height' = block_height /\ last_block' = last_block /\ accepted' = accepted
        /\ mempool' = mempool
    BY <1>6 DEF vars
  <2>2. TypeOK'
    BY <2>1 DEF OpenInv, SimInv, TypeOK
  <2>3. Progress
    BY <2>1, MovesForwardSelf DEF OpenInv, SimInv, TypeOK, Progress
  <2>4. SimInv'
    BY <2>1, <2>2 DEF OpenInv, SimInv
  <2> QED BY <2>3, <2>4
<1> QED BY <1>2, <1>3, <1>4, <1>5, <1>6 DEF Next

(* The inductive invariant holds throughout. *)
THEOREM OpenChainInvariant == Spec => []OpenInv
<1>1. Init => OpenInv
  BY SimInitInv, ScenariosAssumption DEF Init, OpenInv
<1>2. OpenInv /\ [Next]_vars => OpenInv'
  BY StepInv
<1> QED BY <1>1, <1>2, PTL DEF Spec

(* The simulator's variables keep their types: apply_tx never builds a     *)
(* state that State does not describe.                                     *)
THEOREM OpenChainTyped == Spec => []TypeOK
<1>1. OpenInv => TypeOK
  BY DEF OpenInv, SimInv
<1> QED BY <1>1, OpenChainInvariant, PTL

(* InitGroup and DkgBegin exclude each other, and no request is on a chain *)
(* without a group, whatever is submitted in whatever order.               *)
THEOREM OpenChainGroupExclusive == Spec => []GroupExclusive
<1>1. OpenInv => GroupExclusive
  BY DEF OpenInv, SimInv, Safe, GroupExclusive
<1> QED BY <1>1, OpenChainInvariant, PTL

(* For any number of members the counters of a ceremony say exactly that   *)
(* every member, or every ordered pair of members, has posted; rounds come *)
(* in order and finalizers agree.                                          *)
THEOREM OpenChainCeremonyOrdered == Spec => []CeremonyOrdered
<1>1. OpenInv => CeremonyOrdered
  BY DEF OpenInv, SimInv, Safe, CeremonyOrdered
<1> QED BY <1>1, OpenChainInvariant, PTL

(* For any threshold and any number of validators, exactly threshold of    *)
(* them sign a request, over the package cut from their commitments.       *)
THEOREM OpenChainThresholdCut == Spec => []ThresholdCut
<1>1. OpenInv => ThresholdCut
  BY DEF OpenInv, SimInv, Safe, ThresholdCut
<1> QED BY <1>1, OpenChainInvariant, PTL

(* A transaction that was accepted is rejected ever after. *)
THEOREM OpenChainReplayRejected == Spec => []ReplayRejected
<1>1. OpenInv => ReplayRejected
  <2> SUFFICES ASSUME OpenInv, NEW tx \in log PROVE ~Accepts(working, tx)
    BY DEF ReplayRejected
  <2>1. working \in State /\ tx \in Tx /\ OneGroup(working) /\ Recorded(working, tx)
    BY DEF OpenInv, SimInv, TypeOK, Safe
  <2> QED BY <2>1, RecordedRejected
<1> QED BY <1>1, OpenChainInvariant, PTL

(* The group, once published, never changes. *)
THEOREM OpenChainGroupIsFinal == Spec => GroupIsFinal
<1>1. OpenInv /\ [Next]_vars => [state.group # None => state'.group = state.group]_vars
  BY StepInv DEF Progress
<1> QED BY <1>1, OpenChainInvariant, PTL DEF Spec, GroupIsFinal

(* From one published state to the next, over all the transactions of a    *)
(* block, requests only move forward.                                      *)
THEOREM OpenChainRequestsMoveForward == Spec => RequestsMoveForward
<1>1. OpenInv /\ [Next]_vars => [MovesForward(state, state')]_vars
  BY StepInv DEF Progress
<1> QED BY <1>1, OpenChainInvariant, PTL DEF Spec, RequestsMoveForward

(* A ceremony becomes a group only through the finalize of its last        *)
(* member, with the key that all members have derived.                     *)
THEOREM OpenChainPromotionAgreed == Spec => PromotionAgreed
<1> DEFINE Agreed ==
             working.ceremony # None /\ working'.group # None =>
               LET c == working.ceremony
                   g == working'.group
               IN  /\ g.validators = Keys(c.validators)
                   /\ g.params = c.params
                   /\ \A v \in Keys(c.finalize) : c.finalize[v] = g.pkp
                   /\ \E v \in g.validators :
                        /\ Keys(c.finalize) \cup {v} = g.validators
                        /\ Head(mempool) = [type |-> "DkgFinalize", from |-> v, pkp |-> g.pkp]
<1>1. ASSUME OpenInv, [Next]_vars PROVE Agreed
  <2> SUFFICES ASSUME working.ceremony # None, working'.group # None PROVE Agreed
    OBVIOUS
  <2>1. OneGroup(working) /\ CeremonyInOrder(working) /\ working \in State
        /\ mempool \in Seq(Tx)
    BY <1>1 DEF OpenInv, SimInv, Safe, TypeOK
  <2>2. working.group = None
    BY <2>1 DEF OneGroup
  <2>3. working' # working
    BY <2>2
  <2>4. PopTx /\ mempool # <<>> /\ Accepts(working, Head(mempool))
        /\ working' = apply_tx(working, Head(mempool))
    BY <1>1, <2>3 DEF Next, Submit, SubmitAll, BeginBlock, PopTx, EndBlock, vars
  <2>5. Head(mempool) \in Tx
    BY <2>1, <2>4
  <2> QED BY <2>1, <2>4, <2>5, ApplyPromotes
<1>2. OpenInv /\ [Next]_vars => [Agreed]_vars
  BY <1>1
<1> QED BY <1>2, OpenChainInvariant, PTL DEF Spec, PromotionAgreed
=============================================================================
