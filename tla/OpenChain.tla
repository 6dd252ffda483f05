------------------------------ MODULE OpenChain -----------------------------
(***************************************************************************)
(* The simulator open to the world: any transaction of the execution's     *)
(* inputs may be submitted, any number of times, in any order, before any  *)
(* block.  Nothing in a Tx says who sent it, so apply_tx has to keep the   *)
(* chain right for all of them.                                            *)
(***************************************************************************)
EXTENDS ChainSim

CONSTANTS
    Scenarios,   \* the sets of transactions, one of which an execution draws from
    MaxMempool,  \* bound: transactions waiting at once
    MaxHeight    \* bound: blocks committed

ASSUME ScenariosAssumption == \A I \in Scenarios : I \subseteq Tx

VARIABLE
    inputs       \* the transactions that may be submitted in this execution

vars == <<state, mempool, block_height, last_block, in_block, working, accepted, log, inputs>>

Init == SimInit /\ inputs \in Scenarios

Next ==
    /\ \/ \E tx \in inputs : Len(mempool) < MaxMempool /\ Submit(tx)
       \/ block_height < MaxHeight /\ BeginBlock
       \/ PopTx
       \/ EndBlock
    /\ UNCHANGED inputs

Spec == Init /\ [][Next]_vars

----------------------------------------------------------------------------
(* Properties.  They are asked of the published state and of the state     *)
(* commit_block is working on.                                             *)

(* OneGroup of the chain, at every moment: InitGroup and DkgBegin cannot both win. *)
GroupExclusive == OneGroup(state) /\ OneGroup(working)

(* CeremonyInOrder of the chain, at every moment: rounds are covered in    *)
(* order although apply_tx only counts.                                    *)
CeremonyOrdered == CeremonyInOrder(state) /\ CeremonyInOrder(working)

(* CutIsExact of the chain, at every moment: threshold signers, no more and no fewer. *)
ThresholdCut == CutIsExact(state) /\ CutIsExact(working)

(* A transaction that was accepted once is rejected ever after, whatever   *)
(* was accepted in between: apply_tx can be fed duplicates.                *)
ReplayRejected == \A tx \in log : ~Accepts(working, tx)

(* Once a group exists it never changes. *)
GroupIsFinal == [][state.group # None => state'.group = state.group]_vars

(* MovesForward holds of every step of the simulator. *)
RequestsMoveForward == [][MovesForward(state, state')]_vars

(* A ceremony becomes a group only with the key that every member derived: *)
(* all but one had finalized with it, and the last one does now.           *)
PromotionAgreed ==
    [][working.ceremony # None /\ working'.group # None =>
         LET c == working.ceremony
             g == working'.group
         IN  /\ g.validators = Keys(c.validators)
             /\ g.params = c.params
             /\ \A v \in Keys(c.finalize) : c.finalize[v] = g.pkp
             /\ \E v \in g.validators :
                  /\ Keys(c.finalize) \cup {v} = g.validators
                  /\ Head(mempool) = [type |-> "DkgFinalize", from |-> v, pkp |-> g.pkp]]_vars
=============================================================================
