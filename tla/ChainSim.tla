------------------------------ MODULE ChainSim ------------------------------
(***************************************************************************)
(* sapphire-chain/src/sim.rs: one chain state, a FIFO mempool, and         *)
(* commit_block, which drains the mempool through apply_tx.                *)
(*                                                                         *)
(* submit and commit_block take &mut self, so nothing runs while a block   *)
(* is being built.  Each turn of commit_block's loop is a step of its own  *)
(* here (PopTx), and in_block keeps every other operation out until        *)
(* EndBlock publishes the result: the sequence BeginBlock, PopTx*,         *)
(* EndBlock is the one call.                                               *)
(*                                                                         *)
(* This module has the simulator's state and operations and what a chain   *)
(* state must satisfy; who calls the operations is said by the modules     *)
(* that extend it: OpenChain (anybody), Signing (nodes), Dkg (participants).*)
(***************************************************************************)
EXTENDS Chain, Sequences

VARIABLES
    state,         \* ChainSim.state: what validators observe
    mempool,       \* ChainSim.mempool
    block_height,  \* ChainSim.block_height
    last_block,    \* ChainSim.last_block: the transactions the last block accepted
    in_block,      \* TRUE while commit_block runs
    working,       \* commit_block's local `state`; equal to state between blocks
    accepted,      \* commit_block's local `accepted`
    log            \* history: every transaction ever accepted

simVars == <<state, mempool, block_height, last_block, in_block, working, accepted, log>>

(* ChainSim::new() *)
SimInit ==
    /\ state = DefaultState
    /\ mempool = <<>>
    /\ block_height = 0
    /\ last_block = <<>>
    /\ in_block = FALSE
    /\ working = DefaultState
    /\ accepted = <<>>
    /\ log = {}

(* One caller pushing a list of transactions: submit for each of them. *)
SubmitAll(txs) ==
    /\ ~in_block
    /\ mempool' = mempool \o txs
    /\ UNCHANGED <<state, block_height, last_block, in_block, working, accepted, log>>

Submit(tx) == SubmitAll(<<tx>>)

BeginBlock ==
    /\ ~in_block
    /\ in_block' = TRUE
    /\ UNCHANGED <<state, mempool, block_height, last_block, working, accepted, log>>

(* The loop body: Ok replaces the local state, Err drops the transaction. *)
PopTx ==
    /\ in_block
    /\ mempool # <<>>
    /\ mempool' = Tail(mempool)
    /\ \/ /\ Accepts(working, Head(mempool))
          /\ working' = apply_tx(working, Head(mempool))
          /\ accepted' = Append(accepted, Head(mempool))
          /\ log' = log \cup {Head(mempool)}
       \/ /\ ~Accepts(working, Head(mempool))
          /\ UNCHANGED <<working, accepted, log>>
    /\ UNCHANGED <<state, block_height, last_block, in_block>>

EndBlock ==
    /\ in_block
    /\ mempool = <<>>
    /\ state' = working
    /\ last_block' = accepted
    /\ block_height' = block_height + 1
    /\ in_block' = FALSE
    /\ accepted' = <<>>
    /\ UNCHANGED <<mempool, working, log>>

----------------------------------------------------------------------------
(* What a chain state, and a step of the chain, must satisfy.              *)

(* The simulator's variables keep their types. *)
TypeOK ==
    /\ state \in State
    /\ working \in State
    /\ mempool \in Seq(Tx)
    /\ accepted \in Seq(Tx)
    /\ last_block \in Seq(Tx)
    /\ log \subseteq Tx
    /\ block_height \in Nat
    /\ in_block \in BOOLEAN

(* The two ways of setting up a group exclude each other: once a ceremony  *)
(* is open InitGroup cannot slip a group under it, promotion closes the    *)
(* ceremony, and no request exists without a group to sign it.             *)
OneGroup(s) ==
    /\ s.group = None \/ s.ceremony = None
    /\ s.group = None => Keys(s.requests) = {}

(* The ordered pairs of distinct members: one round-2 envelope each. *)
Pairs(V) == {p \in V \X V : p[1] # p[2]}

(* What apply_tx keeps true of an open ceremony: posts come from members   *)
(* and pairs of members only, no round starts before the counters say that *)
(* the one before it is complete, and not everybody has finalized.         *)
RoundsCounted(c) ==
    LET V == Keys(c.validators)
    IN  /\ Cardinality(V) = c.params.total
        /\ Keys(c.round1) \subseteq V
        /\ Keys(c.round2) \subseteq Pairs(V)
        /\ Keys(c.finalize) \subseteq V
        /\ Keys(c.round2) # {} => r1_complete(c)
        /\ Keys(c.finalize) # {} => r2_complete(c)
        /\ V # {} => Keys(c.finalize) # V

(* Counting is enough: r1_complete and r2_complete, which compare numbers, *)
(* tell exactly whether every member, and every ordered pair of members,   *)
(* has posted.                                                             *)
RoundsCovered(c) ==
    LET V == Keys(c.validators)
    IN  /\ r1_complete(c) <=> Keys(c.round1) = V
        /\ r2_complete(c) <=> Keys(c.round2) = Pairs(V)

(* Whoever has finalized an open ceremony has derived the same key. *)
FinalizersAgree(c) ==
    \A v, w \in Keys(c.finalize) : c.finalize[v] = c.finalize[w]

(* An open ceremony is in order. *)
CeremonyInOrder(s) ==
    s.ceremony # None =>
        RoundsCounted(s.ceremony) /\ RoundsCovered(s.ceremony) /\ FinalizersAgree(s.ceremony)

(* The threshold cut is exact.  A request waits with fewer commitments     *)
(* than the threshold; it signs with exactly threshold participants, all   *)
(* of them validators, whose commitments and nobody else's are in the      *)
(* package, over the message that was requested; and a completed request   *)
(* carries a signature of that message by that many validators under the   *)
(* group's key.                                                            *)
EntryExact(e, group) ==
    LET st == e.status
        t == group.params.threshold
    IN  /\ st.tag = "AwaitingCommitments" =>
             /\ Keys(st.commitments) \subseteq group.validators
             /\ Keys(st.commitments) = {} \/ Cardinality(Keys(st.commitments)) < t
        /\ st.tag \in {"Signing", "Completed"} =>
             /\ st.participants \subseteq group.validators
             /\ Cardinality(st.participants) = t
        /\ st.tag = "Signing" =>
             /\ Keys(st.signing_package.commitments) = st.participants
             /\ st.signing_package.message = e.message
             /\ Keys(st.shares) \subseteq st.participants
             /\ st.participants = {} \/ Keys(st.shares) # st.participants
        /\ st.tag = "Completed" =>
             st.signature = [message |-> e.message, randomizer |-> e.randomizer,
                             pkp |-> group.pkp]

CutIsExact(s) == \A r \in Keys(s.requests) : EntryExact(s.requests[r], s.group)

Rank(st) ==
    CASE st.tag = "AwaitingCommitments" -> 0
      [] st.tag = "Signing" -> 1
      [] OTHER -> 2

(* From one observed state to the next a request keeps what it asks for,   *)
(* its status never goes back, commitments and shares are only added, the  *)
(* package being signed stays as it was cut, and an outcome is final.      *)
MovesForward(s, t) ==
    \A r \in Keys(s.requests) :
        LET e == s.requests[r]
            f == t.requests[r]
        IN  /\ f # None
            /\ f.message = e.message
            /\ f.randomizer = e.randomizer
            /\ Rank(e.status) <= Rank(f.status)
            /\ Rank(e.status) = 2 => f.status = e.status
            /\ Rank(e.status) = 1 /\ Rank(f.status) = 1 =>
                 /\ f.status.signing_package = e.status.signing_package
                 /\ \A v \in Keys(e.status.shares) : f.status.shares[v] = e.status.shares[v]
            /\ Rank(e.status) = 0 /\ Rank(f.status) = 0 =>
                 \A v \in Keys(e.status.commitments) :
                     f.status.commitments[v] = e.status.commitments[v]
=============================================================================
