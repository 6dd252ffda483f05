------------------------------- MODULE Session ------------------------------
(***************************************************************************)
(* The clients that drive the chain and the nodes through a signing        *)
(* session in one thread: sign_pczt_orchard_bundle, which calls            *)
(* drive_signing_session for one action of the bundle after the other      *)
(* (sapphire-zcash), and the escrow demo of the command line, which makes  *)
(* a fixed number of rounds.  They hold the chain and the nodes by &mut,   *)
(* so nothing else happens during a call.                                  *)
(*                                                                         *)
(* Between two calls the owner of the chain and the nodes is free: it may  *)
(* leave a transaction in the mempool, let a node react to the state and   *)
(* submit what it returns, or rebuild a node from its stored bundle.       *)
(*                                                                         *)
(* A signature is applied to an action by Orchard (external), which        *)
(* verifies it over the sighash under the action's alpha.  A Uuid is drawn *)
(* at random: any that is not in use.  The conversions between the two     *)
(* encodings of a scalar and of a signature do not fail and are left out.  *)
(***************************************************************************)
EXTENDS ChainSim, Node, Escrow

CONSTANTS
    Params,       \* the group's MpcParams
    Policies,     \* Policies[n]: the SignPolicy of node n
    Jobs,         \* the calls that are made: see Job
    Slates,       \* the slices of nodes they are made with, as sequences
    MaxRounds,    \* drive_signing_session's loop bound (8)
    MaxCalls,     \* bound: calls
    MaxMeddling   \* bound: what the owner does between calls

Nodes == DOMAIN Policies

(* A bundle to sign, or a run of the demo: one message, the randomizer of  *)
(* every action, and for the demo the number of rounds.                    *)
Job == [kind : {"pczt"}, message : Messages, alphas : Seq(Randomizers \cup {None})]
       \cup [kind : {"demo"}, message : Messages, alphas : Seq(Randomizers), rounds : Nat \ {0}]

(* What a call can return other than Ok. *)
Errors == {"ActionMissingAlpha", "SubmitRequestRejected", "ValidatorReact", "AggregationFailed",
           "StuckBeforeCompletion", "RequestMissing", "ApplyRejected", "NotCompleted"}

ASSUME SessionAssumption ==
    /\ Nodes \subseteq Keys(GroupKey)
    /\ Params \in MpcParams
    /\ Approves = [n \in Nodes |-> {m \in Messages : approve(Policies[n], m) = "Ok"}]
    /\ Jobs \subseteq Job /\ None \notin Jobs /\ None \notin Errors \cup {"Ok"}
    /\ Slates \subseteq Seq(Nodes)
    /\ {MaxRounds, MaxCalls, MaxMeddling} \subseteq Nat /\ MaxRounds > 0

VARIABLES
    nodes,     \* nodes[n]: the memory of node n
    pc,        \* where the call is
    job,       \* what the call signs
    slate,     \* `validators`
    idx,       \* the action being signed
    request,   \* request_id
    round,     \* rounds begun for this request
    turn,      \* position in the slate of the node that reacts next
    emitted,   \* emitted_any
    refused,   \* a transaction of the opening block was rejected
    applied,   \* the signatures applied to the bundle so far
    result,    \* what the last call returned
    calls,     \* calls so far
    meddled    \* what the owner has done between calls, counted

Locals == <<request, round, turn, emitted, refused>>
sessionVars == <<pc, job, slate, idx, Locals, applied, result>>
vars == <<simVars, nodes, sessionVars, calls, meddled>>

InitGroupTx ==
    [type |-> "InitGroup", params |-> Params, pkp |-> GroupKey, validators |-> Keys(GroupKey)]

Stages == {"idle", "action", "opening", "react", "closing"}

(* The group is installed and nothing has been asked yet. *)
Init ==
    /\ state = InitGroupNext(DefaultState, InitGroupTx)
    /\ mempool = <<>>
    /\ block_height = 1
    /\ last_block = <<InitGroupTx>>
    /\ in_block = FALSE
    /\ working = state
    /\ accepted = <<>>
    /\ log = {InitGroupTx}
    /\ nodes = [n \in Nodes |-> NewNode(0)]
    /\ pc = "idle"
    /\ job = None /\ slate = <<>>
    /\ idx = 1 /\ request = None /\ round = 0 /\ turn = 1
    /\ emitted = FALSE /\ refused = FALSE
    /\ applied = <<>> /\ result = None
    /\ calls = 0 /\ meddled = 0

----------------------------------------------------------------------------
(* Between calls.                                                          *)

Meddle ==
    /\ pc = "idle"
    /\ calls < MaxCalls
    /\ meddled < MaxMeddling
    /\ meddled' = meddled + 1
    /\ UNCHANGED <<sessionVars, calls>>

(* A transaction the chain will reject is left in the mempool. *)
LeaveTx ==
    /\ Meddle
    /\ Submit(InitGroupTx)
    /\ UNCHANGED nodes

(* A node is asked to react, and what it returns is submitted: nothing,    *)
(* when it fails.  Calls that change nothing are left out.                 *)
ReactOutside(n) ==
    /\ Meddle
    /\ Out(state, n, nodes[n]) # <<>> \/ MemoryAfter(state, n, nodes[n]) # nodes[n]
    /\ SubmitAll(Out(state, n, nodes[n]))
    /\ nodes' = [nodes EXCEPT ![n] = MemoryAfter(state, n, nodes[n])]

(* Node::new on the stored bundle, of a node that has something to lose. *)
Rebuild(n) ==
    /\ Meddle
    /\ nodes[n] # NewNode(nodes[n].drawn)
    /\ nodes' = [nodes EXCEPT ![n] = NewNode(nodes[n].drawn)]
    /\ UNCHANGED simVars

(* A call begins.  Bound: there are ids left for all its requests. *)
Call(j, s) ==
    /\ pc = "idle"
    /\ calls < MaxCalls
    /\ Cardinality(Uuids \ Keys(state.requests)) >= Len(j.alphas)
    /\ calls' = calls + 1
    /\ pc' = "action"
    /\ job' = j /\ slate' = s
    /\ idx' = 1 /\ applied' = <<>> /\ result' = None
    /\ UNCHANGED <<simVars, nodes, Locals, meddled>>

----------------------------------------------------------------------------
(* The call.                                                               *)

(* drive_signing_session returns: its local variables are gone. *)
EndSession ==
    /\ request' = None /\ round' = 0 /\ turn' = 1
    /\ emitted' = FALSE /\ refused' = FALSE

Return(r) ==
    /\ pc' = "idle"
    /\ result' = r
    /\ EndSession

(* The loop over the actions ends: Ok(()). *)
AllSigned ==
    /\ pc = "action"
    /\ idx > Len(job.alphas)
    /\ Return("Ok")
    /\ UNCHANGED <<simVars, nodes, job, slate, idx, applied, calls, meddled>>

(* Mutant: an action without alpha is passed over. *)
MissingAlpha_Skip ==
    /\ pc = "action"
    /\ idx <= Len(job.alphas)
    /\ job.alphas[idx] = None
    /\ idx' = idx + 1
    /\ UNCHANGED <<simVars, nodes, pc, job, slate, Locals, applied, result, calls, meddled>>

MissingAlpha ==
    /\ pc = "action"
    /\ idx <= Len(job.alphas)
    /\ job.alphas[idx] = None
    /\ Return("ActionMissingAlpha")
    /\ UNCHANGED <<simVars, nodes, job, slate, idx, applied, calls, meddled>>

(* The request is submitted, behind whatever the mempool holds. *)
Ask(r) ==
    /\ pc = "action"
    /\ idx <= Len(job.alphas)
    /\ job.alphas[idx] # None
    /\ r \notin Keys(state.requests)
    /\ Submit([type |-> "SubmitRequest", request_id |-> r, message |-> job.message,
               randomizer |-> job.alphas[idx]])
    /\ pc' = "opening"
    /\ request' = r /\ round' = 0 /\ refused' = FALSE
    /\ UNCHANGED <<nodes, job, slate, idx, turn, emitted, applied, result, calls, meddled>>

(* commit_block up to its last step; the opening block's errors are noted. *)
BlockStep ==
    /\ pc \in {"opening", "closing"}
    /\ BeginBlock \/ PopTx
    /\ refused' = (refused \/ /\ pc = "opening" /\ in_block
                              /\ ~Accepts(working, Head(mempool)))
    /\ UNCHANGED <<nodes, pc, job, slate, idx, request, round, turn, emitted, applied, result,
                   calls, meddled>>

BeginRound ==
    /\ pc' = "react"
    /\ round' = round + 1
    /\ turn' = 1 /\ emitted' = FALSE

(* The opening block is done.  drive_signing_session returns on any error  *)
(* in it; the demo does not look.                                          *)
Opened ==
    /\ pc = "opening"
    /\ EndBlock
    /\ \/ /\ refused /\ job.kind = "pczt"
          /\ Return("SubmitRequestRejected")
       \/ /\ ~refused \/ job.kind = "demo"
          /\ BeginRound
          /\ UNCHANGED <<request, result, refused>>
    /\ UNCHANGED <<nodes, job, slate, idx, applied, calls, meddled>>

(* The next node of the slate reacts. *)
ReactInTurn ==
    /\ pc = "react"
    /\ turn <= Len(slate)
    /\ LET n == slate[turn]
           out == Out(state, n, nodes[n])
       IN  /\ Failing(state, n, nodes[n]) = {}
           /\ SubmitAll(out)
           /\ nodes' = [nodes EXCEPT ![n] = MemoryAfter(state, n, nodes[n])]
           /\ emitted' = (emitted \/ out # <<>>)
    /\ turn' = turn + 1
    /\ UNCHANGED <<pc, job, slate, idx, request, round, refused, applied, result, calls, meddled>>

(* react fails: the call returns at once, and what the nodes before it     *)
(* have submitted stays in the mempool.                                    *)
ReactFails ==
    /\ pc = "react"
    /\ turn <= Len(slate)
    /\ LET n == slate[turn]
       IN  /\ Failing(state, n, nodes[n]) # {}
           /\ nodes' = [nodes EXCEPT ![n] = MemoryAfter(state, n, nodes[n])]
    /\ Return("ValidatorReact")
    /\ UNCHANGED <<simVars, job, slate, idx, applied, calls, meddled>>

(* Mutant: the nodes are polled until one of them has something to say. *)
AllReacted_Polls ==
    /\ pc = "react"
    /\ turn > Len(slate)
    /\ pc' = IF emitted THEN "closing" ELSE "react"
    /\ turn' = IF emitted THEN turn ELSE 1
    /\ UNCHANGED <<simVars, nodes, job, slate, idx, request, round, emitted, refused, applied, result,
                   calls, meddled>>

AllReacted ==
    /\ pc = "react"
    /\ turn > Len(slate)
    /\ pc' = "closing"
    /\ UNCHANGED <<simVars, nodes, job, slate, idx, Locals, applied, result, calls, meddled>>

(* Action::apply_signature, external. *)
apply_signature_ok(signature) ==
    signature = [message |-> job.message, randomizer |-> job.alphas[idx], pkp |-> GroupKey]

(* The two ways out of the loop with a request that is not finished. *)
GivesUp == ~emitted \/ round = MaxRounds

(* What the client makes of the request's status after a round. *)
Verdict(status) ==
    CASE status.tag = "Completed" /\ (job.kind = "demo" => round = job.rounds) ->
            IF apply_signature_ok(status.signature) THEN "Applied" ELSE "ApplyRejected"
      [] job.kind = "demo" /\ round < job.rounds -> "Again"
      [] job.kind = "demo" /\ round = job.rounds /\ status.tag # "Completed" -> "NotCompleted"
      [] job.kind = "pczt" /\ status.tag = "Failed" -> "AggregationFailed"
      [] job.kind = "pczt" /\ status.tag \in {"AwaitingCommitments", "Signing"} ->
            IF GivesUp THEN "StuckBeforeCompletion" ELSE "Again"

(* Mutant: the entry that is looked at is the oldest one. *)
EntryAfter_First(s) == s.requests[CHOOSE r \in Keys(s.requests) : \A q \in Keys(s.requests) : r <= q]

(* chain.state.requests.get(&request_id) *)
EntryAfter(s) == s.requests[request]

(* The round's block is done: the signature goes to the action and the     *)
(* next one is taken up, or there is another round, or the call is over.   *)
Closed ==
    /\ pc = "closing"
    /\ EndBlock
    /\ LET entry == EntryAfter(working)
           verdict == IF entry = None THEN "RequestMissing" ELSE Verdict(entry.status)
       IN  \/ /\ verdict = "Applied"
              /\ applied' = Append(applied, entry.status.signature)
              /\ idx' = idx + 1
              /\ pc' = "action"
              /\ EndSession
              /\ UNCHANGED result
           \/ /\ verdict = "Again"
              /\ BeginRound
              /\ UNCHANGED <<request, refused, applied, idx, result>>
           \/ /\ verdict \in Errors
              /\ Return(verdict)
              /\ UNCHANGED <<applied, idx>>
    /\ UNCHANGED <<nodes, job, slate, calls, meddled>>

Step ==
    \/ AllSigned
    \/ MissingAlpha
    \/ \E r \in Uuids : Ask(r)
    \/ BlockStep
    \/ Opened
    \/ ReactInTurn
    \/ ReactFails
    \/ AllReacted
    \/ Closed

Next ==
    \/ \E j \in Jobs, s \in Slates : Call(j, s)
    \/ Step
    \/ LeaveTx
    \/ \E n \in Nodes : ReactOutside(n) \/ Rebuild(n)

(* The thread that runs a call is not stopped in the middle of it. *)
Spec == Init /\ [][Next]_vars /\ WF_vars(Step)

----------------------------------------------------------------------------
(* Properties.                                                             *)

(* How often the nodes are asked for one request. *)
Rounds == IF job = None THEN 0 ELSE IF job.kind = "demo" THEN job.rounds ELSE MaxRounds

(* The session's variables, like the chain's, keep their types. *)
SessionTypeOK ==
    /\ TypeOK
    /\ nodes \in [Nodes -> NodeMemory]
    /\ pc \in Stages
    /\ job \in Jobs \cup {None} /\ slate \in Slates \cup {<<>>}
    /\ request \in Uuids \cup {None}
    /\ round \in 0 .. Rounds
    /\ turn \in 1 .. Len(slate) + 1
    /\ idx \in 1 .. (IF job = None THEN 0 ELSE Len(job.alphas)) + 1
    /\ {emitted, refused} \subseteq BOOLEAN
    /\ result \in Errors \cup {"Ok", None}
    /\ calls \in 0 .. MaxCalls /\ meddled \in 0 .. MaxMeddling

(* How a bundle is left, whatever ends the call: the actions before the    *)
(* one being signed, and no other, carry a signature, each of the sighash  *)
(* and under its own alpha; and Ok means all of them do.                   *)
SignedUpToHere ==
    job # None =>
        /\ Len(applied) = idx - 1
        /\ \A i \in DOMAIN applied :
              applied[i] = [message |-> job.message, randomizer |-> job.alphas[i], pkp |-> GroupKey]
        /\ result = "Ok" => Len(applied) = Len(job.alphas)

(* The nodes in the slate whose policies let them sign the job's message. *)
Willing == {n \in ToSet(slate) : job.message \in Approves[n]}

(* A session with enough willing nodes needs two rounds, commitments and   *)
(* shares, and never gives up, whatever earlier calls have left behind in  *)
(* the chain, the mempool and the nodes.                                   *)
TwoRoundsAreEnough ==
    job # None /\ Cardinality(Willing) >= Params.threshold =>
        /\ job.kind = "pczt" => round <= 2
        /\ result \notin {"StuckBeforeCompletion", "AggregationFailed", "RequestMissing",
                          "ApplyRejected"}

(* The validating signer: a release that is signed, now or later, moves    *)
(* what the terms in the registry of every escrow node among its signers   *)
(* say, and such a node signs nothing but releases.                        *)
EscrowHonoured ==
    \A r \in Keys(state.requests) : state.requests[r].status.tag = "Completed" =>
        \A n \in state.requests[r].status.participants :
            Policies[n].kind = "Escrow" =>
                LET m == state.requests[r].message
                IN  /\ m.kind = "release"
                    /\ m.escrow_id \in DOMAIN Policies[n].escrows
                    /\ LET terms == Policies[n].escrows[m.escrow_id]
                       IN  /\ m.intent.payment.amount = terms.amount
                           /\ m.intent.payment.to = terms.payee
                           /\ Policies[n].verifier = "HashPreimage" =>
                                 terms.condition = digest(m.intent.witness)

(* What the oracle command says of message m under the terms node n holds  *)
(* for it, at a given height.                                              *)
OracleSays(n, m, height) == oracle_verdict(Policies[n].escrows[m.escrow_id], m, height)

(* Node n is an escrow signer that holds the terms of the settlement m and *)
(* checks hash preimages, as the command does.                             *)
Concerned(n, m) ==
    /\ m.kind # "sighash"
    /\ Policies[n].kind = "Escrow" /\ Policies[n].verifier = "HashPreimage"
    /\ m.escrow_id \in DOMAIN Policies[n].escrows

(* No escrow node it concerns ever has nonces for a settlement that the    *)
(* oracle command refuses (`no signature') both before the timeout and     *)
(* from then on, or takes part in signing it.                              *)
OracleRefusalHolds ==
    \A r \in Keys(state.requests) : \A n \in Nodes :
        LET m == state.requests[r].message
            status == state.requests[r].status
        IN  /\ Concerned(n, m)
            /\ LET timeout == Policies[n].escrows[m.escrow_id].timeout_height
               IN  \A h \in {timeout - 1, timeout} : OracleSays(n, m, h) # "Ok"
            => /\ nodes[n].pending[r] = None
               /\ status.tag = "AwaitingCommitments" => status.commitments[n] = None
               /\ status.tag \in {"Signing", "Completed"} => n \notin status.participants

(* The nodes in the slate of which the oracle command, asked at the        *)
(* timeout, says that they `would sign' the job's message, and those that  *)
(* sign anything.                                                          *)
WouldSign ==
    {n \in ToSet(slate) :
        \/ Policies[n].kind = "AcceptAll"
        \/ /\ Concerned(n, job.message)
           /\ OracleSays(n, job.message, Policies[n].escrows[job.message.escrow_id].timeout_height) = "Ok"}

(* A settlement that enough nodes would sign, as the oracle command has    *)
(* it, is signed in the two rounds the demo makes.                         *)
OracleAcceptanceHolds ==
    job # None /\ job.kind = "demo" /\ Cardinality(WouldSign) >= Params.threshold =>
        (job.rounds >= 2 => result # "NotCompleted")

(* An error of react clears its cause: the nonces that do not fit are      *)
(* gone, and the node does not fail on the same request again, so a call   *)
(* that is repeated gets past it.                                          *)
ReactErrorIsTransient ==
    [][\A n \in Nodes : Failing(state, n, nodes[n]) # {} /\ nodes'[n] # nodes[n] =>
          Cardinality(Failing(state, n, nodes'[n])) < Cardinality(Failing(state, n, nodes[n]))]_vars

(* Every call returns. *)
CallReturns == pc # "idle" ~> pc = "idle"
=============================================================================
