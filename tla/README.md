# Sapphire in TLA+

Specifications, model-checking runs and machine-checked proofs for Sapphire, a
threshold-signing network for Zcash: validators run FROST key generation and
FROST signing by posting transactions to a replicated state machine, and each of
them refuses to sign what its policy rejects.

## 1. The system

| component | state | operations | interacts with |
|---|---|---|---|
| coordination state machine, `sapphire-chain/src/state.rs`, `tx.rs` | `State`: `ceremony`, `group`, `requests` | `apply_tx` over eight transactions | called by the simulator, or on each validator's replica |
| chain simulator, `sim.rs` | one `State`, FIFO `mempool`, `block_height`, `last_block` | `submit`, `commit_block` | callers of nodes and participants |
| DKG envelopes, `dkg_envelope.rs` | none | `seal`, `open` | DKG participant |
| signing node, `sapphire-node/src/lib.rs` | key bundle, `pending` nonces, `committed_requests`, `shared_requests`, policy | `new`, `commit`, `react` | reads a `State`, returns transactions |
| signing policy, `policy.rs`; escrow predicates, `sapphire-escrow` | registered escrow terms | `approve`, `validate_settlement`, `validate_refund` | asked by `react` before a commitment |
| DKG participant, `sapphire-node/src/dkg.rs` | envelope key, round secrets, three flags, derived key | `new`, `react`, `into_node` | reads a `State`, returns transactions |
| validator mesh with codec and handshake, `sapphire-net` | a broadcast ring, a bounded incoming queue, one Noise connection per pair | `start`, `broadcast`, dialer, listener, reader and writer tasks | carries transactions between replicas |
| signing-session driver, `sapphire-zcash/src/lib.rs`; PCZT signing, `pczt.rs` | none of their own | submit a request, cycle react / commit_block | simulator and nodes |
| in-process key generation, core types, command line | none that lasts | | set-up of the above |

What makes it hard: validators act on a state that is older than the
transactions they have already sent; a signing nonce must never be used twice;
nodes keep nonces and DKG secrets in memory only, so a restart falls between any
two steps; an error in the middle of `react` loses what the call had collected;
every completeness test of the ceremony is a count; in the mesh arrangement
every validator applies transactions in an order of its own; the mesh's tasks
share bounded queues, a ring that overwrites and connections that break; and a
driver's call starts from whatever the previous ones left behind. `PROJECT.json`
lists these hazards at their lines.

## 2. The modules

| module | models | composes |
|---|---|---|
| `Chain` | `apply_tx` and its types, as constant operators: guard `XOk` and result `XNext` per transaction | |
| `ChainSim` | `ChainSim`; the definitions of what a chain state must satisfy | `Chain` |
| `OpenChain` | the simulator fed with any transactions of a scenario by anybody | `ChainSim` |
| `Node` | `Node::react` as an operator on (state, identifier, memory) | `Chain` |
| `Signing` | client, nodes, restarts, one chain | `ChainSim`, `Node`, `SigningService` (refines it) |
| `Dkg` | coordinator, `DkgParticipant`s, restarts, one chain | `ChainSim`, `Keygen` |
| `LossyFifo` | abstract: what the mesh promises, at most once, in order, or lost | |
| `Mesh` | `sapphire-net`: dialing, handshake, ring, tasks, queues, faults | `LossyFifo` (refines it) |
| `SigningService` | abstract: what the protocol promises a client | |
| `Replicas` | one state per validator, links that may lose | `Node`, `LossyFifo` (built on it), `SigningService` (refines it) |
| `Escrow` | the predicates, verifiers, policies, and the verdict of `oracle` | |
| `Session` | `drive_signing_session`, the PCZT loop, the demo's requests | `ChainSim`, `Node`, `Escrow` |
| `Keygen` | `generate_with_dkg` | `Chain` |
| `MC*` | constants for TLC | |
| `ChainProofs` | lemmas about `apply_tx`, one per transaction and property, and the simulator's inductive invariant | `ChainSim` |
| `NodeProofs` | lemmas about `react`, and what on a chain was made by an honest node | `Node`, `ChainProofs` |
| `OpenChainProofs`, `SigningProofs`, `DkgProofs`, `SessionProofs`, `ReplicasProofs`, `MeshProofs` | the theorems of the module named | that module, `ChainProofs` (not `Mesh`), `NodeProofs` (`Signing`, `Session`, `Replicas`) |

**Chain.** A `BTreeMap` is a function to values or `None`. Every early return of
`apply_tx` is a conjunct of the guard; as a rejected transaction leaves the state
alone, which error it was does not matter. Random values are `<<who drew it,
number of the draw>>`. A public key package is the function from members to the
round-1 polynomials it was built from. A signature share is the record of what it
was computed from (nonces, package, randomizer, key), and FROST's `aggregate`
(external) succeeds exactly if that is what it verifies against. `MpcParams` is
what serde accepts, any two `u16`; the cast `len as u16` is kept. For
`total = 0` the code's `total - 1` wraps in a release build to a product of 0, as
in the model; a debug build stops there.

**ChainSim.** `submit` and `commit_block` take `&mut self`. A turn of
`commit_block`'s loop is a step (`PopTx`), between `BeginBlock` and `EndBlock`
nothing else happens, and `working` is the call's local state. `log` is a history
variable: every transaction ever accepted.

**Node, Signing.** `react` visits the requests in the order of their ids and
stops at the first error. `Done` and `Reached` are the requests it gets through
and gets to, so that memory already changed and transactions lost are both
modelled. A restart is `Node::new` on the stored bundle: nonces and both sets
are gone. The RNG never repeats. Shares of all nodes are of one key whose degree
fits the group's threshold. `signed` is a history variable: the shares made, in
`Replicas` with the validator and the request each was made for.

**Dkg.** `DkgParticipant::react` is split at its early returns, one action each;
calls that change nothing are left out. FROST's three parts are external, and each
can fail: `part1` refuses a threshold or a total below 2, which `MpcParams::new` lets
pass (the participant then changes nothing, and the ceremony stays where it is);
`part2` refuses a package whose proof of knowledge does not verify (`FailRound2`:
the round-1 secret has been taken out of its `Option`); `part3` accepts an evaluation
only if it lies on the polynomial its sender posted (`FailFinalize`). `apply_tx` checks
none of this, so `PostFaulty` lets a package on the chain that is in a member's name
and not drawn by it. `Offered` is what the coordinator may open the ceremony with. A
restart is `DkgParticipant::new`.

**Mesh.** One process per node and process number; a connection is named by the
process that dials it, and each end is a task with a stage (`dialing`, `msg1` ..
`msg3`, `live`, `closed`), a cursor into the process's ring, and the reader and
writer it runs once live. The order the code fixes is kept: the dialer subscribes
to the ring before it connects, the listener when it accepts, the dialer is live
before the responder has checked who dialled. `Lag` is `RecvError::Lagged`,
`DropOversize` the refusal of `encrypt_frame`. After a connection is `down` a write
may still succeed and be lost; reader and writer end separately. A broken
connection, a crash, and a caller that drops its receiver (`DropReceiver`: the queue
is gone, and each reader ends with the next frame it has) are faults; a restart is
`Mesh::start`. The readers of a node's connections feed one queue, so what a restarted
peer sends may overtake what its old process had sent. `peers` is a
variable chosen initially, so that a node can be dialled by one it does not know.
The address of a peer leads to the holder of the peer's key, so the initiator's own
check of that key always succeeds. tokio's channels, TCP and Noise are external:
in order, or broken.

**LossyFifo, Replicas.** `Replicas` takes its `Send`, `Deliver` and `Lose` from
`LossyFifo`, the specification `Mesh` implements. Nothing in `src/` wires nodes to
the mesh; the module does it the way `tests/mesh_converges.rs` (79-99) does: the
caller hands a transaction to `Mesh::broadcast` and then applies it to its own
state. What a `react` returns goes into the validator's `outbox` and leaves it one
transaction at a time (`Post`), so that a frame of another validator may be applied
between two of them; `react` is called again when the outbox is empty. The group is
installed on every replica.

**SigningService.** A request is asked for and gets at most one outcome, for ever:
the group's signature of what was asked, by threshold members whose policies
approve. The refinement mapping reads the outcomes off the state being built
(`Signing`), or off all replicas together (`Replicas`).

**Escrow, Session.** The policies are functions of the message; `Session` gives
each node a policy and derives from it the set `Approves` that `Node` uses. A call
is a *job*: the actions of a bundle with their alphas (or `None`), or a request of
the demo with its fixed number of rounds. `pc` follows the code: `action` (top of
the loop over actions), `opening` (the block with the request), `react` (node
after node of the slice passed in), `closing` (the round's block, and what is made
of the request's status). Between calls the owner of the chain may leave a
transaction that will be rejected, let a node react (with or without an error), or
rebuild a node. `oracle_verdict` is what the `oracle` command prints for a settlement
at a height.

**Keygen.** The three rounds as functions, with the error of `part1`; the groups of the
MC modules are its result.

## 3. The runs

| run | question | bounds |
|---|---|---|
| `chain` | do InitGroup and the ceremony exclude each other, are rounds complete when the counters say so, is only an agreed key promoted; is the cut exact, does a request only move forward; are replays rejected | one of three scenarios: a ceremony of two among three identifiers, so that there is a stranger, with wrong transactions among the inputs; a 2-of-3 group, two contents for one id, shares for each of the three packages; groups with a threshold of 0 and of 4 out of 3, and a ceremony of nobody; two transactions waiting, six blocks |
| `signing` | are approved requests signed, by approving nodes, with shares that aggregate and nonces used once | three nodes, threshold two, two requests, one of which node 1 rejects; no restart |
| `signing_restart` | do restarts endanger the safety of that, or the service the client sees | same, one restart anywhere; nodes react while fewer than two transactions wait |
| `restart_loses_nonces`, `restart_loses_commitment` | what a restart does break (findings) | same, mempool not bounded |
| `dkg` | does a ceremony end, with everybody holding the group's key; can restarts make the chain promote a wrong one | three participants, a threshold of two or of one, two restarts anywhere, one faulty package |
| `replicas` | can diverged replicas complete one request twice; what makes an aggregation fail | three validators, one request, one lost transaction |
| `replicas_diverge` | does delivery of everything make replicas equal (finding) | same, nothing lost |
| `mesh` | is the mesh its contract; is a loss always logged; does it drain; who is heard | two nodes, ring and incoming queue of one, sockets of two frames, two attempts to connect, two broadcasts, one fault (a broken connection, a crash or a dropped receiver) |
| `mesh_no_redial` | is a disconnect transient (finding) | same |
| `session` | does every call return, how is the bundle left, what do escrow nodes sign | three nodes, one of them an escrow node, threshold two; two calls out of five jobs, two slices of nodes, three things done in between |
| `session_refund` | is a refund signed when `oracle` accepts it (finding) | same |

Why the bounds are enough for the questions: three validators with threshold two
is the smallest group with a commitment left over after the cut, with a node that
need not sign, and with two different packages that share a member. Two requests
are needed for an error on one of them to lose the other. Two participants make
`n * (n - 1)` envelopes with room for a wrong one; three make the order of
envelopes matter. Two transactions in the mempool are enough for two conflicting
ones in a block. One restart, or two in the ceremony (two participants, or the
same one before and after its round-1 package is committed), reach every loss of
memory between two steps. The mesh's tasks only interact pairwise and through the
two channels: with a ring of one, two broadcasts make a writer lag; with an
incoming queue of one, the second frame makes a reader wait; and one fault leaves
each end in each of its stages, with the other one unaware. In `session` the first
call leaves an open request behind; three steps in between are what it takes to
get a node's old commitment onto the chain while it holds new nonces, the one way
`react` can fail in a later call. In `replicas` there is one request (two are out of TLC's
reach): what several requests of one message add, as for the actions of one bundle, is
left to the theorems.

Sizes, in distinct states: `chain` 858 thousand, `signing` 95 thousand,
`signing_restart` 372 thousand, `dkg` 634 thousand, `replicas` 166 thousand, `mesh` 57
thousand, `session` 293 thousand.

`CHECK_DEADLOCK FALSE`: `Chain` ends at `MaxHeight`; a finished ceremony, and one that
is stuck, has nothing left to do (`Dkg`); a mesh
whose broadcasts are used up is quiet (`Mesh`), and so is a chain whose calls are
(`Session`, `SessionRefund`). In `Signing` and `Replicas` a node can always be called again, so
deadlock stays checked.

Fairness: the runtime keeps committing blocks and keeps calling `react` on every
node, as the driver's loop (`sapphire-zcash/src/lib.rs`) and the demo's loop
(`sapphire-cli/src/main.rs`) do; weak fairness on `CommitBlock` and on each
`React`. The coordinator opens the ceremony. The client need not ask for
anything, and nothing forces a restart or a faulty package. In `Mesh` every tokio task that can make a
step is polled in the end, the listener accepts and the caller receives (weak
fairness per task); an attempt to connect may always fail. In `Session` the thread
that runs a call is not stopped: weak fairness on `Step`.

### What the runs show

Everything asked of the chain holds under any input. Without restarts, signing
and key generation are safe and live; key generation has no way out of a ceremony that
was opened with parameters `part1` refuses, or that a faulty package has got into
(`Stuck`), but does not end in a wrong key either. With restarts they stay safe: no nonce is
used twice, no aggregation fails, no wrong key is promoted, and the client sees
the service of `SigningService`; so it does when every validator has a replica of
its own and the mesh loses a transaction. The mesh delivers in order and at most
once from each process to each process, across broken connections, crashes and
restarts, logs what it drops as long as a connection holds and its caller receives,
and never blocks for good. Between two processes of one node, one restarted after the
other, it promises no order, and none is checked. A call of the
driver always returns; the actions before the one it stopped at are signed and no
other; with enough willing nodes it takes two rounds, as its comment says,
whatever was left over.

Five statements of the code's comments and messages do not hold:

1. *Delivery suffices* (`sapphire-chain/src/lib.rs`, `state.rs`). A commitment
   that reaches a replica before its request is rejected there and is not sent
   again; the replicas stay different after everything has been delivered. They
   never hold two different signatures of one request (`CompletedAgree`), because
   two sets of two out of three share a validator that signs once.
2. *We committed but our commit wasn't in the threshold-cut* (`Node::react`). The
   branch is behind the test that the node is in the cut; it is taken by a
   selected node that has restarted, and the request stays in `Signing`.
3. *Already submitted; tx in flight* (`Node::react`). After a restart, the error
   of one request throws away the commitment of another that is already marked.
4. *Transient disconnects ... require the originator to re-broadcast*
   (`sapphire-net/src/lib.rs`). A dialer serves one connection and is not started
   again, so two running peers that lose their connection stay without one, and
   what is broadcast again does not arrive either.
5. *A validator would sign this refund* (`oracle`, in `sapphire-cli/src/main.rs`; the
   escrow crate says likewise that funds move by release or by refund).
   `EscrowPolicy::approve` parses release proposals and nothing else, so no escrow node
   commits to a refund, at any height. `OracleAcceptanceHolds` says that a settlement
   which enough nodes would sign, as `oracle` has it at the timeout, is signed; it
   fails for refunds, and TLC finds no other violation once they are taken out of the
   jobs. `EscrowHonoured` and `OracleRefusalHolds` are the other direction: what an
   escrow node signs is a release, as `policy.rs` (6-7, 41) has it, that pays what its
   registry says; and what `oracle` refuses both before and from the timeout on is
   never signed.

Seen while modelling, and not the subject of a run of their own:

- `EscrowPolicy` refuses the 32-byte sighash of a PCZT as well, so escrow nodes take no
  part in `sign_pczt_orchard_bundle`.
- `EscrowTerms::escrow_id` is said to bind a witness to its deposit. `HashPreimage`
  compares the digest only: a witness opens every escrow with the same condition.
- `drive_signing_session` reports *chain rejected SubmitRequest* for any rejected
  transaction of the block; its own request may be open.

## 4. The proofs

TLC's runs are small instances; the theorems hold for every number of identifiers,
nodes, requests, messages, jobs and inputs, and for every bound. All that the
runs check as an invariant is proved; so are the action properties of the chain
and of the driver, and the refinements of `SigningService`. Each proof has one step per action of the
module, and under it one per part of the invariant.

The chain's lemmas, one per transaction and property, are about `apply_tx` alone
and are used by every other module of proofs. Two of them carry the arithmetic:
`CountingCovers` (a set of ordered pairs of distinct members that has `n * (n-1)`
elements is the set of all of them, so `r2_complete` means what its comment
says) and `TakeAll` (the first `t` of `t` commitments are all of them, so that the
cut at the moment the threshold is reached has exactly `t` participants).

### The inductive invariants

None of the properties is inductive by itself; these are, with `=> Property` by a
short proof each.

**`SimInv`** (`ChainProofs`): the published state, and the state a block is
building, are typed and `Safe`; moreover everything in `log` has left a trace that
makes `apply_tx` reject it (`ReplayRejected` cannot be carried by itself: whether a
commitment is rejected depends on the status the request has moved to), and
the state being built is ahead of the published one and keeps its group.
Publishing a block is one step, so `RequestsMoveForward` and `GroupIsFinal` are
about all of a block's transactions together.

**`SigInv`** (`SigningProofs`): every commitment and share, on the chain, in the
mempool or being applied, is an honest node's (`HonestSim`), what the client
submitted is what is on the chain (`FaithfulSim`), and every draw of nonces that is
in a node's memory, or in a share, was drawn by that node for one request. It holds
with any number of restarts: a restarted node forgets, but its RNG does not repeat.
That nonces are not used twice cannot be said of the chain only, since a share
thrown away with the rest of an erring call was computed all the same; hence the
history variable `signed`.

**`UpInv`**: what is lost at a restart, so it starts with `restarts = 0`. A mark is
`Settled` (its transaction in the mempool, on the chain, or no longer needed), and a
commitment anywhere is backed by the nonces in its maker's memory. It is used for
`MarkedIsInFlight` and `SelectedHoldsNonces`, which are theorems up to the first
restart; the two runs on restarts show that this hypothesis cannot be dropped. The
hard case is `react` ending in an error, which would lose transactions already
marked: with the nonces backed and the randomizer in place `sign` has nothing to
fail on.

**`RepInv`** (`ReplicasProofs`): everything on a replica, in a link, or in an outbox
is traced to the validator it names, which made it once (`MadeOnce`: one commitment
and one share per request and validator; marked in that node's memory). Nothing
relates one replica to another, and nothing needs to: if two replicas complete a
request over two packages, a validator in both sets of participants signed twice.
That last step needs `QuorumsMeet`, any two sets of `threshold` validators meet,
which is a hypothesis of `ReplicasCompletedAgree` and `ReplicasImplementsService`.
`MpcParams` does not ask for it: two of four pass `MpcParams::new`, and TLC then finds
two halves that complete one request twice. `MCReplicas` states it of its own group.
`FailedOnlyByDivergence` needs no such hypothesis. It ties both packages to the request
that failed, through the history of who made which share for which request: all the
actions of a bundle have one message, so two packages over the same message may belong
to two requests and say nothing of either.

**`DkgInv`** (`DkgProofs`): each package, envelope and finalize on the chain or in the
mempool is the poster's, an envelope names the polynomial its sender has posted, and
`OwnInv` ties a participant's flags and secrets to what it posted: no round-1
secret after its envelopes, none of either kind after its finalize. A participant
that was restarted owns less. `PromotedKeyIsPosted` is then an argument about two
members: a finalize covers the polynomials of the *others* as they were opened and
checked, and its own as it remembers it; with at least two members, each is
vouched for by another one, so all that agree on a key agree on the posted
polynomials, and each was drawn by its member, as `part2` has checked before anybody
posts an envelope. (With a single member it would be false after a restart.
`MpcParams::new` lets a group of one, and a threshold of one, pass; FROST's `part1`
refuses both, so that no round 1 is completed with them: that is a part of the
invariant.)

**`SessInv`** (`SessionProofs`): the simulator's, `HonestSim`, which fields belong to
which stage of the call, that a node holds nonces only for requests that its policy
approves and that it is marked for, and the bundle signed up to the action at hand.

**`RoundsInv`** (`SessionProofs`), for `TwoRoundsAreEnough`: follows the call's request
through the opening block and two rounds. Nodes and mempool know of no request that
is not published (`KnownInv`), so a fresh id starts with nobody committed
(`OpeningInv`). In round one every willing node that has had its turn is in the
mempool, in the status, or too late for the cut (`FirstRound`); once all have, a
request still waiting would hold `threshold` commitments, which `EntryExact` excludes.
In round two a participant has shared, is in the mempool, or has its turn ahead and
its nonces in memory (`LaterRound`), so a block that leaves the request signing would
hold all shares. The theorem has two hypotheses, which `MCSession` states of its
instance: `MaxRounds >= 2`, and a threshold above 0. `InitGroup` takes 0, and then a
request opens `Signing` with nobody to complete it; `MpcParams::new` does not.

**`MeshInv`, `GapInv`** (`MeshProofs`): the two ends of a connection are in step with
the handshake, only the first packet on a wire may be a handshake message, and what
is on a wire was sent by its writer. `GapInv` follows a payload: each index of the
ring since a writer's subscription is ahead of its cursor, logged as dropped, on
the wire, with the reader, or received (`GapsAreLogged`), as long as the connection
holds and the receiver at its other end is kept.

### The refinements

`SigningImplementsService` and `ReplicasImplementsService`: the initial state maps to
the service's, a `SubmitRequest` to its `Ask`, a transaction that completes a request
to its `Sign`, everything else to a stutter. In `Replicas` the second replica to
complete a request must add nothing to the outcomes, which is `CompletedAgree`.

### What the proofs assume

Named in the module that declares the constants, and evaluated by TLC in each run:
`IdsAssumption` (identifiers are a finite set of naturals), `NoneAssumption` (`None` is
no value), `ScenariosAssumption` (inputs are transactions), `NodeAssumption` (the key
bundle and the policies are typed; finitely many request ids, as a `BTreeMap` holds),
`SigningAssumption`, `ReplicasAssumption` (types; a mesh of one validator has no
links), `DkgAssumption` (typed; what the coordinator offers is for as many members as there are
participants and passes `MpcParams::new`, which refuses a total or a threshold of 0 and
a threshold above the total, no more; a faulty package was not drawn by the member it
names), `SessionAssumption` (types; nodes hold shares
of the installed key; `None` is no result; `MaxRounds` is not 0, it is 8 in the code) and
`MeshAssumption` (types; no capacity is 0, since `broadcast::channel(0)` panics).

### What proving has corrected

- `EscrowHonoured` and `OracleRefusalHolds` said of every escrow node that the witness
  opens the condition. That is the `HashPreimage` verifier's check; a policy may be
  built with another one. The condition is now asked of nodes with that verifier,
  amount and payee of all.
- `GroupKeyHeld` compared the ceremony with `generate_with_dkg` unconditionally. The
  latter numbers its members `1 .. total`; a ceremony takes whatever identifiers the
  participants have. They are now compared when the identifiers are those.
- `Replicas` applied what one `react` returned in one step. The caller broadcasts and
  applies transaction by transaction, and its mesh task may put others in between:
  `outbox` and `Post` are the code's grain.

- The proof of `PromotedKeyIsPosted` used a threshold of two or more as an assumption on
  the constants. Nothing in this repository checks it; with the error of `part1` in the
  model it is a fact of every ceremony that gets past round 1.

### Only model-checked

- Liveness, out of the prover's reach: `ApprovedIsSigned`, `CeremonyEndsInGroup`,
  `DialingSettles`, `MeshDrains`, `CallReturns`.
- `MeshIsLossyFifo`: its mapping filters a sequence; what that does to every
  sequence is an induction over data for which the provers have no rule.

No module that is proved about uses a recursive operator.

## 5. Not modelled

- Cryptography: what FROST, the AEAD, Noise and Orchard guarantee is taken as
  stated above.
- Byte formats: the length prefix of a frame, JSON, the hex form of a `Uuid`. A
  message deserialises as what it is; a frame is whole or not there.
- Growth: requests and unused nonces are never removed; there is no wrong state
  for a bounded model to reach.
- Two processes with one static key, and peers whose address leads to another key.
- Key files, prompts and printing of the command line.

## 6. Plan

Done: the chain and its proofs; signing, key generation, replicas, mesh, escrow
policies, the driver, and proofs about each; the two abstract specifications, the
three refinements, two of them proved.
Next:

1. Proof of `MeshIsLossyFifo`, with the mapping written over sets of indices in
   place of a filtered sequence.
2. The ceremony over replicas and a mesh that loses.
3. `Mesh` with three nodes, for readers of two connections that share one incoming
   queue.
