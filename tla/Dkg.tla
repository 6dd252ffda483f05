--------------------------------- MODULE Dkg --------------------------------
(***************************************************************************)
(* Distributed key generation over the chain: the simulator, a coordinator *)
(* that opens the ceremony, and the DkgParticipants of                     *)
(* sapphire-node/src/dkg.rs, each of which looks at the published state    *)
(* and reacts.                                                             *)
(*                                                                         *)
(* DkgParticipant::react is split at its early returns: one action per     *)
(* way a call can go, calls that change nothing being left out.  A call    *)
(* that ends in an error emits nothing; what it had already done to the    *)
(* participant (a secret taken out of its Option) stays.                   *)
(*                                                                         *)
(* FROST's part1, part2 and part3 are external.  part1 draws a polynomial, *)
(* for parameters it accepts, and with it a proof that its poster knows    *)
(* it; part2 checks the others' proofs and evaluates the polynomial for    *)
(* every other member; part3 accepts the received evaluations only if each *)
(* lies on the polynomial its sender posted in round 1, and derives the    *)
(* public key from the posted polynomials of the others and from the       *)
(* participant's own.  An envelope opens with the key it was sealed to and *)
(* with no other.                                                          *)
(*                                                                         *)
(* apply_tx looks at none of the proofs, so a faulty package can get on    *)
(* the chain in a member's name: a proof verifies for a package <<q, i>>   *)
(* in the name of q, who has drawn it, and in no other.                    *)
(*                                                                         *)
(* A participant keeps everything in memory: it restarts as                *)
(* DkgParticipant::new, with a new envelope key and no secrets.            *)
(***************************************************************************)
EXTENDS ChainSim, Keygen, SequencesExt

CONSTANTS
    Participants,  \* the identifiers that run a DkgParticipant
    Offered,       \* the MpcParams the coordinator may open the ceremony with
    Faulty,        \* round-1 packages, with the member named, whose proof does not verify
    MaxRestarts    \* bound: restarts, over all participants

ASSUME DkgAssumption ==
    /\ Participants \subseteq Ids
    /\ Offered \subseteq MpcParams
    /\ \A params \in Offered :
          new_ok(params.threshold, params.total) /\ params.total = Cardinality(Participants)
    /\ Faulty \subseteq [from : Participants, package : Draw]
    /\ \A post \in Faulty : post.package[1] # post.from
    /\ MaxRestarts \in Nat

VARIABLES
    enc_secret,          \* DkgParticipant.enc_secret (enc_public is its public half)
    secret_r1,           \* DkgParticipant.secret_r1: the polynomial drawn by part1
    secret_r2,           \* DkgParticipant.secret_r2
    submitted_r1,        \* DkgParticipant.submitted_r1
    submitted_r2,        \* DkgParticipant.submitted_r2
    submitted_finalize,  \* DkgParticipant.submitted_finalize
    public_key_package,  \* DkgParticipant.public_key_package; key_package is set with it
    drawn,               \* how many values each participant's RNG has given
    restarts,            \* restarts so far
    restarted            \* history: the participants that were restarted

secretVars == <<enc_secret, secret_r1, secret_r2, public_key_package, drawn>>
flagVars == <<submitted_r1, submitted_r2, submitted_finalize>>
restartVars == <<restarts, restarted>>
vars == <<simVars, secretVars, flagVars, restartVars>>

(* DkgParticipant::new for everybody: the first draw is the envelope key. *)
Init ==
    /\ SimInit
    /\ enc_secret = [p \in Participants |-> <<p, 0>>]
    /\ secret_r1 = [p \in Participants |-> None]
    /\ secret_r2 = [p \in Participants |-> None]
    /\ submitted_r1 = [p \in Participants |-> FALSE]
    /\ submitted_r2 = [p \in Participants |-> FALSE]
    /\ submitted_finalize = [p \in Participants |-> FALSE]
    /\ public_key_package = [p \in Participants |-> None]
    /\ drawn = [p \in Participants |-> 1]
    /\ restarts = 0
    /\ restarted = {}

ceremony == state.ceremony

(* react's first three tests: no group yet, a ceremony, and we are in it. *)
InCeremony(p) ==
    /\ ~in_block
    /\ state.group = None
    /\ ceremony # None
    /\ p \in Keys(ceremony.validators)

(* The coordinator collects the envelope keys and opens the ceremony. *)
Begin ==
    /\ block_height = 0 /\ mempool = <<>>
    /\ \E params \in Offered :
          Submit([type |-> "DkgBegin", params |-> params,
                  validators |-> [i \in Ids |-> IF i \in Participants THEN enc_secret[i] ELSE None]])
    /\ UNCHANGED <<secretVars, flagVars, restartVars>>

(* A faulty package arrives in the name of a member that is not on the     *)
(* chain with one yet.  It may come before the member's own or after it.   *)
PostFaulty(post) ==
    /\ InCeremony(post.from)
    /\ post.from \notin Keys(ceremony.round1)
    /\ LET tx == [type |-> "DkgRound1", from |-> post.from, package |-> post.package]
       IN  tx \notin ToSet(mempool) /\ Submit(tx)
    /\ UNCHANGED <<secretVars, flagVars, restartVars>>

(* Round 1: our package is not on the chain and we have not sent it.  When *)
(* part1 refuses the parameters the call ends in its error, with nothing   *)
(* changed.                                                                *)
PostRound1(p) ==
    /\ InCeremony(p)
    /\ ~submitted_r1[p]
    /\ p \notin Keys(ceremony.round1)
    /\ part1_ok(ceremony.params)
    /\ secret_r1' = [secret_r1 EXCEPT ![p] = <<p, drawn[p]>>]
    /\ drawn' = [drawn EXCEPT ![p] = @ + 1]
    /\ submitted_r1' = [submitted_r1 EXCEPT ![p] = TRUE]
    /\ Submit([type |-> "DkgRound1", from |-> p, package |-> <<p, drawn[p]>>])
    /\ UNCHANGED <<enc_secret, secret_r2, public_key_package, submitted_r2,
                   submitted_finalize, restartVars>>

(* Past round 1: sent, or found on the chain and remembered in this call. *)
PastRound1(p) ==
    /\ InCeremony(p)
    /\ submitted_r1[p] \/ p \in Keys(ceremony.round1)
    /\ submitted_r1' = [submitted_r1 EXCEPT ![p] = TRUE]

(* Our package is on the chain, round 1 is not complete. *)
RememberRound1(p) ==
    /\ PastRound1(p)
    /\ ~submitted_r1[p]
    /\ ~r1_complete(ceremony)
    /\ UNCHANGED <<simVars, secretVars, submitted_r2, submitted_finalize, restartVars>>

Round2Due(p) == PastRound1(p) /\ r1_complete(ceremony) /\ ~submitted_r2[p]

(* Round 2 without a round-1 secret: Inconsistent("missing r1 secret for r2"). *)
MissingSecretR1(p) ==
    /\ Round2Due(p)
    /\ secret_r1[p] = None
    /\ UNCHANGED <<simVars, secretVars, submitted_r2, submitted_finalize, restartVars>>

(* Mutant: the evaluation goes out under the wrong recipient's key. *)
EnvelopeTo_Wrong(p, q) ==
    [type |-> "DkgRound2", from |-> p, to |-> q,
     sealed |-> [key |-> ceremony.validators[p],
                 package |-> [poly |-> secret_r1[p], to |-> q]]]

(* Mutant: the secret is taken out of its Option before part2 has used it. *)
EnvelopeTo_Taken(p, q) ==
    [type |-> "DkgRound2", from |-> p, to |-> q,
     sealed |-> [key |-> ceremony.validators[q],
                 package |-> [poly |-> None, to |-> q]]]

(* seal_envelope of part2's package for q, to the key q registered. *)
EnvelopeTo(p, q) ==
    [type |-> "DkgRound2", from |-> p, to |-> q,
     sealed |-> [key |-> ceremony.validators[q],
                 package |-> [poly |-> secret_r1[p], to |-> q]]]

(* part2's check of the others' proofs.  That there are as many packages as *)
(* it expects is what r1_complete has said.                                 *)
part2_ok(p) == \A q \in Keys(ceremony.round1) \ {p} : ceremony.round1[q][1] = q

(* part2 fails; the round-1 secret was taken out for it. *)
FailRound2(p) ==
    /\ Round2Due(p)
    /\ secret_r1[p] # None
    /\ ~part2_ok(p)
    /\ secret_r1' = [secret_r1 EXCEPT ![p] = None]
    /\ UNCHANGED <<simVars, enc_secret, secret_r2, public_key_package, drawn, submitted_r2,
                   submitted_finalize, restartVars>>

(* Round 2: part2 consumes the round-1 secret; one envelope per other member. *)
PostRound2(p) ==
    /\ Round2Due(p)
    /\ secret_r1[p] # None
    /\ part2_ok(p)
    /\ LET others == InOrder(Keys(ceremony.round1) \ {p})
       IN  SubmitAll([i \in 1 .. Len(others) |-> EnvelopeTo(p, others[i])])
    /\ secret_r1' = [secret_r1 EXCEPT ![p] = None]
    /\ secret_r2' = [secret_r2 EXCEPT ![p] = secret_r1[p]]
    /\ submitted_r2' = [submitted_r2 EXCEPT ![p] = TRUE]
    /\ UNCHANGED <<enc_secret, public_key_package, drawn, submitted_finalize, restartVars>>

FinalizeDue(p) ==
    /\ PastRound1(p)
    /\ r1_complete(ceremony)
    /\ submitted_r2[p]
    /\ r2_complete(ceremony)
    /\ ~submitted_finalize[p]

(* The packages others have sealed to p. *)
SentTo(p) ==
    {<<q, ceremony.round2[<<q, p>>]>> : q \in {i \in Ids : <<i, p>> \in Keys(ceremony.round2)}}

(* open_envelope succeeds on every one of them. *)
Opens(p) == \A m \in SentTo(p) : m[2].key = enc_secret[p]

(* The call ends before part3: our finalize is on the chain already and is *)
(* remembered, or an envelope does not open (EnvelopeError), or there is   *)
(* no round-2 secret (Inconsistent).                                       *)
StopBeforePart3(p) ==
    /\ FinalizeDue(p)
    /\ p \in Keys(ceremony.finalize) \/ ~Opens(p) \/ secret_r2[p] = None
    /\ submitted_finalize' = [submitted_finalize EXCEPT ![p] = p \in Keys(ceremony.finalize)]
    /\ UNCHANGED <<simVars, secretVars, submitted_r2, restartVars>>

(* part3's check of the received evaluations. *)
part3_ok(p) ==
    \A m \in SentTo(p) : m[2].package = [poly |-> ceremony.round1[m[1]], to |-> p]

(* part3's public result. *)
part3_pkp(p) == [ceremony.round1 EXCEPT ![p] = secret_r2[p]]

(* part3 fails; the round-2 secret was taken out for it. *)
FailFinalize(p) ==
    /\ FinalizeDue(p)
    /\ p \notin Keys(ceremony.finalize)
    /\ Opens(p) /\ secret_r2[p] # None
    /\ ~part3_ok(p)
    /\ secret_r2' = [secret_r2 EXCEPT ![p] = None]
    /\ UNCHANGED <<simVars, enc_secret, secret_r1, public_key_package, drawn, submitted_r2,
                   submitted_finalize, restartVars>>

(* Mutant: the key kept is built from the others' packages only. *)
KeyAfterPart3_OthersOnly(p) == [ceremony.round1 EXCEPT ![p] = None]

KeyAfterPart3(p) == part3_pkp(p)

(* Finalize: part3 succeeds, the key is kept and announced. *)
PostFinalize(p) ==
    /\ FinalizeDue(p)
    /\ p \notin Keys(ceremony.finalize)
    /\ Opens(p) /\ secret_r2[p] # None
    /\ part3_ok(p)
    /\ secret_r2' = [secret_r2 EXCEPT ![p] = None]
    /\ public_key_package' = [public_key_package EXCEPT ![p] = KeyAfterPart3(p)]
    /\ submitted_finalize' = [submitted_finalize EXCEPT ![p] = TRUE]
    /\ Submit([type |-> "DkgFinalize", from |-> p, pkp |-> part3_pkp(p)])
    /\ UNCHANGED <<enc_secret, secret_r1, drawn, submitted_r2, restartVars>>

(* DkgParticipant::react *)
React(p) ==
    \/ PostRound1(p)
    \/ RememberRound1(p)
    \/ MissingSecretR1(p)
    \/ FailRound2(p)
    \/ PostRound2(p)
    \/ StopBeforePart3(p)
    \/ FailFinalize(p)
    \/ PostFinalize(p)

(* The process is replaced by one that calls DkgParticipant::new. *)
Restart(p) ==
    /\ ~in_block
    /\ restarts < MaxRestarts
    /\ restarts' = restarts + 1
    /\ restarted' = restarted \cup {p}
    /\ enc_secret' = [enc_secret EXCEPT ![p] = <<p, drawn[p]>>]
    /\ drawn' = [drawn EXCEPT ![p] = @ + 1]
    /\ secret_r1' = [secret_r1 EXCEPT ![p] = None]
    /\ secret_r2' = [secret_r2 EXCEPT ![p] = None]
    /\ submitted_r1' = [submitted_r1 EXCEPT ![p] = FALSE]
    /\ submitted_r2' = [submitted_r2 EXCEPT ![p] = FALSE]
    /\ submitted_finalize' = [submitted_finalize EXCEPT ![p] = FALSE]
    /\ public_key_package' = [public_key_package EXCEPT ![p] = None]
    /\ UNCHANGED simVars

(* commit_block *)
CommitBlock ==
    /\ (mempool # <<>> /\ BeginBlock) \/ PopTx \/ EndBlock
    /\ UNCHANGED <<secretVars, flagVars, restartVars>>

Next ==
    \/ Begin
    \/ \E p \in Participants : React(p) \/ Restart(p)
    \/ \E post \in Faulty : PostFaulty(post)
    \/ CommitBlock

Spec == Init /\ [][Next]_vars

(* The coordinator opens the ceremony, the runtime keeps committing blocks *)
(* and keeps calling every participant; nothing forces a restart.          *)
Fairness ==
    /\ WF_vars(Begin)
    /\ WF_vars(CommitBlock)
    /\ \A p \in Participants : WF_vars(React(p))

FairSpec == Spec /\ Fairness

----------------------------------------------------------------------------
(* Properties.                                                             *)

(* The participants' variables, like the chain's, keep their types. *)
DkgTypeOK ==
    /\ TypeOK
    /\ enc_secret \in [Participants -> Draw]
    /\ secret_r1 \in [Participants -> Draw \cup {None}]
    /\ secret_r2 \in [Participants -> Draw \cup {None}]
    /\ submitted_r1 \in [Participants -> BOOLEAN]
    /\ submitted_r2 \in [Participants -> BOOLEAN]
    /\ submitted_finalize \in [Participants -> BOOLEAN]
    /\ public_key_package \in [Participants -> PublicKeyPackage \cup {None}]
    /\ drawn \in [Participants -> Nat]
    /\ restarts \in 0 .. MaxRestarts
    /\ restarted \subseteq Participants

(* When the group exists, every participant whose process has run all the  *)
(* time has finished DKG locally (is_complete) with exactly the key the    *)
(* chain promoted, whatever the others went through, so that into_node     *)
(* gives a node whose shares the chain can aggregate.  When nobody was     *)
(* restarted and the participants are numbered as generate_with_dkg        *)
(* numbers its members, it is the key that makes of the same draws.        *)
GroupKeyHeld ==
    state.group # None =>
        /\ \A p \in Participants \ restarted : public_key_package[p] = state.group.pkp
        /\ restarted = {} /\ Participants = Members(state.group.params) =>
              state.group.pkp =
                  generate_with_dkg(state.group.params, [p \in Participants |-> <<p, 1>>]).pkp

(* Whatever restarts or fails: the key the chain promotes is the sum of    *)
(* the round-1 polynomials that were posted on the chain, one per          *)
(* participant and each drawn by the participant in whose name it stands,  *)
(* although the chain has checked no proof; and a participant that holds a *)
(* key when the group exists holds that one.                               *)
PromotedKeyIsPosted ==
    state.group # None =>
        /\ Keys(state.group.pkp) = Participants
        /\ \A p \in Participants :
              /\ [type |-> "DkgRound1", from |-> p, package |-> state.group.pkp[p]] \in log
              /\ state.group.pkp[p][1] = p
              /\ public_key_package[p] \in {None, state.group.pkp}

(* The ceremony was opened with parameters part1 refuses, or a faulty      *)
(* package has got on the chain: there is no retry, and no way to close it. *)
Stuck ==
    /\ ceremony # None
    /\ \/ ~part1_ok(ceremony.params)
       \/ \E p \in Keys(ceremony.round1) : ceremony.round1[p][1] # p

(* A ceremony that nothing has spoiled and in which nobody is restarted    *)
(* ends in a group, also when a faulty package has come too late.          *)
CeremonyEndsInGroup == <>(state.group # None \/ restarted # {} \/ Stuck)
=============================================================================
