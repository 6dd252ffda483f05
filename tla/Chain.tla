------------------------------- MODULE Chain -------------------------------
(***************************************************************************)
(* The coordination chain's pure core (sapphire-chain/src/state.rs and     *)
(* tx.rs): the value of the replicated state, the transactions, and        *)
(* apply_tx, which either rejects a transaction and leaves the state alone *)
(* or returns the next state.  Everything here is a constant operator on a *)
(* state value, so that ChainSim (one state) and the modules that compose  *)
(* it with signing nodes or DKG participants share one definition.         *)
(*                                                                         *)
(* What is abstracted:                                                     *)
(*  - a value drawn from an RNG (a pair of signing nonces, a round-1 DKG   *)
(*    polynomial, an X25519 key) is <<who drew it, number of the draw>>;   *)
(*    the public half (commitments, round-1 package, public key) is named  *)
(*    by the draw it comes from;                                           *)
(*  - a PublicKeyPackage is the function from each member's identifier to  *)
(*    the round-1 polynomial it contributed: the verifying key and the     *)
(*    verifying shares are determined by these, and its keys are those of  *)
(*    verifying_shares();                                                  *)
(*  - a signature share is the record of what it was computed from, and    *)
(*    FROST's aggregate succeeds exactly when every share was computed     *)
(*    from what the verifier uses;                                         *)
(*  - the text of an error is dropped: a rejected transaction is rejected. *)
(***************************************************************************)
EXTENDS Integers, FiniteSets

CONSTANTS
    Ids,          \* FROST identifiers, as numbers: BTreeMap iterates in their order
    Uuids,        \* request identifiers, as numbers for the same reason
    Messages,     \* what a request asks to sign
    Randomizers,  \* the randomizers (alpha) a request may carry
    None          \* Option::None

ASSUME IdsAssumption == Ids \subseteq Nat /\ IsFiniteSet(Ids)

U16 == 0 .. 65535

(* BTreeMap<K, V>: a key that is not in the map has the value None. *)
Map(K, V) == [K -> V \cup {None}]

Empty(K) == [k \in K |-> None]

Keys(m) == {k \in DOMAIN m : m[k] # None}

(* `iter().take(k)` over the keys of a BTreeMap: the k smallest. *)
TakeFirst(S, k) == {x \in S : Cardinality({y \in S : y < x}) < k}

(* `for (k, _) in &map`: the keys, from the smallest to the largest. *)
InOrder(S) ==
    CHOOSE seq \in [1 .. Cardinality(S) -> S] : \A i, j \in DOMAIN seq : i < j => seq[i] < seq[j]

----------------------------------------------------------------------------
(* The values a state or a transaction is made of.                         *)

Draw == Ids \X Nat

(* MpcParams as serde reads it: MpcParams::new is bypassed, so nothing     *)
(* relates the two numbers.                                                *)
MpcParams == [threshold : U16, total : U16]

PublicKeyPackage == Map(Ids, Draw)

(* A round-2 package is the sender's polynomial evaluated at the recipient; *)
(* Sealed is that package encrypted to an X25519 key.                       *)
Sealed == [key : Draw, package : [poly : Draw, to : Ids]]

SigningPackage == [commitments : Map(Ids, Draw), message : Messages]

SignatureShare == [nonces : Draw, signing_package : SigningPackage,
                   randomizer : Randomizers, pkp : PublicKeyPackage]

Signature == [message : Messages, randomizer : Randomizers, pkp : PublicKeyPackage]

RequestStatus ==
    [tag : {"AwaitingCommitments"}, commitments : Map(Ids, Draw)]
    \cup [tag : {"Signing"}, signing_package : SigningPackage,
          participants : SUBSET Ids, shares : Map(Ids, SignatureShare)]
    \cup [tag : {"Completed"}, participants : SUBSET Ids, signature : Signature]
    \cup [tag : {"Failed"}]

RequestEntry == [message : Messages, randomizer : Randomizers, status : RequestStatus]

DkgCeremony == [params : MpcParams, validators : Map(Ids, Draw), round1 : Map(Ids, Draw),
                round2 : Map(Ids \X Ids, Sealed), finalize : Map(Ids, PublicKeyPackage)]

GroupConfig == [params : MpcParams, pkp : PublicKeyPackage, validators : SUBSET Ids]

ASSUME NoneAssumption ==
    /\ None \notin Draw
    /\ None \notin Sealed
    /\ None \notin PublicKeyPackage
    /\ None \notin SignatureShare
    /\ None \notin RequestEntry
    /\ None \notin DkgCeremony
    /\ None \notin GroupConfig

State == [ceremony : DkgCeremony \cup {None}, group : GroupConfig \cup {None},
          requests : Map(Uuids, RequestEntry)]

(* State::default() *)
DefaultState == [ceremony |-> None, group |-> None, requests |-> Empty(Uuids)]

Tx == [type : {"InitGroup"}, params : MpcParams, pkp : PublicKeyPackage,
       validators : SUBSET Ids]
      \cup [type : {"DkgBegin"}, params : MpcParams, validators : Map(Ids, Draw)]
      \cup [type : {"DkgRound1"}, from : Ids, package : Draw]
      \cup [type : {"DkgRound2"}, from : Ids, to : Ids, sealed : Sealed]
      \cup [type : {"DkgFinalize"}, from : Ids, pkp : PublicKeyPackage]
      \cup [type : {"SubmitRequest"}, request_id : Uuids, message : Messages,
            randomizer : Randomizers]
      \cup [type : {"SubmitCommitment"}, request_id : Uuids, validator : Ids,
            commitments : Draw]
      \cup [type : {"SubmitShare"}, request_id : Uuids, validator : Ids,
            share : SignatureShare]

----------------------------------------------------------------------------
(* DkgCeremony's completeness tests count entries; they do not look at keys. *)
(* In a release build the usize product for total = 0 wraps to 0, as here.   *)

r1_complete(c) == Cardinality(Keys(c.round1)) = c.params.total

r2_complete(c) == Cardinality(Keys(c.round2)) = c.params.total * (c.params.total - 1)

(* Mutant: one finalize too few promotes. *)
finalize_complete_Early(c) == Cardinality(Keys(c.finalize)) >= c.params.total - 1

finalize_complete(c) == Cardinality(Keys(c.finalize)) = c.params.total

----------------------------------------------------------------------------
(* apply_tx, one pair of operators per transaction: the guard XOk is the   *)
(* conjunction of the negated early returns, XNext the state returned.     *)

(* Mutant: a ceremony in progress is not looked at. *)
InitGroupOk_DuringCeremony(s, tx) == s.group = None /\ Keys(tx.pkp) = tx.validators

(* Mutant: a group that exists is not looked at. *)
InitGroupOk_Again(s, tx) == s.ceremony = None /\ Keys(tx.pkp) = tx.validators

InitGroupOk(s, tx) ==
    /\ s.group = None
    /\ s.ceremony = None
    /\ Keys(tx.pkp) = tx.validators

InitGroupNext(s, tx) ==
    [s EXCEPT !.group = [params |-> tx.params, pkp |-> tx.pkp, validators |-> tx.validators]]

DkgBeginOk(s, tx) ==
    /\ s.group = None
    /\ s.ceremony = None
    /\ Cardinality(Keys(tx.validators)) = tx.params.total

DkgBeginNext(s, tx) ==
    [s EXCEPT !.ceremony = [params |-> tx.params, validators |-> tx.validators,
                            round1 |-> Empty(Ids), round2 |-> Empty(Ids \X Ids),
                            finalize |-> Empty(Ids)]]

DkgRound1Ok(s, tx) ==
    /\ s.ceremony # None
    /\ tx.from \in Keys(s.ceremony.validators)
    /\ tx.from \notin Keys(s.ceremony.round1)

DkgRound1Next(s, tx) ==
    [s EXCEPT !.ceremony.round1[tx.from] = tx.package]

(* Mutant: an envelope to oneself counts. *)
DkgRound2Ok_ToSelf(s, tx) ==
    /\ s.ceremony # None
    /\ r1_complete(s.ceremony)
    /\ tx.from \in Keys(s.ceremony.validators)
    /\ tx.to \in Keys(s.ceremony.validators)
    /\ <<tx.from, tx.to>> \notin Keys(s.ceremony.round2)

DkgRound2Ok(s, tx) ==
    /\ s.ceremony # None
    /\ r1_complete(s.ceremony)
    /\ tx.from # tx.to
    /\ tx.from \in Keys(s.ceremony.validators)
    /\ tx.to \in Keys(s.ceremony.validators)
    /\ <<tx.from, tx.to>> \notin Keys(s.ceremony.round2)

DkgRound2Next(s, tx) ==
    [s EXCEPT !.ceremony.round2[<<tx.from, tx.to>>] = tx.sealed]

(* The entry with the smallest identifier, `iter().next()`. *)
FirstValue(m) == m[CHOOSE x \in Keys(m) : \A y \in Keys(m) : x <= y]

(* Mutant: the key is not compared with the ones finalized before. *)
DkgFinalizeOk_AnyKey(s, tx) ==
    /\ s.ceremony # None
    /\ r2_complete(s.ceremony)
    /\ tx.from \in Keys(s.ceremony.validators)
    /\ tx.from \notin Keys(s.ceremony.finalize)

DkgFinalizeOk(s, tx) ==
    /\ s.ceremony # None
    /\ r2_complete(s.ceremony)
    /\ tx.from \in Keys(s.ceremony.validators)
    /\ tx.from \notin Keys(s.ceremony.finalize)
    /\ Keys(s.ceremony.finalize) # {} => tx.pkp = FirstValue(s.ceremony.finalize)

(* The last finalize also promotes the ceremony into the group. *)
DkgFinalizeNext(s, tx) ==
    LET c == [s.ceremony EXCEPT !.finalize[tx.from] = tx.pkp]
    IN  IF finalize_complete(c)
        THEN [s EXCEPT !.ceremony = None,
                       !.group = [params |-> c.params, pkp |-> FirstValue(c.finalize),
                                  validators |-> Keys(c.validators)]]
        ELSE [s EXCEPT !.ceremony = c]

(* Mutant: a request id may be used again. *)
SubmitRequestOk_Again(s, tx) == s.group # None

SubmitRequestOk(s, tx) ==
    /\ s.group # None
    /\ tx.request_id \notin Keys(s.requests)

(* Mutant: the randomizer is not stored. *)
SubmitRequestNext_NoRandomizer(s, tx) ==
    [s EXCEPT !.requests[tx.request_id] =
        [message |-> tx.message, randomizer |-> None,
         status |-> [tag |-> "AwaitingCommitments", commitments |-> Empty(Ids)]]]

SubmitRequestNext(s, tx) ==
    [s EXCEPT !.requests[tx.request_id] =
        [message |-> tx.message, randomizer |-> tx.randomizer,
         status |-> [tag |-> "AwaitingCommitments", commitments |-> Empty(Ids)]]]

(* Mutant: a validator may commit again. *)
SubmitCommitmentOk_Again(s, tx) ==
    /\ s.group # None
    /\ tx.validator \in s.group.validators
    /\ tx.request_id \in Keys(s.requests)
    /\ s.requests[tx.request_id].status.tag = "AwaitingCommitments"

SubmitCommitmentOk(s, tx) ==
    /\ s.group # None
    /\ tx.validator \in s.group.validators
    /\ tx.request_id \in Keys(s.requests)
    /\ s.requests[tx.request_id].status.tag = "AwaitingCommitments"
    /\ tx.validator \notin Keys(s.requests[tx.request_id].status.commitments)

(* Mutant: the cut waits for one commitment more than it takes. *)
AfterCommitment_Late(map, threshold, message) ==
    IF Cardinality(Keys(map)) > threshold
    THEN [tag |-> "Signing",
          signing_package |->
              [commitments |-> [v \in Ids |-> IF v \in TakeFirst(Keys(map), threshold)
                                              THEN map[v] ELSE None],
               message |-> message],
          participants |-> TakeFirst(Keys(map), threshold),
          shares |-> Empty(Ids)]
    ELSE [tag |-> "AwaitingCommitments", commitments |-> map]

(* Mutant: the first commitment cuts the package. *)
AfterCommitment_First(map, threshold, message) ==
    [tag |-> "Signing", signing_package |-> [commitments |-> map, message |-> message],
     participants |-> Keys(map), shares |-> Empty(Ids)]

(* The status after a commitment: Signing as soon as `len as u16` reaches   *)
(* the threshold, over the smallest identifiers that have committed.        *)
AfterCommitment(map, threshold, message) ==
    IF Cardinality(Keys(map)) % 65536 >= threshold
    THEN LET chosen == TakeFirst(Keys(map), threshold)
         IN  [tag |-> "Signing",
              signing_package |->
                  [commitments |-> [v \in Ids |-> IF v \in chosen THEN map[v] ELSE None],
                   message |-> message],
              participants |-> chosen,
              shares |-> Empty(Ids)]
    ELSE [tag |-> "AwaitingCommitments", commitments |-> map]

SubmitCommitmentNext(s, tx) ==
    LET entry == s.requests[tx.request_id]
        map == [entry.status.commitments EXCEPT ![tx.validator] = tx.commitments]
    IN  [s EXCEPT !.requests[tx.request_id].status =
            AfterCommitment(map, s.group.params.threshold, entry.message)]

SubmitShareOk(s, tx) ==
    /\ s.group # None
    /\ tx.validator \in s.group.validators
    /\ tx.request_id \in Keys(s.requests)
    /\ s.requests[tx.request_id].status.tag = "Signing"
    /\ tx.validator \in s.requests[tx.request_id].status.participants
    /\ tx.validator \notin Keys(s.requests[tx.request_id].status.shares)

(* frost_rerandomized::aggregate, external: every share must have been made *)
(* from the committed nonces, over this package, with this randomizer and   *)
(* with a key share of this group key.                                      *)
aggregate_ok(package, shares, pkp, randomizer) ==
    \A v \in Keys(shares) :
        /\ v \in Keys(pkp)
        /\ shares[v] = [nonces |-> package.commitments[v], signing_package |-> package,
                        randomizer |-> randomizer, pkp |-> pkp]

(* The status after a share: aggregation as soon as as many shares as       *)
(* participants are in.                                                     *)
AfterShare(entry, group, shares) ==
    LET st == entry.status
    IN  IF Cardinality(Keys(shares)) # Cardinality(st.participants)
        THEN [st EXCEPT !.shares = shares]
        ELSE IF aggregate_ok(st.signing_package, shares, group.pkp, entry.randomizer)
        THEN [tag |-> "Completed", participants |-> st.participants,
              signature |-> [message |-> st.signing_package.message,
                             randomizer |-> entry.randomizer, pkp |-> group.pkp]]
        ELSE [tag |-> "Failed"]

SubmitShareNext(s, tx) ==
    LET entry == s.requests[tx.request_id]
        shares == [entry.status.shares EXCEPT ![tx.validator] = tx.share]
    IN  [s EXCEPT !.requests[tx.request_id].status = AfterShare(entry, s.group, shares)]

(* Ok(_) of apply_tx ... *)
Accepts(s, tx) ==
    \/ tx.type = "InitGroup" /\ InitGroupOk(s, tx)
    \/ tx.type = "DkgBegin" /\ DkgBeginOk(s, tx)
    \/ tx.type = "DkgRound1" /\ DkgRound1Ok(s, tx)
    \/ tx.type = "DkgRound2" /\ DkgRound2Ok(s, tx)
    \/ tx.type = "DkgFinalize" /\ DkgFinalizeOk(s, tx)
    \/ tx.type = "SubmitRequest" /\ SubmitRequestOk(s, tx)
    \/ tx.type = "SubmitCommitment" /\ SubmitCommitmentOk(s, tx)
    \/ tx.type = "SubmitShare" /\ SubmitShareOk(s, tx)

(* ... and the state inside it. *)
apply_tx(s, tx) ==
    CASE tx.type = "InitGroup" -> InitGroupNext(s, tx)
      [] tx.type = "DkgBegin" -> DkgBeginNext(s, tx)
      [] tx.type = "DkgRound1" -> DkgRound1Next(s, tx)
      [] tx.type = "DkgRound2" -> DkgRound2Next(s, tx)
      [] tx.type = "DkgFinalize" -> DkgFinalizeNext(s, tx)
      [] tx.type = "SubmitRequest" -> SubmitRequestNext(s, tx)
      [] tx.type = "SubmitCommitment" -> SubmitCommitmentNext(s, tx)
      [] tx.type = "SubmitShare" -> SubmitShareNext(s, tx)
=============================================================================
