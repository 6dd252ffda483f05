----------------------------- MODULE ChainProofs ----------------------------
(***************************************************************************)
(* The chain, for every set of identifiers, requests and payloads:         *)
(*  - what apply_tx preserves of the types of a state;                     *)
(*  - what it preserves of the predicates OneGroup, CeremonyInOrder and    *)
(*    CutIsExact of ChainSim and of the group once it is there, and the    *)
(*    record an accepted transaction leaves;                               *)
(*  - the simulator's invariant, step by step: what SimInit establishes    *)
(*    and SubmitAll, BeginBlock, PopTx and EndBlock preserve, whoever      *)
(*    takes them.                                                          *)
(* The lemmas about apply_tx are about one call on an arbitrary state, so  *)
(* that any module that drives the chain can use them.                     *)
(***************************************************************************)
EXTENDS ChainSim, SequencesExt, FiniteSetTheorems, FunctionTheorems, WellFoundedInduction, TLAPS

----------------------------------------------------------------------------
(* Types.                                                                  *)

(* What a transaction of each type carries. *)
LEMMA TxFields ==
    ASSUME NEW tx \in Tx
    PROVE  /\ tx.type = "InitGroup" =>
                tx.params \in MpcParams /\ tx.pkp \in PublicKeyPackage
                /\ tx.validators \in SUBSET Ids
           /\ tx.type = "DkgBegin" =>
                tx.params \in MpcParams /\ tx.validators \in Map(Ids, Draw)
           /\ tx.type = "DkgRound1" => tx.from \in Ids /\ tx.package \in Draw
           /\ tx.type = "DkgRound2" =>
                tx.from \in Ids /\ tx.to \in Ids /\ tx.sealed \in Sealed
           /\ tx.type = "DkgFinalize" => tx.from \in Ids /\ tx.pkp \in PublicKeyPackage
           /\ tx.type = "SubmitRequest" =>
                tx.request_id \in Uuids /\ tx.message \in Messages
                /\ tx.randomizer \in Randomizers
           /\ tx.type = "SubmitCommitment" =>
                tx.request_id \in Uuids /\ tx.validator \in Ids /\ tx.commitments \in Draw
           /\ tx.type = "SubmitShare" =>
                tx.request_id \in Uuids /\ tx.validator \in Ids /\ tx.share \in SignatureShare
BY DEF Tx

(* The types of the parts of a state. *)
LEMMA StateParts ==
    ASSUME NEW s \in State
    PROVE  /\ s.ceremony \in DkgCeremony \cup {None}
           /\ s.group \in GroupConfig \cup {None}
           /\ s.requests \in Map(Uuids, RequestEntry)
           /\ s.group # None => s.group \in GroupConfig
           /\ s.ceremony # None => s.ceremony \in DkgCeremony
           /\ \A r \in Keys(s.requests) : r \in Uuids /\ s.requests[r] \in RequestEntry
BY DEF State, Map, Keys

LEMMA EmptyTyped == ASSUME NEW K, NEW V PROVE Empty(K) \in Map(K, V)
BY DEF Empty, Map

LEMMA DefaultTyped == DefaultState \in State
BY EmptyTyped DEF DefaultState, State

(* The keys of a map are keys. *)
LEMMA KeysTyped ==
    ASSUME NEW K, NEW V, NEW m \in Map(K, V)
    PROVE  Keys(m) \subseteq K /\ \A k \in Keys(m) : m[k] \in V
BY DEF Keys, Map

(* Setting up a group. *)
LEMMA InitGroupTyped ==
    ASSUME NEW s \in State, NEW tx \in Tx, tx.type = "InitGroup"
    PROVE  InitGroupNext(s, tx) \in State
<1>1. [params |-> tx.params, pkp |-> tx.pkp, validators |-> tx.validators] \in GroupConfig
  BY TxFields DEF GroupConfig
<1> QED BY <1>1 DEF InitGroupNext, State

LEMMA DkgBeginTyped ==
    ASSUME NEW s \in State, NEW tx \in Tx, tx.type = "DkgBegin"
    PROVE  DkgBeginNext(s, tx) \in State
<1>1. [params |-> tx.params, validators |-> tx.validators, round1 |-> Empty(Ids),
       round2 |-> Empty(Ids \X Ids), finalize |-> Empty(Ids)] \in DkgCeremony
  BY TxFields, EmptyTyped DEF DkgCeremony
<1> QED BY <1>1 DEF DkgBeginNext, State

LEMMA DkgRound1Typed ==
    ASSUME NEW s \in State, NEW tx \in Tx, tx.type = "DkgRound1", DkgRound1Ok(s, tx)
    PROVE  DkgRound1Next(s, tx) \in State
<1>1. s.ceremony \in DkgCeremony
  BY StateParts DEF DkgRound1Ok
<1>2. [s.ceremony.round1 EXCEPT ![tx.from] = tx.package] \in Map(Ids, Draw)
  BY <1>1, TxFields DEF DkgCeremony, Map
<1>3. [s.ceremony EXCEPT !.round1[tx.from] = tx.package] \in DkgCeremony
  BY <1>1, <1>2 DEF DkgCeremony
<1> QED BY <1>3 DEF DkgRound1Next, State

LEMMA DkgRound2Typed ==
    ASSUME NEW s \in State, NEW tx \in Tx, tx.type = "DkgRound2", DkgRound2Ok(s, tx)
    PROVE  DkgRound2Next(s, tx) \in State
<1>1. s.ceremony \in DkgCeremony
  BY StateParts DEF DkgRound2Ok
<1>2. [s.ceremony.round2 EXCEPT ![<<tx.from, tx.to>>] = tx.sealed] \in Map(Ids \X Ids, Sealed)
  BY <1>1, TxFields DEF DkgCeremony, Map
<1>3. [s.ceremony EXCEPT !.round2[<<tx.from, tx.to>>] = tx.sealed] \in DkgCeremony
  BY <1>1, <1>2 DEF DkgCeremony
<1> QED BY <1>3 DEF DkgRound2Next, State

(* A map that is not empty has a first entry, and FirstValue is its value. *)
LEMMA FirstValueTyped ==
    ASSUME NEW V, NEW m \in Map(Ids, V), Keys(m) # {}
    PROVE  \E k \in Keys(m) : FirstValue(m) = m[k]
<1> DEFINE R == {p \in Nat \X Nat : p[1] < p[2]}
<1>1. Keys(m) \subseteq Nat
  BY KeysTyped, IdsAssumption
<1>2. IsWellFoundedOn(R, Nat)
  BY NatLessThanWellFounded, Zenon DEF OpToRel
<1> HIDE DEF R
<1>3. \E x \in Keys(m) : \A y \in Keys(m) : ~(<<y, x>> \in R)
  BY <1>1, <1>2, WFMin, Zenon
<1>4. \E x \in Keys(m) : \A y \in Keys(m) : x <= y
  <2>1. PICK x \in Keys(m) : \A y \in Keys(m) : ~(<<y, x>> \in R)
    BY <1>3
  <2>2. ASSUME NEW y \in Keys(m) PROVE x <= y
    <3>1. x \in Nat /\ y \in Nat /\ ~(<<y, x>> \in R)
      BY <1>1, <2>1
    <3>2. ~(y < x)
      BY <3>1, Zenon DEF R
    <3> QED BY <3>1, <3>2
  <2> QED BY <2>2
<1> QED BY <1>4 DEF FirstValue

(* The ceremony after a finalize, and the group it may become. *)
LEMMA FinalizedGroup ==
    ASSUME NEW s \in State, NEW tx \in Tx, tx.type = "DkgFinalize", DkgFinalizeOk(s, tx)
    PROVE  LET c == [s.ceremony EXCEPT !.finalize[tx.from] = tx.pkp]
           IN  /\ c \in DkgCeremony
               /\ [params |-> c.params, pkp |-> FirstValue(c.finalize),
                   validators |-> Keys(c.validators)] \in GroupConfig
<1> DEFINE c == [s.ceremony EXCEPT !.finalize[tx.from] = tx.pkp]
<1>1. s.ceremony \in DkgCeremony
  BY StateParts DEF DkgFinalizeOk
<1>2. [s.ceremony.finalize EXCEPT ![tx.from] = tx.pkp] \in Map(Ids, PublicKeyPackage)
  BY <1>1, TxFields DEF DkgCeremony, Map
<1>3. c \in DkgCeremony
  BY <1>1, <1>2 DEF DkgCeremony
<1>4. c.finalize[tx.from] = tx.pkp /\ tx.pkp # None
  BY <1>1, TxFields, NoneAssumption DEF DkgCeremony, Map
<1>5. Keys(c.finalize) # {}
  BY <1>3, <1>4, TxFields DEF DkgCeremony, Map, Keys
<1>6. FirstValue(c.finalize) \in PublicKeyPackage
  BY <1>3, <1>5, FirstValueTyped, KeysTyped DEF DkgCeremony
<1>7. [params |-> c.params, pkp |-> FirstValue(c.finalize), validators |-> Keys(c.validators)]
        \in GroupConfig
  BY <1>3, <1>6, KeysTyped DEF DkgCeremony, GroupConfig
<1> QED BY <1>3, <1>7

LEMMA DkgFinalizeTyped ==
    ASSUME NEW s \in State, NEW tx \in Tx, tx.type = "DkgFinalize", DkgFinalizeOk(s, tx)
    PROVE  DkgFinalizeNext(s, tx) \in State
BY FinalizedGroup DEF DkgFinalizeNext, State

LEMMA SubmitRequestTyped ==
    ASSUME NEW s \in State, NEW tx \in Tx, tx.type = "SubmitRequest"
    PROVE  SubmitRequestNext(s, tx) \in State
<1>1. [tag |-> "AwaitingCommitments", commitments |-> Empty(Ids)] \in RequestStatus
  BY EmptyTyped DEF RequestStatus
<1>2. [message |-> tx.message, randomizer |-> tx.randomizer,
       status |-> [tag |-> "AwaitingCommitments", commitments |-> Empty(Ids)]] \in RequestEntry
  BY <1>1, TxFields DEF RequestEntry
<1> QED BY <1>2, TxFields DEF SubmitRequestNext, State, Map

(* Replacing the status of a request that exists. *)
LEMMA StatusTyped ==
    ASSUME NEW s \in State, NEW r \in Keys(s.requests), NEW st \in RequestStatus
    PROVE  [s EXCEPT !.requests[r].status = st] \in State
<1>1. s.requests[r] \in RequestEntry /\ r \in Uuids
  BY StateParts
<1>2. [s.requests[r] EXCEPT !.status = st] \in RequestEntry
  BY <1>1 DEF RequestEntry
<1> QED BY <1>1, <1>2 DEF State, Map

(* What the fields of a status are. *)
LEMMA StatusFields ==
    ASSUME NEW st \in RequestStatus
    PROVE  /\ st.tag = "AwaitingCommitments" => st.commitments \in Map(Ids, Draw)
           /\ st.tag = "Signing" =>
                /\ st.signing_package \in SigningPackage
                /\ st.participants \in SUBSET Ids
                /\ st.shares \in Map(Ids, SignatureShare)
                /\ st = [tag |-> "Signing", signing_package |-> st.signing_package,
                         participants |-> st.participants, shares |-> st.shares]
           /\ st.tag = "Completed" =>
                st.participants \in SUBSET Ids /\ st.signature \in Signature
           /\ st.tag \in {"AwaitingCommitments", "Signing", "Completed", "Failed"}
BY DEF RequestStatus

LEMMA AfterCommitmentTyped ==
    ASSUME NEW map \in Map(Ids, Draw), NEW t \in U16, NEW message \in Messages
    PROVE  AfterCommitment(map, t, message) \in RequestStatus
<1> DEFINE chosen == TakeFirst(Keys(map), t)
           commitments == [v \in Ids |-> IF v \in chosen THEN map[v] ELSE None]
<1>1. chosen \subseteq Ids
  BY KeysTyped DEF TakeFirst
<1>2. commitments \in Map(Ids, Draw)
  BY DEF Map
<1>3. [commitments |-> commitments, message |-> message] \in SigningPackage
  BY <1>2 DEF SigningPackage
<1>4. [tag |-> "Signing", signing_package |-> [commitments |-> commitments, message |-> message],
       participants |-> chosen, shares |-> Empty(Ids)] \in RequestStatus
  BY <1>1, <1>3, EmptyTyped DEF RequestStatus
<1>5. [tag |-> "AwaitingCommitments", commitments |-> map] \in RequestStatus
  BY DEF RequestStatus
<1> QED BY <1>4, <1>5 DEF AfterCommitment

LEMMA SubmitCommitmentTyped ==
    ASSUME NEW s \in State, NEW tx \in Tx, tx.type = "SubmitCommitment",
           SubmitCommitmentOk(s, tx)
    PROVE  SubmitCommitmentNext(s, tx) \in State
<1> DEFINE entry == s.requests[tx.request_id]
           map == [entry.status.commitments EXCEPT ![tx.validator] = tx.commitments]
<1>1. tx.request_id \in Keys(s.requests) /\ entry \in RequestEntry /\ s.group \in GroupConfig
  BY StateParts DEF SubmitCommitmentOk
<1>2. entry.status \in RequestStatus /\ entry.message \in Messages
  BY <1>1 DEF RequestEntry
<1>3. entry.status.commitments \in Map(Ids, Draw)
  BY <1>2, StatusFields DEF SubmitCommitmentOk
<1>4. map \in Map(Ids, Draw)
  BY <1>3, TxFields DEF Map
<1>5. s.group.params.threshold \in U16
  BY <1>1 DEF GroupConfig, MpcParams
<1>6. AfterCommitment(map, s.group.params.threshold, entry.message) \in RequestStatus
  BY <1>2, <1>4, <1>5, AfterCommitmentTyped
<1> QED BY <1>1, <1>6, StatusTyped DEF SubmitCommitmentNext

LEMMA AfterShareTyped ==
    ASSUME NEW entry \in RequestEntry, entry.status.tag = "Signing",
           NEW group \in GroupConfig, NEW shares \in Map(Ids, SignatureShare)
    PROVE  AfterShare(entry, group, shares) \in RequestStatus
<1> DEFINE st == entry.status
           signature == [message |-> st.signing_package.message,
                         randomizer |-> entry.randomizer, pkp |-> group.pkp]
<1>1. st \in RequestStatus /\ entry.randomizer \in Randomizers
  BY DEF RequestEntry
<1>2. /\ st.signing_package \in SigningPackage
      /\ st.participants \in SUBSET Ids
      /\ st = [tag |-> "Signing", signing_package |-> st.signing_package,
               participants |-> st.participants, shares |-> st.shares]
  BY <1>1, StatusFields
<1>3. [st EXCEPT !.shares = shares] =
        [tag |-> "Signing", signing_package |-> st.signing_package,
         participants |-> st.participants, shares |-> shares]
  BY <1>2
<1>4. [st EXCEPT !.shares = shares] \in RequestStatus
  BY <1>2, <1>3 DEF RequestStatus
<1>5. signature \in Signature
  BY <1>1, <1>2 DEF SigningPackage, GroupConfig, Signature
<1>6. [tag |-> "Completed", participants |-> st.participants, signature |-> signature]
        \in RequestStatus
  BY <1>2, <1>5 DEF RequestStatus
<1>7. [tag |-> "Failed"] \in RequestStatus
  BY DEF RequestStatus
<1> QED BY <1>4, <1>6, <1>7 DEF AfterShare

LEMMA SubmitShareTyped ==
    ASSUME NEW s \in State, NEW tx \in Tx, tx.type = "SubmitShare", SubmitShareOk(s, tx)
    PROVE  SubmitShareNext(s, tx) \in State
<1> DEFINE entry == s.requests[tx.request_id]
           shares == [entry.status.shares EXCEPT ![tx.validator] = tx.share]
<1>1. tx.request_id \in Keys(s.requests) /\ entry \in RequestEntry /\ s.group \in GroupConfig
  BY StateParts DEF SubmitShareOk
<1>2. entry.status \in RequestStatus /\ entry.status.tag = "Signing"
  BY <1>1 DEF RequestEntry, SubmitShareOk
<1>3. shares \in Map(Ids, SignatureShare)
  BY <1>2, StatusFields, TxFields DEF Map
<1>4. AfterShare(entry, s.group, shares) \in RequestStatus
  BY <1>1, <1>2, <1>3, AfterShareTyped
<1> QED BY <1>1, <1>4, StatusTyped DEF SubmitShareNext

(* apply_tx maps states to states. *)
LEMMA ApplyTyped ==
    ASSUME NEW s \in State, NEW tx \in Tx, Accepts(s, tx)
    PROVE  apply_tx(s, tx) \in State
<1>1. CASE tx.type = "InitGroup"
  BY <1>1, InitGroupTyped DEF apply_tx
<1>2. CASE tx.type = "DkgBegin"
  BY <1>2, DkgBeginTyped DEF apply_tx
<1>3. CASE tx.type = "DkgRound1"
  BY <1>3, DkgRound1Typed DEF apply_tx, Accepts
<1>4. CASE tx.type = "DkgRound2"
  BY <1>4, DkgRound2Typed DEF apply_tx, Accepts
<1>5. CASE tx.type = "DkgFinalize"
  BY <1>5, DkgFinalizeTyped DEF apply_tx, Accepts
<1>6. CASE tx.type = "SubmitRequest"
  BY <1>6, SubmitRequestTyped DEF apply_tx
<1>7. CASE tx.type = "SubmitCommitment"
  BY <1>7, SubmitCommitmentTyped DEF apply_tx, Accepts
<1>8. CASE tx.type = "SubmitShare"
  BY <1>8, SubmitShareTyped DEF apply_tx, Accepts
<1> QED BY <1>1, <1>2, <1>3, <1>4, <1>5, <1>6, <1>7, <1>8 DEF Accepts

----------------------------------------------------------------------------
(* Maps and their keys.                                                    *)

LEMMA EmptyKeys == ASSUME NEW K PROVE Keys(Empty(K)) = {}
BY DEF Keys, Empty

LEMMA KeysFinite ==
    ASSUME NEW V, NEW m \in Map(Ids, V)
    PROVE  IsFiniteSet(Keys(m)) /\ Cardinality(Keys(m)) \in Nat
BY KeysTyped, IdsAssumption, FS_Subset, FS_CardinalityType

(* There are n(n-1) ordered pairs of distinct members of a set of n. *)
LEMMA PairsCardinality ==
    ASSUME NEW V, IsFiniteSet(V)
    PROVE  /\ IsFiniteSet(Pairs(V))
           /\ Cardinality(Pairs(V)) = Cardinality(V) * (Cardinality(V) - 1)
<1> DEFINE D == {<<v, v>> : v \in V}
           f == [v \in V |-> <<v, v>>]
<1>1. f \in Bijection(V, D)
  <2>1. f \in [V -> D]
    OBVIOUS
  <2>2. \A a, b \in V : f[a] = f[b] => a = b
    OBVIOUS
  <2>3. \A t \in D : \E v \in V : f[v] = t
    OBVIOUS
  <2> HIDE DEF f, D
  <2> QED BY <2>1, <2>2, <2>3, Fun_IsBij
<1>2. ExistsBijection(V, D)
  BY <1>1 DEF ExistsBijection
<1>3. Cardinality(D) = Cardinality(V)
  <2> HIDE DEF D
  <2> QED BY <1>2, FS_Bijection
<1>4. (V \X V) \cap D = D
  OBVIOUS
<1>5. Pairs(V) = (V \X V) \ D
  BY DEF Pairs
<1> HIDE DEF D
<1>6. IsFiniteSet(V \X V) /\ Cardinality(V \X V) = Cardinality(V) * Cardinality(V)
  BY FS_Product
<1>7. /\ IsFiniteSet((V \X V) \ D)
      /\ Cardinality((V \X V) \ D) = Cardinality(V) * Cardinality(V) - Cardinality(V)
  <2>1. /\ IsFiniteSet((V \X V) \ D)
        /\ Cardinality((V \X V) \ D) = Cardinality(V \X V) - Cardinality((V \X V) \cap D)
    BY <1>6, FS_Difference, Zenon
  <2> QED BY <2>1, <1>3, <1>4, <1>6
<1>8. Cardinality(V) \in Nat
  BY FS_CardinalityType
<1>9. \A n \in Nat : n * n - n = n * (n - 1)
  OBVIOUS
<1> QED BY <1>5, <1>7, <1>8, <1>9

(* The completeness tests count, and that is enough. *)
LEMMA CountingCovers ==
    ASSUME NEW c \in DkgCeremony, RoundsCounted(c)
    PROVE  RoundsCovered(c)
<1> DEFINE V == Keys(c.validators)
<1>1. IsFiniteSet(V) /\ Cardinality(V) \in Nat /\ Cardinality(V) = c.params.total
  BY KeysFinite DEF RoundsCounted, DkgCeremony
<1>2. Keys(c.round1) \subseteq V /\ Keys(c.round2) \subseteq Pairs(V)
  BY DEF RoundsCounted
<1> HIDE DEF V
<1>3. /\ IsFiniteSet(Pairs(V))
      /\ Cardinality(Pairs(V)) = c.params.total * (c.params.total - 1)
  BY <1>1, PairsCardinality
<1>4. r1_complete(c) <=> Keys(c.round1) = V
  BY <1>1, <1>2, FS_Subset DEF r1_complete
<1>5. r2_complete(c) <=> Keys(c.round2) = Pairs(V)
  BY <1>2, <1>3, FS_Subset DEF r2_complete
<1> QED BY <1>4, <1>5 DEF RoundsCovered, V

(* Taking the first k of at most k keys takes them all. *)
LEMMA TakeAll ==
    ASSUME NEW S, S \subseteq Nat, IsFiniteSet(S), NEW k \in Nat, Cardinality(S) = k
    PROVE  TakeFirst(S, k) = S
<1>1. ASSUME NEW x \in S PROVE Cardinality({y \in S : y < x}) < k
  <2> DEFINE T == {y \in S : y < x}
  <2>1. T \subseteq S \ {x}
    OBVIOUS
  <2>2. IsFiniteSet(S \ {x}) /\ Cardinality(S \ {x}) = k - 1
    BY FS_RemoveElement
  <2> HIDE DEF T
  <2>3. Cardinality(T) <= k - 1 /\ IsFiniteSet(T)
    BY <2>1, <2>2, FS_Subset
  <2>4. Cardinality(T) \in Nat
    BY <2>3, FS_CardinalityType
  <2>5. Cardinality(T) < k
    BY <2>3, <2>4
  <2> QED BY <2>5 DEF T
<1> QED BY <1>1 DEF TakeFirst

LEMMA TakeNone ==
    ASSUME NEW S, IsFiniteSet(S)
    PROVE  TakeFirst(S, 0) = {}
<1>1. ASSUME NEW x \in S PROVE ~(Cardinality({y \in S : y < x}) < 0)
  <2> DEFINE T == {y \in S : y < x}
  <2>1. T \subseteq S
    OBVIOUS
  <2> HIDE DEF T
  <2>2. Cardinality(T) \in Nat
    BY <2>1, FS_Subset, FS_CardinalityType
  <2>3. ~(Cardinality(T) < 0)
    BY <2>2
  <2> QED BY <2>3 DEF T
<1> QED BY <1>1 DEF TakeFirst

----------------------------------------------------------------------------
(* Sets of numbers in order.                                               *)

Smaller(S, x) == {y \in S : y < x}

(* In a finite set of numbers, the smaller ones are fewer for a smaller    *)
(* number, and never all of them.                                          *)
LEMMA Below ==
    ASSUME NEW S, S \subseteq Nat, IsFiniteSet(S), NEW x \in S
    PROVE  /\ Cardinality(Smaller(S, x)) \in Nat
           /\ Cardinality(Smaller(S, x)) < Cardinality(S)
           /\ \A z \in S : x < z => Cardinality(Smaller(S, x)) < Cardinality(Smaller(S, z))
<1>1. \A z : Smaller(S, z) \in SUBSET S
  BY DEF Smaller
<1>2. \A z : IsFiniteSet(Smaller(S, z)) /\ Cardinality(Smaller(S, z)) \in Nat
  BY <1>1, FS_Subset, FS_CardinalityType
<1>3. Cardinality(S) \in Nat
  BY FS_CardinalityType
<1>4. x \notin Smaller(S, x)
  BY DEF Smaller
<1>5. Cardinality(Smaller(S, x)) < Cardinality(S)
  <2>1. /\ Cardinality(Smaller(S, x)) <= Cardinality(S)
        /\ Cardinality(S) # Cardinality(Smaller(S, x))
    BY <1>1, <1>4, FS_Subset
  <2> QED BY <1>2, <1>3, <2>1
<1>6. ASSUME NEW z \in S, x < z
      PROVE  Cardinality(Smaller(S, x)) < Cardinality(Smaller(S, z))
  <2>1. \A y \in S : y < x => y < z
    <3> TAKE y \in S
    <3>1. x \in Nat /\ y \in Nat /\ z \in Nat
      OBVIOUS
    <3> QED BY <1>6, <3>1
  <2>2. Smaller(S, x) \in SUBSET Smaller(S, z) /\ x \in Smaller(S, z)
    BY <1>6, <2>1 DEF Smaller
  <2>3. /\ Cardinality(Smaller(S, x)) <= Cardinality(Smaller(S, z))
        /\ Cardinality(Smaller(S, z)) # Cardinality(Smaller(S, x))
    BY <1>2, <1>4, <2>2, FS_Subset
  <2> QED BY <1>2, <2>3
<1> QED BY <1>2, <1>5, <1>6

(* InOrder lists a finite set of numbers, all of it and nothing else. *)
LEMMA InOrderLists ==
    ASSUME NEW S, S \subseteq Nat, IsFiniteSet(S)
    PROVE  /\ Cardinality(S) \in Nat
           /\ InOrder(S) \in [1 .. Cardinality(S) -> S]
           /\ \A x \in S : \E i \in 1 .. Cardinality(S) : InOrder(S)[i] = x
<1> DEFINE N == Cardinality(S)
           rank == [x \in S |-> Cardinality(Smaller(S, x)) + 1]
           seq == [i \in 1 .. N |-> CHOOSE x \in S : rank[x] = i]
           Sorted(f) == \A i, j \in DOMAIN f : i < j => f[i] < f[j]
<1>1. N \in Nat /\ IsFiniteSet(1 .. N) /\ Cardinality(1 .. N) = N
  BY FS_CardinalityType, FS_Interval
<1> DEFINE C(x) == Cardinality(Smaller(S, x))
<1>0. \A x \in S : C(x) \in Nat /\ C(x) < N /\ \A z \in S : x < z => C(x) < C(z)
  BY Below, Zenon
<1> HIDE DEF C, N
<1>2. \A x \in S : rank[x] = C(x) + 1
  BY DEF C
<1>3. \A x \in S : rank[x] \in 1 .. N
  BY <1>0, <1>1, <1>2
<1>4. \A x, z \in S : x < z => rank[x] < rank[z]
  BY <1>0, <1>2
<1> HIDE DEF rank
<1>5. rank \in Injection(S, 1 .. N)
  <2>1. \A x, z \in S : rank[x] = rank[z] => x = z
    BY <1>3, <1>4
  <2>2. rank \in [S -> 1 .. N]
    BY <1>3 DEF rank
  <2> QED BY <2>1, <2>2 DEF Injection, IsInjective
<1>6. \A i \in 1 .. N : \E x \in S : rank[x] = i
  <2>1. rank \in Surjection(S, 1 .. N)
    BY <1>1, <1>5, FS_Injection DEF N
  <2> QED BY <2>1 DEF Surjection
<1>7. seq \in [1 .. N -> S] /\ \A i \in 1 .. N : rank[seq[i]] = i
  BY <1>6
<1> HIDE DEF seq
<1>8. Sorted(seq)
  <2> SUFFICES ASSUME NEW i \in 1 .. N, NEW j \in 1 .. N, i < j PROVE seq[i] < seq[j]
    BY <1>7
  <2>1. seq[i] \in Nat /\ seq[j] \in Nat /\ seq[i] \in S /\ seq[j] \in S
    BY <1>7
  <2>2. rank[seq[i]] = i /\ rank[seq[j]] = j
    BY <1>7
  <2> QED BY <1>4, <2>1, <2>2
<1>9. InOrder(S) \in [1 .. N -> S] /\ Sorted(InOrder(S))
  BY <1>7, <1>8 DEF InOrder, N
<1> DEFINE out == InOrder(S)
<1>10. out \in Injection(1 .. N, S)
  <2>1. out \in [1 .. N -> S] /\ \A i, j \in 1 .. N : i < j => out[i] < out[j]
    BY <1>9
  <2> HIDE DEF out
  <2>2. \A i, j \in 1 .. N : out[i] = out[j] => i = j
    <3> SUFFICES ASSUME NEW i \in 1 .. N, NEW j \in 1 .. N, i < j PROVE out[i] # out[j]
      BY <1>1
    <3>1. out[i] < out[j] /\ out[i] \in Nat /\ out[j] \in Nat
      BY <2>1
    <3> QED BY <3>1
  <2> QED BY <2>1, <2>2 DEF Injection, IsInjective
<1>11. out \in Surjection(1 .. N, S)
  BY <1>1, <1>10, FS_Injection DEF N
<1> QED BY <1>1, <1>9, <1>11 DEF Surjection, N

----------------------------------------------------------------------------
(* Sequences as sets.                                                      *)

LEMMA ToSetConcat ==
    ASSUME NEW T, NEW q \in Seq(T), NEW txs \in Seq(T)
    PROVE  ToSet(q \o txs) = ToSet(q) \cup ToSet(txs)
<1> DEFINE c == q \o txs
<1>1. /\ Len(q) \in Nat /\ Len(txs) \in Nat /\ Len(c) = Len(q) + Len(txs)
      /\ DOMAIN q = 1 .. Len(q) /\ DOMAIN txs = 1 .. Len(txs) /\ DOMAIN c = 1 .. Len(c)
      /\ \A i \in 1 .. Len(c) : c[i] = IF i <= Len(q) THEN q[i] ELSE txs[i - Len(q)]
  OBVIOUS
<1> HIDE DEF c
<1>2. ASSUME NEW i \in DOMAIN c PROVE c[i] \in ToSet(q) \cup ToSet(txs)
  <2>1. (i \in DOMAIN q /\ i <= Len(q)) \/ (i - Len(q) \in DOMAIN txs /\ ~(i <= Len(q)))
    BY <1>1
  <2> QED BY <1>1, <2>1 DEF ToSet
<1>3. ASSUME NEW i \in DOMAIN q PROVE q[i] \in ToSet(c)
  BY <1>1 DEF ToSet
<1>4. ASSUME NEW i \in DOMAIN txs PROVE txs[i] \in ToSet(c)
  <2>1. i + Len(q) \in DOMAIN c /\ c[i + Len(q)] = txs[i]
    BY <1>1
  <2> QED BY <2>1 DEF ToSet
<1>5. ToSet(c) = {c[i] : i \in DOMAIN c} /\ ToSet(q) = {q[i] : i \in DOMAIN q}
      /\ ToSet(txs) = {txs[i] : i \in DOMAIN txs}
  BY DEF ToSet
<1> QED BY <1>2, <1>3, <1>4, <1>5 DEF c

LEMMA ToSetTail ==
    ASSUME NEW T, NEW q \in Seq(T), q # <<>>
    PROVE  /\ Head(q) \in T /\ Tail(q) \in Seq(T)
           /\ ToSet(q) = {Head(q)} \cup ToSet(Tail(q))
<1> DEFINE c == Tail(q)
<1>1. /\ Head(q) \in T /\ c \in Seq(T) /\ Len(q) \in Nat \ {0} /\ Len(c) = Len(q) - 1
      /\ DOMAIN q = 1 .. Len(q) /\ DOMAIN c = 1 .. Len(c)
      /\ \A i \in 1 .. Len(c) : c[i] = q[i + 1]
      /\ Head(q) = q[1]
  OBVIOUS
<1> HIDE DEF c
<1>2. ASSUME NEW i \in DOMAIN q PROVE q[i] = Head(q) \/ q[i] \in ToSet(c)
  <2>1. i = 1 \/ (i - 1 \in DOMAIN c /\ c[i - 1] = q[i])
    BY <1>1
  <2> QED BY <1>1, <2>1 DEF ToSet
<1>3. ASSUME NEW i \in DOMAIN c PROVE c[i] \in ToSet(q)
  <2>1. i + 1 \in DOMAIN q
    BY <1>1
  <2> QED BY <1>1, <2>1 DEF ToSet
<1>4. Head(q) \in ToSet(q)
  <2>1. 1 \in DOMAIN q
    BY <1>1
  <2> QED BY <1>1, <2>1 DEF ToSet
<1>5. ToSet(c) = {c[i] : i \in DOMAIN c} /\ ToSet(q) = {q[i] : i \in DOMAIN q}
  BY DEF ToSet
<1> QED BY <1>1, <1>2, <1>3, <1>4, <1>5 DEF c

LEMMA ToSetAppend ==
    ASSUME NEW q \in Seq(Tx), NEW tx \in Tx, NEW c, c = q \o <<tx>>
    PROVE  c \in Seq(Tx) /\ ToSet(c) = ToSet(q) \cup {tx}
<1>1. <<tx>> \in Seq(Tx) /\ ToSet(<<tx>>) = {tx}
  BY DEF ToSet
<1>2. ToSet(q \o <<tx>>) = ToSet(q) \cup ToSet(<<tx>>)
  BY <1>1, ToSetConcat, ZenonT(30)
<1> QED BY <1>1, <1>2

----------------------------------------------------------------------------
(* Which transaction touches which part of the state.                      *)

LEMMA Frame ==
    ASSUME NEW s \in State, NEW tx \in Tx, Accepts(s, tx)
    PROVE  LET t == apply_tx(s, tx) IN
           /\ tx.type \in {"InitGroup", "DkgBegin", "DkgRound1", "DkgRound2", "DkgFinalize"}
                => t.requests = s.requests
           /\ tx.type \notin {"InitGroup", "DkgFinalize"} => t.group = s.group
           /\ tx.type \in {"InitGroup", "SubmitRequest", "SubmitCommitment", "SubmitShare"}
                => t.ceremony = s.ceremony
           /\ tx.type = "DkgFinalize" =>
                \/ t.ceremony = None /\ s.ceremony # None
                \/ t.ceremony # None /\ t.group = s.group
           /\ tx.type \in {"SubmitRequest", "SubmitCommitment", "SubmitShare"}
                => s.group # None
<1> DEFINE t == apply_tx(s, tx)
<1>1. CASE tx.type \in {"InitGroup", "DkgBegin", "DkgRound1", "DkgRound2"}
  BY <1>1 DEF apply_tx, InitGroupNext, DkgBeginNext, DkgRound1Next, DkgRound2Next, State
<1>2. CASE tx.type \in {"SubmitRequest", "SubmitCommitment", "SubmitShare"}
  <2>1. s.group # None
    BY <1>2 DEF Accepts, SubmitRequestOk, SubmitCommitmentOk, SubmitShareOk
  <2> QED BY <1>2, <2>1 DEF apply_tx, SubmitRequestNext, SubmitCommitmentNext, SubmitShareNext,
                            State
<1>3. CASE tx.type = "DkgFinalize"
  <2> DEFINE c == [s.ceremony EXCEPT !.finalize[tx.from] = tx.pkp]
  <2>1. s.ceremony # None /\ s.ceremony \in DkgCeremony
    BY <1>3, StateParts DEF Accepts, DkgFinalizeOk
  <2>2. c \in DkgCeremony
    BY <1>3, <2>1, TxFields DEF DkgCeremony, Map
  <2>3. c # None
    BY <2>2, NoneAssumption
  <2>4. t = DkgFinalizeNext(s, tx)
    BY <1>3 DEF apply_tx
  <2>5. t.requests = s.requests
    BY <2>4 DEF DkgFinalizeNext, State
  <2>6. t.ceremony = None \/ (t.ceremony = c /\ t.group = s.group)
    BY <2>4 DEF DkgFinalizeNext, State
  <2> QED BY <1>3, <2>1, <2>3, <2>5, <2>6
<1> QED BY <1>1, <1>2, <1>3 DEF Tx

(* InitGroup and DkgBegin exclude each other, and requests need a group. *)
LEMMA ApplyOneGroup ==
    ASSUME NEW s \in State, NEW tx \in Tx, Accepts(s, tx), OneGroup(s)
    PROVE  OneGroup(apply_tx(s, tx))
<1> DEFINE t == apply_tx(s, tx)
<1>1. t \in State
  BY ApplyTyped
<1>2. CASE tx.type = "InitGroup"
  <2>1. t.ceremony = None /\ t.requests = s.requests
    BY <1>2, Frame DEF Accepts, InitGroupOk
  <2>2. t.group # None
    <3>1. [params |-> tx.params, pkp |-> tx.pkp, validators |-> tx.validators] \in GroupConfig
      BY <1>2, TxFields DEF GroupConfig
    <3> QED BY <1>2, <3>1, NoneAssumption DEF apply_tx, InitGroupNext, State
  <2> QED BY <2>1, <2>2 DEF OneGroup
<1>3. CASE tx.type \in {"DkgBegin", "DkgRound1", "DkgRound2", "DkgFinalize"}
  <2>1. s.group = None
    BY <1>3 DEF Accepts, DkgBeginOk, DkgRound1Ok, DkgRound2Ok, DkgFinalizeOk, OneGroup
  <2>2. t.group = None \/ t.ceremony = None
    BY <1>3, <2>1, Frame
  <2>3. t.requests = s.requests
    BY <1>3, Frame
  <2> QED BY <2>1, <2>2, <2>3 DEF OneGroup
<1>4. CASE tx.type \in {"SubmitRequest", "SubmitCommitment", "SubmitShare"}
  BY <1>4, Frame DEF OneGroup
<1> QED BY <1>2, <1>3, <1>4 DEF Tx

(* A group that exists is left alone. *)
LEMMA ApplyKeepsGroup ==
    ASSUME NEW s \in State, NEW tx \in Tx, Accepts(s, tx), OneGroup(s), s.group # None
    PROVE  apply_tx(s, tx).group = s.group
BY Frame DEF Accepts, InitGroupOk, DkgFinalizeOk, OneGroup

----------------------------------------------------------------------------
(* An open ceremony stays in order.                                        *)

LEMMA DkgBeginOrdered ==
    ASSUME NEW s \in State, NEW tx \in Tx, tx.type = "DkgBegin", DkgBeginOk(s, tx)
    PROVE  LET c == DkgBeginNext(s, tx).ceremony IN RoundsCounted(c) /\ FinalizersAgree(c)
<1> DEFINE c == [params |-> tx.params, validators |-> tx.validators, round1 |-> Empty(Ids),
                 round2 |-> Empty(Ids \X Ids), finalize |-> Empty(Ids)]
<1>1. DkgBeginNext(s, tx).ceremony = c
  BY DEF DkgBeginNext, State
<1>2. Keys(c.round1) = {} /\ Keys(c.round2) = {} /\ Keys(c.finalize) = {}
  BY EmptyKeys
<1>3. Cardinality(Keys(c.validators)) = c.params.total
  BY DEF DkgBeginOk
<1> HIDE DEF c
<1>4. RoundsCounted(c)
  BY <1>2, <1>3 DEF RoundsCounted
<1>5. FinalizersAgree(c)
  BY <1>2 DEF FinalizersAgree
<1> QED BY <1>1, <1>4, <1>5

LEMMA DkgRound1Ordered ==
    ASSUME NEW s \in State, NEW tx \in Tx, tx.type = "DkgRound1", DkgRound1Ok(s, tx),
           CeremonyInOrder(s)
    PROVE  LET c == DkgRound1Next(s, tx).ceremony IN RoundsCounted(c) /\ FinalizersAgree(c)
<1> DEFINE b == s.ceremony
           c == [b EXCEPT !.round1[tx.from] = tx.package]
<1>1. DkgRound1Next(s, tx).ceremony = c
  BY DEF DkgRound1Next, State
<1>2. /\ b \in DkgCeremony /\ RoundsCounted(b) /\ RoundsCovered(b) /\ FinalizersAgree(b)
      /\ tx.from \in Keys(b.validators) /\ tx.from \notin Keys(b.round1)
  BY StateParts DEF DkgRound1Ok, CeremonyInOrder
<1>3. /\ c.params = b.params /\ c.validators = b.validators
      /\ c.round2 = b.round2 /\ c.finalize = b.finalize
      /\ c.round1 = [b.round1 EXCEPT ![tx.from] = tx.package]
  BY <1>2 DEF DkgCeremony
<1>4. Keys(c.round1) = Keys(b.round1) \cup {tx.from}
  <2>1. b.round1 \in Map(Ids, Draw) /\ tx.from \in Ids /\ tx.package # None
    BY <1>2, TxFields, NoneAssumption DEF DkgCeremony
  <2> HIDE DEF c, b
  <2> QED BY <1>3, <2>1 DEF Keys, Map
<1> HIDE DEF c, b
<1>5. Keys(c.round2) = {}
  BY <1>2, <1>3 DEF RoundsCounted, RoundsCovered
<1>6. Keys(c.finalize) # {} => r2_complete(c)
  BY <1>2, <1>3 DEF RoundsCounted, r2_complete
<1>7. RoundsCounted(c)
  BY <1>2, <1>3, <1>4, <1>5, <1>6 DEF RoundsCounted
<1>8. FinalizersAgree(c)
  BY <1>2, <1>3 DEF FinalizersAgree
<1> QED BY <1>1, <1>7, <1>8

LEMMA DkgRound2Ordered ==
    ASSUME NEW s \in State, NEW tx \in Tx, tx.type = "DkgRound2", DkgRound2Ok(s, tx),
           CeremonyInOrder(s)
    PROVE  LET c == DkgRound2Next(s, tx).ceremony IN RoundsCounted(c) /\ FinalizersAgree(c)
<1> DEFINE b == s.ceremony
           p == <<tx.from, tx.to>>
           c == [b EXCEPT !.round2[p] = tx.sealed]
<1>1. DkgRound2Next(s, tx).ceremony = c
  BY DEF DkgRound2Next, State
<1>2. /\ b \in DkgCeremony /\ RoundsCounted(b) /\ RoundsCovered(b) /\ FinalizersAgree(b)
      /\ tx.from \in Keys(b.validators) /\ tx.to \in Keys(b.validators) /\ tx.from # tx.to
      /\ p \notin Keys(b.round2) /\ r1_complete(b)
  BY StateParts DEF DkgRound2Ok, CeremonyInOrder
<1>3. /\ c.params = b.params /\ c.validators = b.validators
      /\ c.round1 = b.round1 /\ c.finalize = b.finalize
      /\ c.round2 = [b.round2 EXCEPT ![p] = tx.sealed]
  BY <1>2 DEF DkgCeremony
<1>4. Keys(c.round2) = Keys(b.round2) \cup {p}
  <2>1. b.round2 \in Map(Ids \X Ids, Sealed) /\ p \in Ids \X Ids /\ tx.sealed # None
    BY <1>2, TxFields, NoneAssumption DEF DkgCeremony
  <2> HIDE DEF c, b, p
  <2> QED BY <1>3, <2>1 DEF Keys, Map
<1>5. p \in Pairs(Keys(b.validators))
  BY <1>2 DEF Pairs
<1> HIDE DEF c, b, p
<1>6. Keys(c.finalize) = {}
  BY <1>2, <1>3, <1>5 DEF RoundsCounted, RoundsCovered
<1>7. r1_complete(c)
  BY <1>2, <1>3 DEF r1_complete
<1>8. RoundsCounted(c)
  BY <1>2, <1>3, <1>4, <1>5, <1>6, <1>7 DEF RoundsCounted
<1>9. FinalizersAgree(c)
  BY <1>6 DEF FinalizersAgree
<1> QED BY <1>1, <1>8, <1>9

(* A finalize adds one member, with the key the others have derived. *)
LEMMA FinalizeAdds ==
    ASSUME NEW s \in State, NEW tx \in Tx, tx.type = "DkgFinalize", DkgFinalizeOk(s, tx),
           CeremonyInOrder(s)
    PROVE  LET b == s.ceremony
               c == [b EXCEPT !.finalize[tx.from] = tx.pkp]
           IN  /\ c.params = b.params /\ c.validators = b.validators
               /\ c.round1 = b.round1 /\ c.round2 = b.round2
               /\ Keys(c.finalize) = Keys(b.finalize) \cup {tx.from}
               /\ \A v \in Keys(b.finalize) : b.finalize[v] = tx.pkp
               /\ \A v \in Keys(c.finalize) : c.finalize[v] = tx.pkp
<1> DEFINE b == s.ceremony
           c == [b EXCEPT !.finalize[tx.from] = tx.pkp]
<1>1. /\ b \in DkgCeremony /\ FinalizersAgree(b)
      /\ Keys(b.finalize) # {} => tx.pkp = FirstValue(b.finalize)
  BY StateParts DEF DkgFinalizeOk, CeremonyInOrder
<1>2. /\ c.params = b.params /\ c.validators = b.validators
      /\ c.round1 = b.round1 /\ c.round2 = b.round2
      /\ c.finalize = [b.finalize EXCEPT ![tx.from] = tx.pkp]
  BY <1>1 DEF DkgCeremony
<1>3. /\ b.finalize \in Map(Ids, PublicKeyPackage)
      /\ tx.from \in Ids /\ tx.pkp # None
  BY <1>1, TxFields, NoneAssumption DEF DkgCeremony
<1> HIDE DEF c, b
<1>4. Keys(c.finalize) = Keys(b.finalize) \cup {tx.from}
  BY <1>2, <1>3 DEF Keys, Map
<1>5. \A v \in Keys(b.finalize) : b.finalize[v] = tx.pkp
  <2>1. SUFFICES ASSUME NEW v \in Keys(b.finalize) PROVE b.finalize[v] = tx.pkp
    OBVIOUS
  <2>2. PICK k \in Keys(b.finalize) : FirstValue(b.finalize) = b.finalize[k]
    BY <1>3, FirstValueTyped
  <2> QED BY <1>1, <2>2 DEF FinalizersAgree
<1>6. \A v \in Keys(c.finalize) : c.finalize[v] = tx.pkp
  BY <1>2, <1>3, <1>4, <1>5 DEF Map
<1> QED BY <1>2, <1>4, <1>5, <1>6 DEF b, c

LEMMA DkgFinalizeOrdered ==
    ASSUME NEW s \in State, NEW tx \in Tx, tx.type = "DkgFinalize", DkgFinalizeOk(s, tx),
           CeremonyInOrder(s), DkgFinalizeNext(s, tx).ceremony # None
    PROVE  LET c == DkgFinalizeNext(s, tx).ceremony IN RoundsCounted(c) /\ FinalizersAgree(c)
<1> DEFINE b == s.ceremony
           c == [b EXCEPT !.finalize[tx.from] = tx.pkp]
<1>1. DkgFinalizeNext(s, tx).ceremony = c /\ ~finalize_complete(c)
  BY DEF DkgFinalizeNext, State
<1>2. RoundsCounted(b) /\ tx.from \in Keys(b.validators) /\ r2_complete(b)
  BY DEF DkgFinalizeOk, CeremonyInOrder
<1>3. /\ c.params = b.params /\ c.validators = b.validators
      /\ c.round1 = b.round1 /\ c.round2 = b.round2
      /\ Keys(c.finalize) = Keys(b.finalize) \cup {tx.from}
      /\ \A v \in Keys(c.finalize) : c.finalize[v] = tx.pkp
  BY FinalizeAdds
<1> HIDE DEF c, b
<1>4. Keys(c.finalize) # Keys(c.validators)
  BY <1>1, <1>2, <1>3 DEF RoundsCounted, finalize_complete
<1>5. r2_complete(c) /\ (r1_complete(b) => r1_complete(c))
  BY <1>2, <1>3 DEF r1_complete, r2_complete
<1>6. RoundsCounted(c)
  BY <1>2, <1>3, <1>4, <1>5 DEF RoundsCounted
<1>7. FinalizersAgree(c)
  BY <1>3 DEF FinalizersAgree
<1> QED BY <1>1, <1>6, <1>7

(* The finalize that makes a group is the last one, and the group gets the *)
(* key of all of them.                                                     *)
LEMMA ApplyPromotes ==
    ASSUME NEW s \in State, NEW tx \in Tx, Accepts(s, tx), OneGroup(s), CeremonyInOrder(s),
           s.ceremony # None, apply_tx(s, tx).group # None
    PROVE  LET b == s.ceremony
               g == apply_tx(s, tx).group
           IN  /\ g.validators = Keys(b.validators)
               /\ g.params = b.params
               /\ \A v \in Keys(b.finalize) : b.finalize[v] = g.pkp
               /\ \E v \in g.validators :
                    /\ Keys(b.finalize) \cup {v} = g.validators
                    /\ tx = [type |-> "DkgFinalize", from |-> v, pkp |-> g.pkp]
<1> DEFINE b == s.ceremony
           c == [b EXCEPT !.finalize[tx.from] = tx.pkp]
           g == apply_tx(s, tx).group
<1>1. s.group = None
  BY DEF OneGroup
<1>2. tx.type = "DkgFinalize" /\ DkgFinalizeOk(s, tx)
  BY <1>1, Frame DEF Accepts, InitGroupOk
<1>3. finalize_complete(c) /\ g = [params |-> c.params, pkp |-> FirstValue(c.finalize),
                                   validators |-> Keys(c.validators)]
  BY <1>1, <1>2 DEF apply_tx, DkgFinalizeNext, State
<1>4. /\ RoundsCounted(b) /\ tx.from \in Keys(b.validators)
      /\ c \in DkgCeremony /\ b \in DkgCeremony
  BY <1>2, StateParts, FinalizedGroup DEF DkgFinalizeOk, CeremonyInOrder
<1>5. /\ c.params = b.params /\ c.validators = b.validators
      /\ Keys(c.finalize) = Keys(b.finalize) \cup {tx.from}
      /\ \A v \in Keys(b.finalize) : b.finalize[v] = tx.pkp
      /\ \A v \in Keys(c.finalize) : c.finalize[v] = tx.pkp
  BY <1>2, FinalizeAdds
<1>6. tx = [type |-> "DkgFinalize", from |-> tx.from, pkp |-> tx.pkp]
  BY <1>2 DEF Tx
<1>7. c.finalize \in Map(Ids, PublicKeyPackage) /\ b.validators \in Map(Ids, Draw)
  BY <1>4 DEF DkgCeremony
<1> HIDE DEF b, c, g
<1>8. FirstValue(c.finalize) = tx.pkp
  <2>1. PICK k \in Keys(c.finalize) : FirstValue(c.finalize) = c.finalize[k]
    BY <1>5, <1>7, FirstValueTyped
  <2> QED BY <1>5, <2>1
<1>9. Keys(c.finalize) = Keys(b.validators)
  <2>1. Keys(c.finalize) \subseteq Keys(b.validators)
    BY <1>4, <1>5 DEF RoundsCounted
  <2>2. Cardinality(Keys(c.finalize)) = Cardinality(Keys(b.validators))
    BY <1>3, <1>4, <1>5 DEF RoundsCounted, finalize_complete
  <2>3. IsFiniteSet(Keys(b.validators))
    BY <1>7, KeysFinite
  <2> QED BY <2>1, <2>2, <2>3, FS_Subset
<1>10. /\ g.validators = Keys(b.validators) /\ g.params = b.params
       /\ \A v \in Keys(b.finalize) : b.finalize[v] = g.pkp
       /\ \E v \in g.validators :
            /\ Keys(b.finalize) \cup {v} = g.validators
            /\ tx = [type |-> "DkgFinalize", from |-> v, pkp |-> g.pkp]
  <2>1. g.params = c.params /\ g.pkp = tx.pkp /\ g.validators = Keys(b.validators)
    BY <1>3, <1>5, <1>8
  <2>2. tx.from \in g.validators /\ Keys(b.finalize) \cup {tx.from} = g.validators
    BY <1>4, <1>5, <1>9, <2>1
  <2>3. tx = [type |-> "DkgFinalize", from |-> tx.from, pkp |-> g.pkp]
    BY <1>6, <2>1
  <2> QED BY <1>5, <2>1, <2>2, <2>3
<1> QED BY <1>10 DEF b, g

(* apply_tx keeps an open ceremony in order. *)
LEMMA ApplyCeremony ==
    ASSUME NEW s \in State, NEW tx \in Tx, Accepts(s, tx), CeremonyInOrder(s)
    PROVE  CeremonyInOrder(apply_tx(s, tx))
<1> DEFINE t == apply_tx(s, tx)
<1>1. t \in State
  BY ApplyTyped
<1> SUFFICES ASSUME t.ceremony # None
             PROVE  RoundsCounted(t.ceremony) /\ FinalizersAgree(t.ceremony)
  BY <1>1, CountingCovers, StateParts DEF CeremonyInOrder
<1>2. CASE tx.type \in {"InitGroup", "SubmitRequest", "SubmitCommitment", "SubmitShare"}
  BY <1>2, Frame DEF CeremonyInOrder
<1>3. CASE tx.type = "DkgBegin"
  BY <1>3, DkgBeginOrdered DEF apply_tx, Accepts
<1>4. CASE tx.type = "DkgRound1"
  BY <1>4, DkgRound1Ordered DEF apply_tx, Accepts
<1>5. CASE tx.type = "DkgRound2"
  BY <1>5, DkgRound2Ordered DEF apply_tx, Accepts
<1>6. CASE tx.type = "DkgFinalize"
  BY <1>6, DkgFinalizeOrdered DEF apply_tx, Accepts
<1> QED BY <1>2, <1>3, <1>4, <1>5, <1>6 DEF Tx

----------------------------------------------------------------------------
(* The threshold cut.                                                      *)

LEMMA U16Typed == ASSUME NEW n \in U16 PROVE n \in Nat /\ n <= 65535
BY DEF U16

LEMMA ThresholdTyped ==
    ASSUME NEW group \in GroupConfig
    PROVE  group.params.threshold \in U16 /\ group.params.threshold \in Nat
<1>1. group.params \in MpcParams
  BY DEF GroupConfig
<1>2. group.params.threshold \in U16
  BY <1>1 DEF MpcParams
<1> QED BY <1>2, U16Typed

(* EntryExact, status by status. *)
LEMMA ExactAwaiting ==
    ASSUME NEW e, NEW group, e.status.tag = "AwaitingCommitments",
           Keys(e.status.commitments) \subseteq group.validators,
           Cardinality(Keys(e.status.commitments)) < group.params.threshold
    PROVE  EntryExact(e, group)
BY DEF EntryExact

LEMMA ExactSigning ==
    ASSUME NEW e, NEW group, e.status.tag = "Signing",
           e.status.participants \subseteq group.validators,
           Cardinality(e.status.participants) = group.params.threshold,
           Keys(e.status.signing_package.commitments) = e.status.participants,
           e.status.signing_package.message = e.message,
           Keys(e.status.shares) \subseteq e.status.participants,
           e.status.participants = {} \/ Keys(e.status.shares) # e.status.participants
    PROVE  EntryExact(e, group)
BY DEF EntryExact

LEMMA ExactCompleted ==
    ASSUME NEW e, NEW group, e.status.tag = "Completed",
           e.status.participants \subseteq group.validators,
           Cardinality(e.status.participants) = group.params.threshold,
           e.status.signature = [message |-> e.message, randomizer |-> e.randomizer,
                                 pkp |-> group.pkp]
    PROVE  EntryExact(e, group)
BY DEF EntryExact

LEMMA ExactFailed ==
    ASSUME NEW e, NEW group, e.status.tag = "Failed"
    PROVE  EntryExact(e, group)
BY DEF EntryExact

(* Either the commitments wait, or exactly threshold of them are cut. *)
Waits(st, map, t) ==
    Cardinality(Keys(map)) < t /\ st = [tag |-> "AwaitingCommitments", commitments |-> map]

CutBy(st, chosen, cut, t, message) ==
    /\ Cardinality(chosen) = t
    /\ Keys(cut) = chosen
    /\ st = [tag |-> "Signing", signing_package |-> [commitments |-> cut, message |-> message],
             participants |-> chosen, shares |-> Empty(Ids)]

(* So it is for at most threshold commitments, and for one when threshold  *)
(* is 0.                                                                   *)
LEMMA CutStatus ==
    ASSUME NEW map \in Map(Ids, Draw), NEW t \in U16, NEW message,
           Cardinality(Keys(map)) <= t \/ (t = 0 /\ Cardinality(Keys(map)) = 1)
    PROVE  \/ Waits(AfterCommitment(map, t, message), map, t)
           \/ \E chosen \in SUBSET Keys(map), cut \in Map(Ids, Draw) :
                CutBy(AfterCommitment(map, t, message), chosen, cut, t, message)
<1> DEFINE n == Cardinality(Keys(map))
           chosen == TakeFirst(Keys(map), t)
           cut == [w \in Ids |-> IF w \in chosen THEN map[w] ELSE None]
<1>1. t \in Nat /\ t <= 65535
  BY U16Typed
<1>2. IsFiniteSet(Keys(map)) /\ n \in Nat /\ Keys(map) \subseteq Ids
  BY KeysFinite, KeysTyped
<1>3. n % 65536 = n
  <2>1. n <= t \/ (t = 0 /\ n = 1)
    OBVIOUS
  <2> HIDE DEF n
  <2>2. n <= 65535
    BY <1>1, <1>2, <2>1
  <2>3. \A m \in Nat : m <= 65535 => m % 65536 = m
    OBVIOUS
  <2> QED BY <1>2, <2>2, <2>3
<1>4. CASE n < t
  <2>1. ~(n % 65536 >= t)
    BY <1>1, <1>2, <1>3, <1>4
  <2> QED BY <1>4, <2>1 DEF AfterCommitment, Waits
<1>5. CASE ~(n < t)
  <2>1. n % 65536 >= t
    BY <1>1, <1>2, <1>3, <1>5
  <2>2. chosen \subseteq Keys(map)
    BY DEF TakeFirst
  <2>3. Cardinality(chosen) = t
    <3>1. CASE t = 0
      BY <3>1, <1>2, TakeNone, FS_EmptySet
    <3>2. CASE t # 0
      <4>1. n = t
        BY <1>1, <1>2, <1>5, <3>2
      <4>2. Keys(map) \subseteq Nat
        BY <1>2, IdsAssumption
      <4>3. chosen = Keys(map)
        BY <1>1, <1>2, <4>1, <4>2, TakeAll
      <4> QED BY <4>1, <4>3
    <3> QED BY <3>1, <3>2
  <2>4. Keys(cut) = chosen
    <3> HIDE DEF chosen
    <3> QED BY <1>2, <2>2 DEF Keys
  <2>5. AfterCommitment(map, t, message) =
          [tag |-> "Signing", signing_package |-> [commitments |-> cut, message |-> message],
           participants |-> chosen, shares |-> Empty(Ids)]
    BY <2>1 DEF AfterCommitment
  <2>6. cut \in Map(Ids, Draw)
    BY <2>2 DEF Map
  <2> HIDE DEF chosen, cut
  <2>7. CutBy(AfterCommitment(map, t, message), chosen, cut, t, message)
    BY <2>3, <2>4, <2>5 DEF CutBy
  <2> QED BY <2>2, <2>6, <2>7
<1> QED BY <1>4, <1>5

(* The status after one more commitment: either still fewer than threshold *)
(* of them, or a package of exactly threshold.                             *)
LEMMA CommitmentExact ==
    ASSUME NEW e \in RequestEntry, NEW group \in GroupConfig, EntryExact(e, group),
           e.status.tag = "AwaitingCommitments",
           NEW v \in group.validators, v \notin Keys(e.status.commitments), NEW d \in Draw
    PROVE  LET map == [e.status.commitments EXCEPT ![v] = d]
           IN  EntryExact([e EXCEPT !.status =
                              AfterCommitment(map, group.params.threshold, e.message)], group)
<1> DEFINE old == e.status.commitments
           map == [old EXCEPT ![v] = d]
           t == group.params.threshold
           st == AfterCommitment(map, t, e.message)
           f == [message |-> e.message, randomizer |-> e.randomizer, status |-> st]
<1>1. [e EXCEPT !.status = st] = f
  BY DEF RequestEntry
<1> SUFFICES EntryExact(f, group)
  BY <1>1
<1>2. old \in Map(Ids, Draw)
  BY StatusFields DEF RequestEntry
<1>3. v \in Ids /\ d # None
  BY NoneAssumption DEF GroupConfig
<1>4. t \in U16 /\ t \in Nat
  BY ThresholdTyped
<1>5. /\ Keys(old) \subseteq group.validators
      /\ Keys(old) = {} \/ Cardinality(Keys(old)) < t
  BY DEF EntryExact
<1>6. v \notin Keys(old)
  OBVIOUS
<1> HIDE DEF old, t
<1>7. map \in Map(Ids, Draw) /\ Keys(map) = Keys(old) \cup {v}
  BY <1>2, <1>3 DEF Keys, Map
<1> HIDE DEF map
<1>8. IsFiniteSet(Keys(old)) /\ Cardinality(Keys(old)) \in Nat
  BY <1>2, KeysFinite
<1>9. Cardinality(Keys(map)) = Cardinality(Keys(old)) + 1
  BY <1>6, <1>7, <1>8, FS_AddElement
<1>10. Cardinality(Keys(map)) <= t \/ (t = 0 /\ Cardinality(Keys(map)) = 1)
  <2>1. CASE Keys(old) = {}
    <3>1. Cardinality(Keys(map)) = 1
      BY <2>1, <1>9, FS_EmptySet
    <3> QED BY <3>1, <1>4
  <2>2. CASE Cardinality(Keys(old)) < t
    BY <2>2, <1>4, <1>8, <1>9
  <2> QED BY <1>5, <2>1, <2>2
<1>11. Keys(map) \subseteq group.validators
  BY <1>5, <1>7
<1>12. CASE Waits(st, map, t)
  <2>1. f.status.tag = "AwaitingCommitments" /\ f.status.commitments = map
    BY <1>12 DEF Waits
  <2> HIDE DEF f, st
  <2> QED BY <1>11, <1>12, <2>1, ExactAwaiting DEF t, Waits
<1>13. ASSUME NEW chosen \in SUBSET Keys(map), NEW cut, CutBy(st, chosen, cut, t, e.message)
       PROVE  EntryExact(f, group)
  <2>1. Keys(Empty(Ids)) = {}
    BY EmptyKeys
  <2>2. /\ f.status.tag = "Signing" /\ f.status.participants = chosen
        /\ f.status.signing_package.commitments = cut
        /\ f.status.signing_package.message = f.message
        /\ f.status.shares = Empty(Ids)
    BY <1>13 DEF CutBy
  <2>3. Cardinality(chosen) = t /\ Keys(cut) = chosen
    BY <1>13 DEF CutBy
  <2> HIDE DEF f, st
  <2> QED BY <1>11, <2>1, <2>2, <2>3, ExactSigning DEF t
<1>14. Waits(st, map, t) \/ \E chosen \in SUBSET Keys(map), cut \in Map(Ids, Draw) :
                              CutBy(st, chosen, cut, t, e.message)
  BY <1>4, <1>7, <1>10, CutStatus
<1> HIDE DEF f, st
<1> QED BY <1>12, <1>13, <1>14

(* The status after one more share: not yet every participant's, or an     *)
(* outcome.                                                                *)
LEMMA ShareExact ==
    ASSUME NEW e \in RequestEntry, NEW group \in GroupConfig, EntryExact(e, group),
           e.status.tag = "Signing", NEW v \in e.status.participants,
           NEW share \in SignatureShare
    PROVE  LET shares == [e.status.shares EXCEPT ![v] = share]
           IN  EntryExact([e EXCEPT !.status = AfterShare(e, group, shares)], group)
<1> DEFINE st == e.status
           shares == [st.shares EXCEPT ![v] = share]
           after == AfterShare(e, group, shares)
           f == [message |-> e.message, randomizer |-> e.randomizer, status |-> after]
<1>0. [e EXCEPT !.status = after] = f
  BY DEF RequestEntry
<1> SUFFICES EntryExact(f, group)
  BY <1>0
<1>1. /\ st.shares \in Map(Ids, SignatureShare) /\ v \in Ids /\ share # None
      /\ st.participants \subseteq Ids
      /\ st = [tag |-> "Signing", signing_package |-> st.signing_package,
               participants |-> st.participants, shares |-> st.shares]
  BY StatusFields, NoneAssumption DEF RequestEntry
<1>2. /\ st.participants \subseteq group.validators
      /\ Cardinality(st.participants) = group.params.threshold
      /\ Keys(st.signing_package.commitments) = st.participants
      /\ st.signing_package.message = e.message
      /\ Keys(st.shares) \subseteq st.participants
  BY DEF EntryExact
<1>3. Keys(shares) \subseteq st.participants
  BY <1>1, <1>2 DEF Keys, Map
<1>4. f.status = after /\ f.message = e.message /\ f.randomizer = e.randomizer
  OBVIOUS
<1> HIDE DEF shares, f
<1>5. CASE Cardinality(Keys(shares)) # Cardinality(st.participants)
  <2>1. after = [tag |-> "Signing", signing_package |-> st.signing_package,
                 participants |-> st.participants, shares |-> shares]
    BY <1>1, <1>5 DEF AfterShare
  <2> HIDE DEF after, st
  <2>2. /\ f.status.tag = "Signing" /\ f.status.participants = st.participants
        /\ f.status.signing_package = st.signing_package /\ f.status.shares = shares
    BY <1>4, <2>1
  <2> QED BY <1>2, <1>3, <1>4, <1>5, <2>2, ExactSigning
<1>6. CASE after.tag = "Completed" /\ Cardinality(Keys(shares)) = Cardinality(st.participants)
  <2>1. after = [tag |-> "Completed", participants |-> st.participants,
                 signature |-> [message |-> e.message, randomizer |-> e.randomizer,
                                pkp |-> group.pkp]]
    BY <1>2, <1>6 DEF AfterShare
  <2> HIDE DEF after, st
  <2>2. /\ f.status.tag = "Completed" /\ f.status.participants = st.participants
        /\ f.status.signature = [message |-> f.message, randomizer |-> f.randomizer,
                                 pkp |-> group.pkp]
    BY <1>4, <2>1
  <2> QED BY <1>2, <2>2, ExactCompleted
<1>7. CASE after.tag = "Failed" /\ Cardinality(Keys(shares)) = Cardinality(st.participants)
  <2> HIDE DEF after, st
  <2> QED BY <1>4, <1>7, ExactFailed
<1>8. \/ Cardinality(Keys(shares)) # Cardinality(st.participants)
      \/ after.tag \in {"Completed", "Failed"}
  BY DEF AfterShare
<1> QED BY <1>5, <1>6, <1>7, <1>8

(* What replacing the status of one request leaves alone. *)
LEMMA StatusFrame ==
    ASSUME NEW s \in State, NEW r \in Keys(s.requests), NEW st \in RequestStatus
    PROVE  LET t == [s EXCEPT !.requests[r].status = st]
           IN  /\ t.requests[r] = [s.requests[r] EXCEPT !.status = st]
               /\ \A q \in Uuids : q # r => t.requests[q] = s.requests[q]
               /\ Keys(t.requests) = Keys(s.requests)
               /\ t.group = s.group
<1> DEFINE t == [s EXCEPT !.requests[r].status = st]
           f == [s.requests[r] EXCEPT !.status = st]
<1>1. s.requests[r] \in RequestEntry /\ r \in Uuids /\ s.requests \in Map(Uuids, RequestEntry)
  BY StateParts
<1>2. f \in RequestEntry
  BY <1>1 DEF RequestEntry
<1>3. f # None
  BY <1>2, NoneAssumption
<1>4. t.requests = [s.requests EXCEPT ![r] = f] /\ t.group = s.group
  BY DEF State
<1> HIDE DEF t, f
<1>5. /\ t.requests[r] = f
      /\ \A q \in Uuids : q # r => t.requests[q] = s.requests[q]
      /\ Keys(t.requests) = Keys(s.requests)
  BY <1>1, <1>3, <1>4 DEF Map, Keys
<1> QED BY <1>4, <1>5 DEF t, f

(* apply_tx keeps the threshold cut exact. *)
LEMMA ApplyCut ==
    ASSUME NEW s \in State, NEW tx \in Tx, Accepts(s, tx), OneGroup(s), CutIsExact(s)
    PROVE  CutIsExact(apply_tx(s, tx))
<1> DEFINE t == apply_tx(s, tx)
           r == tx.request_id
<1>1. CASE tx.type \in {"InitGroup", "DkgBegin", "DkgRound1", "DkgRound2", "DkgFinalize"}
  <2>1. t.requests = s.requests
    BY <1>1, Frame
  <2>2. CASE s.group = None
    BY <2>1, <2>2 DEF OneGroup, CutIsExact
  <2>3. CASE s.group # None
    BY <2>1, <2>3, ApplyKeepsGroup DEF CutIsExact
  <2> QED BY <2>2, <2>3
<1>2. CASE tx.type = "SubmitRequest"
  <2> DEFINE e == [message |-> tx.message, randomizer |-> tx.randomizer,
                   status |-> [tag |-> "AwaitingCommitments", commitments |-> Empty(Ids)]]
  <2>1. t.group = s.group
    BY <1>2, Frame
  <2>2. t.requests = [s.requests EXCEPT ![r] = e]
    BY <1>2 DEF apply_tx, SubmitRequestNext, State
  <2>3. EntryExact(e, s.group)
    <3>1. Keys(Empty(Ids)) = {}
      BY EmptyKeys
    <3> QED BY <3>1 DEF EntryExact
  <2>4. s.requests \in Map(Uuids, RequestEntry) /\ r \in Uuids
    BY <1>2, StateParts, TxFields
  <2> HIDE DEF e, t, r
  <2>5. t.requests[r] = e /\ \A q \in Keys(t.requests) : q = r
          \/ (q \in Keys(s.requests) /\ t.requests[q] = s.requests[q])
    BY <2>2, <2>4 DEF Map, Keys
  <2> QED BY <2>1, <2>3, <2>5 DEF CutIsExact, t
<1>3. ASSUME NEW st \in RequestStatus, r \in Keys(s.requests),
             t = [s EXCEPT !.requests[r].status = st],
             EntryExact([s.requests[r] EXCEPT !.status = st], s.group)
      PROVE  CutIsExact(t)
  <2>1. /\ t.requests[r] = [s.requests[r] EXCEPT !.status = st]
        /\ \A q \in Uuids : q # r => t.requests[q] = s.requests[q]
        /\ Keys(t.requests) = Keys(s.requests)
        /\ t.group = s.group
    BY <1>3, StatusFrame
  <2>2. \A q \in Keys(s.requests) : q \in Uuids
    BY StateParts
  <2>3. EntryExact(t.requests[r], t.group)
    BY <1>3, <2>1, Zenon
  <2> HIDE DEF t, r
  <2>4. SUFFICES ASSUME NEW q \in Keys(s.requests) PROVE EntryExact(t.requests[q], t.group)
    BY <2>1 DEF CutIsExact
  <2>5. CASE q = r
    BY <2>3, <2>5
  <2>6. CASE q # r
    <3>1. t.requests[q] = s.requests[q] /\ t.group = s.group
      BY <2>1, <2>2, <2>6
    <3>2. EntryExact(s.requests[q], s.group)
      BY DEF CutIsExact
    <3> QED BY <3>1, <3>2
  <2> QED BY <2>5, <2>6
<1>4. CASE tx.type = "SubmitCommitment"
  <2> DEFINE e == s.requests[r]
             map == [e.status.commitments EXCEPT ![tx.validator] = tx.commitments]
             st == AfterCommitment(map, s.group.params.threshold, e.message)
  <2>1. SubmitCommitmentOk(s, tx)
    BY <1>4 DEF Accepts
  <2>2. /\ r \in Keys(s.requests) /\ e \in RequestEntry /\ s.group \in GroupConfig
        /\ e.status.tag = "AwaitingCommitments" /\ tx.validator \in s.group.validators
        /\ tx.validator \notin Keys(e.status.commitments) /\ tx.commitments \in Draw
    BY <1>4, <2>1, StateParts, TxFields DEF SubmitCommitmentOk
  <2>3. EntryExact(e, s.group)
    BY <2>2 DEF CutIsExact
  <2>4. EntryExact([e EXCEPT !.status = st], s.group)
    BY <2>2, <2>3, CommitmentExact, Zenon
  <2>5. st \in RequestStatus
    <3>1. e.status.commitments \in Map(Ids, Draw) /\ e.message \in Messages
      BY <2>2, StatusFields DEF RequestEntry
    <3>2. map \in Map(Ids, Draw)
      BY <1>4, <3>1, TxFields DEF Map
    <3>3. s.group.params.threshold \in U16
      BY <2>2, ThresholdTyped
    <3> QED BY <3>1, <3>2, <3>3, AfterCommitmentTyped
  <2>6. t = [s EXCEPT !.requests[r].status = st]
    BY <1>4 DEF apply_tx, SubmitCommitmentNext
  <2> HIDE DEF st, t
  <2> QED BY <1>3, <2>2, <2>4, <2>5, <2>6 DEF t
<1>5. CASE tx.type = "SubmitShare"
  <2> DEFINE e == s.requests[r]
             shares == [e.status.shares EXCEPT ![tx.validator] = tx.share]
             st == AfterShare(e, s.group, shares)
  <2>1. SubmitShareOk(s, tx)
    BY <1>5 DEF Accepts
  <2>2. /\ r \in Keys(s.requests) /\ e \in RequestEntry /\ s.group \in GroupConfig
        /\ e.status.tag = "Signing" /\ tx.validator \in e.status.participants
        /\ tx.share \in SignatureShare
    BY <1>5, <2>1, StateParts, TxFields DEF SubmitShareOk
  <2>3. EntryExact(e, s.group)
    BY <2>2 DEF CutIsExact
  <2>4. EntryExact([e EXCEPT !.status = st], s.group)
    BY <2>2, <2>3, ShareExact, Zenon
  <2>5. st \in RequestStatus
    <3>1. e.status.shares \in Map(Ids, SignatureShare)
      BY <2>2, StatusFields DEF RequestEntry
    <3>2. shares \in Map(Ids, SignatureShare)
      BY <1>5, <3>1, TxFields DEF Map
    <3> QED BY <2>2, <3>2, AfterShareTyped
  <2>6. t = [s EXCEPT !.requests[r].status = st]
    BY <1>5 DEF apply_tx, SubmitShareNext
  <2> HIDE DEF st, t
  <2> QED BY <1>3, <2>2, <2>4, <2>5, <2>6 DEF t
<1> QED BY <1>1, <1>2, <1>4, <1>5 DEF Tx

----------------------------------------------------------------------------
(* Requests move forward.                                                  *)

LEMMA RankOf ==
    ASSUME NEW st \in RequestStatus
    PROVE  /\ Rank(st) \in {0, 1, 2}
           /\ Rank(st) = 0 <=> st.tag = "AwaitingCommitments"
           /\ Rank(st) = 1 <=> st.tag = "Signing"
           /\ Rank(st) = 2 <=> st.tag \in {"Completed", "Failed"}
BY StatusFields DEF Rank

(* MovesForward for one request. *)
Forward(e, f) ==
    /\ f # None
    /\ f.message = e.message
    /\ f.randomizer = e.randomizer
    /\ Rank(e.status) <= Rank(f.status)
    /\ Rank(e.status) = 2 => f.status = e.status
    /\ Rank(e.status) = 1 /\ Rank(f.status) = 1 =>
         /\ f.status.signing_package = e.status.signing_package
         /\ \A v \in Keys(e.status.shares) : f.status.shares[v] = e.status.shares[v]
    /\ Rank(e.status) = 0 /\ Rank(f.status) = 0 =>
         \A v \in Keys(e.status.commitments) :
             f.status.commitments[v] = e.status.commitments[v]

LEMMA ForwardEach ==
    ASSUME NEW s, NEW t
    PROVE  MovesForward(s, t) <=>
             \A r \in Keys(s.requests) : Forward(s.requests[r], t.requests[r])
BY DEF MovesForward, Forward

LEMMA ForwardSelf ==
    ASSUME NEW e \in RequestEntry
    PROVE  Forward(e, e)
<1>1. e # None /\ e.status \in RequestStatus
  BY NoneAssumption DEF RequestEntry
<1>2. Rank(e.status) <= Rank(e.status)
  BY <1>1, RankOf
<1> QED BY <1>1, <1>2 DEF Forward

LEMMA ForwardTransitive ==
    ASSUME NEW e \in RequestEntry, NEW f \in RequestEntry, NEW g \in RequestEntry,
           Forward(e, f), Forward(f, g)
    PROVE  Forward(e, g)
<1>1. g # None
  BY DEF Forward
<1>2. g.message = e.message /\ g.randomizer = e.randomizer
  BY DEF Forward
<1>3. /\ e.status \in RequestStatus /\ f.status \in RequestStatus /\ g.status \in RequestStatus
      /\ Rank(e.status) \in {0, 1, 2} /\ Rank(f.status) \in {0, 1, 2}
      /\ Rank(g.status) \in {0, 1, 2}
  BY RankOf DEF RequestEntry
<1>4. Rank(e.status) <= Rank(f.status) /\ Rank(f.status) <= Rank(g.status)
  BY DEF Forward
<1>5. Rank(e.status) = 2 => g.status = e.status
  BY <1>3, <1>4 DEF Forward
<1>6. ASSUME Rank(e.status) = 1, Rank(g.status) = 1
      PROVE  /\ g.status.signing_package = e.status.signing_package
             /\ \A v \in Keys(e.status.shares) : g.status.shares[v] = e.status.shares[v]
  <2>1. Rank(f.status) = 1
    BY <1>3, <1>4, <1>6
  <2>2. /\ f.status.signing_package = e.status.signing_package
        /\ g.status.signing_package = f.status.signing_package
        /\ \A v \in Keys(e.status.shares) : f.status.shares[v] = e.status.shares[v]
        /\ \A v \in Keys(f.status.shares) : g.status.shares[v] = f.status.shares[v]
    BY <1>6, <2>1 DEF Forward
  <2>3. /\ e.status.shares \in Map(Ids, SignatureShare)
        /\ f.status.shares \in Map(Ids, SignatureShare)
    BY <1>3, <1>6, <2>1, RankOf, StatusFields
  <2> QED BY <2>2, <2>3 DEF Keys, Map
<1>7. ASSUME Rank(e.status) = 0, Rank(g.status) = 0
      PROVE  \A v \in Keys(e.status.commitments) :
                 g.status.commitments[v] = e.status.commitments[v]
  <2>1. Rank(f.status) = 0
    BY <1>3, <1>4, <1>7
  <2>2. /\ \A v \in Keys(e.status.commitments) :
               f.status.commitments[v] = e.status.commitments[v]
        /\ \A v \in Keys(f.status.commitments) :
               g.status.commitments[v] = f.status.commitments[v]
    BY <1>7, <2>1 DEF Forward
  <2>3. /\ e.status.commitments \in Map(Ids, Draw)
        /\ f.status.commitments \in Map(Ids, Draw)
    BY <1>3, <1>7, <2>1, RankOf, StatusFields
  <2> QED BY <2>2, <2>3 DEF Keys, Map
<1>8. Rank(e.status) <= Rank(g.status)
  BY <1>3, <1>4
<1> QED BY <1>1, <1>2, <1>5, <1>6, <1>7, <1>8 DEF Forward

LEMMA MovesForwardTransitive ==
    ASSUME NEW s \in State, NEW t \in State, NEW u \in State,
           MovesForward(s, t), MovesForward(t, u)
    PROVE  MovesForward(s, u)
<1> SUFFICES ASSUME NEW r \in Keys(s.requests)
             PROVE  Forward(s.requests[r], u.requests[r])
  BY ForwardEach
<1>1. s.requests[r] \in RequestEntry /\ r \in Uuids /\ Forward(s.requests[r], t.requests[r])
  BY StateParts, ForwardEach
<1>2. r \in Keys(t.requests)
  <2>1. t.requests[r] # None
    BY <1>1 DEF Forward
  <2>2. t.requests \in Map(Uuids, RequestEntry)
    BY StateParts
  <2> QED BY <1>1, <2>1, <2>2 DEF Keys, Map
<1>3. t.requests[r] \in RequestEntry /\ Forward(t.requests[r], u.requests[r])
  BY <1>2, StateParts, ForwardEach
<1>4. u.requests[r] \in RequestEntry
  <2>1. u.requests[r] # None
    BY <1>3 DEF Forward
  <2>2. u.requests \in Map(Uuids, RequestEntry)
    BY StateParts
  <2> QED BY <1>1, <2>1, <2>2 DEF Map
<1> QED BY <1>1, <1>3, <1>4, ForwardTransitive

LEMMA MovesForwardSelf ==
    ASSUME NEW s \in State
    PROVE  MovesForward(s, s)
BY ForwardEach, ForwardSelf, StateParts

(* A new status that only adds to the old one. *)
LEMMA ForwardStatus ==
    ASSUME NEW e \in RequestEntry, NEW st \in RequestStatus,
           \/ /\ e.status.tag = "AwaitingCommitments"
              /\ \/ st.tag = "Signing"
                 \/ /\ st.tag = "AwaitingCommitments"
                    /\ \A v \in Keys(e.status.commitments) :
                           st.commitments[v] = e.status.commitments[v]
           \/ /\ e.status.tag = "Signing"
              /\ \/ st.tag \in {"Completed", "Failed"}
                 \/ /\ st.tag = "Signing"
                    /\ st.signing_package = e.status.signing_package
                    /\ \A v \in Keys(e.status.shares) : st.shares[v] = e.status.shares[v]
    PROVE  Forward(e, [e EXCEPT !.status = st])
<1> DEFINE f == [message |-> e.message, randomizer |-> e.randomizer, status |-> st]
<1>1. [e EXCEPT !.status = st] = f /\ e.status \in RequestStatus
  BY DEF RequestEntry
<1>2. f \in RequestEntry
  BY DEF RequestEntry
<1>3. f # None
  BY <1>2, NoneAssumption
<1>4. f.message = e.message /\ f.randomizer = e.randomizer /\ f.status = st
  OBVIOUS
<1> HIDE DEF f
<1>5. Rank(e.status) <= Rank(st) /\ Rank(e.status) # 2
  BY <1>1, RankOf
<1>6. Rank(e.status) = 1 /\ Rank(st) = 1 =>
         /\ st.signing_package = e.status.signing_package
         /\ \A v \in Keys(e.status.shares) : st.shares[v] = e.status.shares[v]
  BY <1>1, RankOf
<1>7. Rank(e.status) = 0 /\ Rank(st) = 0 =>
         \A v \in Keys(e.status.commitments) : st.commitments[v] = e.status.commitments[v]
  BY <1>1, RankOf
<1>8. Forward(e, f)
  BY <1>3, <1>4, <1>5, <1>6, <1>7 DEF Forward
<1> QED BY <1>1, <1>8

LEMMA CommitmentForward ==
    ASSUME NEW s \in State, NEW tx \in Tx, tx.type = "SubmitCommitment",
           SubmitCommitmentOk(s, tx)
    PROVE  LET e == s.requests[tx.request_id]
               map == [e.status.commitments EXCEPT ![tx.validator] = tx.commitments]
               st == AfterCommitment(map, s.group.params.threshold, e.message)
           IN  st \in RequestStatus /\ Forward(e, [e EXCEPT !.status = st])
<1> DEFINE e == s.requests[tx.request_id]
           map == [e.status.commitments EXCEPT ![tx.validator] = tx.commitments]
           st == AfterCommitment(map, s.group.params.threshold, e.message)
<1>1. /\ e \in RequestEntry /\ s.group \in GroupConfig
      /\ e.status.tag = "AwaitingCommitments"
      /\ tx.validator \notin Keys(e.status.commitments)
  BY StateParts DEF SubmitCommitmentOk
<1>2. e.status.commitments \in Map(Ids, Draw) /\ e.message \in Messages
  BY <1>1, StatusFields DEF RequestEntry
<1>3. map \in Map(Ids, Draw)
  BY <1>2, TxFields DEF Map
<1>4. s.group.params.threshold \in U16
  BY <1>1, ThresholdTyped
<1>5. st \in RequestStatus
  BY <1>2, <1>3, <1>4, AfterCommitmentTyped
<1>6. \A v \in Keys(e.status.commitments) : map[v] = e.status.commitments[v]
  BY <1>1, <1>2 DEF Keys, Map
<1>7. st.tag = "Signing" \/ (st.tag = "AwaitingCommitments" /\ st.commitments = map)
  <2> HIDE DEF map
  <2> QED BY DEF AfterCommitment
<1> HIDE DEF e, map, st
<1>8. Forward(e, [e EXCEPT !.status = st])
  BY <1>1, <1>5, <1>6, <1>7, ForwardStatus
<1> QED BY <1>5, <1>8 DEF e, map, st

(* A share is added, or it is the last one. *)
LEMMA AfterShareShape ==
    ASSUME NEW e, e.status \in RequestStatus, e.status.tag = "Signing", NEW group, NEW shares
    PROVE  LET st == AfterShare(e, group, shares)
           IN  \/ st.tag \in {"Completed", "Failed"}
               \/ /\ st.tag = "Signing" /\ st.signing_package = e.status.signing_package
                  /\ st.shares = shares
<1> DEFINE old == e.status
           st == AfterShare(e, group, shares)
<1>1. old = [tag |-> "Signing", signing_package |-> old.signing_package,
             participants |-> old.participants, shares |-> old.shares]
  BY StatusFields
<1>2. [old EXCEPT !.shares = shares] =
        [tag |-> "Signing", signing_package |-> old.signing_package,
         participants |-> old.participants, shares |-> shares]
  BY <1>1
<1>3. \/ st = [old EXCEPT !.shares = shares]
      \/ st.tag \in {"Completed", "Failed"}
  BY DEF AfterShare
<1> HIDE DEF st, old
<1>4. \/ st = [tag |-> "Signing", signing_package |-> old.signing_package,
               participants |-> old.participants, shares |-> shares]
      \/ st.tag \in {"Completed", "Failed"}
  BY <1>2, <1>3, Zenon
<1>5. \/ st.tag \in {"Completed", "Failed"}
      \/ /\ st.tag = "Signing" /\ st.signing_package = old.signing_package
         /\ st.shares = shares
  BY <1>4
<1> QED BY <1>5 DEF st, old

LEMMA ShareForward ==
    ASSUME NEW s \in State, NEW tx \in Tx, tx.type = "SubmitShare", SubmitShareOk(s, tx)
    PROVE  LET e == s.requests[tx.request_id]
               shares == [e.status.shares EXCEPT ![tx.validator] = tx.share]
               st == AfterShare(e, s.group, shares)
           IN  st \in RequestStatus /\ Forward(e, [e EXCEPT !.status = st])
<1> DEFINE e == s.requests[tx.request_id]
           shares == [e.status.shares EXCEPT ![tx.validator] = tx.share]
           st == AfterShare(e, s.group, shares)
<1>1. /\ e \in RequestEntry /\ s.group \in GroupConfig /\ e.status.tag = "Signing"
      /\ tx.validator \notin Keys(e.status.shares)
  BY StateParts DEF SubmitShareOk
<1>2. /\ e.status.shares \in Map(Ids, SignatureShare)
      /\ e.status = [tag |-> "Signing", signing_package |-> e.status.signing_package,
                     participants |-> e.status.participants, shares |-> e.status.shares]
  BY <1>1, StatusFields DEF RequestEntry
<1>3. shares \in Map(Ids, SignatureShare)
  BY <1>2, TxFields DEF Map
<1>4. st \in RequestStatus
  BY <1>1, <1>3, AfterShareTyped
<1>5. \A v \in Keys(e.status.shares) : shares[v] = e.status.shares[v]
  BY <1>1, <1>2 DEF Keys, Map
<1>6. \/ st.tag \in {"Completed", "Failed"}
      \/ /\ st.tag = "Signing" /\ st.signing_package = e.status.signing_package
         /\ st.shares = shares
  BY <1>1, AfterShareShape DEF RequestEntry
<1> HIDE DEF e, shares, st
<1>7. Forward(e, [e EXCEPT !.status = st])
  BY <1>1, <1>4, <1>5, <1>6, ForwardStatus
<1> QED BY <1>4, <1>7 DEF e, shares, st

(* Replacing the status of one request by a later one. *)
LEMMA StatusForward ==
    ASSUME NEW s \in State, NEW r \in Keys(s.requests), NEW st \in RequestStatus,
           Forward(s.requests[r], [s.requests[r] EXCEPT !.status = st])
    PROVE  MovesForward(s, [s EXCEPT !.requests[r].status = st])
<1> DEFINE t == [s EXCEPT !.requests[r].status = st]
<1>1. /\ t.requests[r] = [s.requests[r] EXCEPT !.status = st]
      /\ \A q \in Uuids : q # r => t.requests[q] = s.requests[q]
      /\ Keys(t.requests) = Keys(s.requests)
      /\ t.group = s.group
  BY StatusFrame
<1>2. Forward(s.requests[r], t.requests[r])
  BY <1>1, Zenon
<1>3. \A q \in Keys(s.requests) : q \in Uuids /\ Forward(s.requests[q], s.requests[q])
  BY StateParts, ForwardSelf
<1> HIDE DEF t
<1>4. MovesForward(s, t)
  BY <1>1, <1>2, <1>3, ForwardEach
<1> QED BY <1>4 DEF t

(* apply_tx moves every request forward. *)
LEMMA ApplyForward ==
    ASSUME NEW s \in State, NEW tx \in Tx, Accepts(s, tx)
    PROVE  MovesForward(s, apply_tx(s, tx))
<1> DEFINE t == apply_tx(s, tx)
           r == tx.request_id
<1>1. \A q \in Keys(s.requests) : q \in Uuids /\ Forward(s.requests[q], s.requests[q])
  BY StateParts, ForwardSelf
<1>2. CASE tx.type \in {"InitGroup", "DkgBegin", "DkgRound1", "DkgRound2", "DkgFinalize"}
  <2>1. t.requests = s.requests
    BY <1>2, Frame
  <2> QED BY <1>1, <2>1, ForwardEach
<1>3. CASE tx.type = "SubmitRequest"
  <2>1. r \notin Keys(s.requests)
    BY <1>3 DEF Accepts, SubmitRequestOk
  <2>2. \A q \in Keys(s.requests) : t.requests[q] = s.requests[q]
    BY <1>1, <1>3, <2>1 DEF apply_tx, SubmitRequestNext, State, Map
  <2> HIDE DEF t
  <2>3. MovesForward(s, t)
    BY <1>1, <2>2, ForwardEach
  <2> QED BY <2>3 DEF t
<1>4. CASE tx.type = "SubmitCommitment"
  <2> DEFINE e == s.requests[r]
             map == [e.status.commitments EXCEPT ![tx.validator] = tx.commitments]
             st == AfterCommitment(map, s.group.params.threshold, e.message)
  <2>1. SubmitCommitmentOk(s, tx) /\ r \in Keys(s.requests)
    BY <1>4 DEF Accepts, SubmitCommitmentOk
  <2>2. st \in RequestStatus /\ Forward(e, [e EXCEPT !.status = st])
    BY <1>4, <2>1, CommitmentForward, Zenon
  <2>3. t = [s EXCEPT !.requests[r].status = st]
    BY <1>4 DEF apply_tx, SubmitCommitmentNext
  <2> HIDE DEF st
  <2>4. MovesForward(s, [s EXCEPT !.requests[r].status = st])
    BY <2>1, <2>2, StatusForward
  <2> QED BY <2>3, <2>4, Zenon
<1>5. CASE tx.type = "SubmitShare"
  <2> DEFINE e == s.requests[r]
             shares == [e.status.shares EXCEPT ![tx.validator] = tx.share]
             st == AfterShare(e, s.group, shares)
  <2>1. SubmitShareOk(s, tx) /\ r \in Keys(s.requests)
    BY <1>5 DEF Accepts, SubmitShareOk
  <2>2. st \in RequestStatus /\ Forward(e, [e EXCEPT !.status = st])
    BY <1>5, <2>1, ShareForward, Zenon
  <2>3. t = [s EXCEPT !.requests[r].status = st]
    BY <1>5 DEF apply_tx, SubmitShareNext
  <2> HIDE DEF st
  <2>4. MovesForward(s, [s EXCEPT !.requests[r].status = st])
    BY <2>1, <2>2, StatusForward
  <2> QED BY <2>3, <2>4, Zenon
<1> QED BY <1>2, <1>3, <1>4, <1>5 DEF Tx

----------------------------------------------------------------------------
(* Replays.  Recorded is the trace an accepted transaction leaves, from    *)
(* which apply_tx recognises it.                                           *)

PostedIn(s, tx) ==
    /\ s.ceremony # None
    /\ tx.type = "DkgRound1" => tx.from \in Keys(s.ceremony.round1)
    /\ tx.type = "DkgRound2" => <<tx.from, tx.to>> \in Keys(s.ceremony.round2)
    /\ tx.type = "DkgFinalize" => tx.from \in Keys(s.ceremony.finalize)

AnsweredIn(e, tx) ==
    /\ tx.type = "SubmitCommitment" =>
         (e.status.tag = "AwaitingCommitments" => tx.validator \in Keys(e.status.commitments))
    /\ tx.type = "SubmitShare" =>
         /\ e.status.tag # "AwaitingCommitments"
         /\ e.status.tag = "Signing" => tx.validator \in Keys(e.status.shares)

Recorded(s, tx) ==
    /\ tx.type = "InitGroup" => s.group # None
    /\ tx.type \in {"DkgBegin", "DkgRound1", "DkgRound2", "DkgFinalize"} =>
         s.group # None \/ PostedIn(s, tx)
    /\ tx.type \in {"SubmitRequest", "SubmitCommitment", "SubmitShare"} =>
         tx.request_id \in Keys(s.requests) /\ AnsweredIn(s.requests[tx.request_id], tx)

(* What is recorded is rejected. *)
LEMMA RecordedRejected ==
    ASSUME NEW s \in State, NEW tx \in Tx, OneGroup(s), Recorded(s, tx)
    PROVE  ~Accepts(s, tx)
<1>1. CASE tx.type = "InitGroup"
  BY <1>1 DEF Recorded, Accepts, InitGroupOk
<1>2. CASE tx.type \in {"DkgBegin", "DkgRound1", "DkgRound2", "DkgFinalize"}
  BY <1>2 DEF Recorded, PostedIn, OneGroup, Accepts, DkgBeginOk, DkgRound1Ok, DkgRound2Ok,
              DkgFinalizeOk
<1>3. CASE tx.type \in {"SubmitRequest", "SubmitCommitment", "SubmitShare"}
  BY <1>3 DEF Recorded, AnsweredIn, Accepts, SubmitRequestOk, SubmitCommitmentOk, SubmitShareOk
<1> QED BY <1>1, <1>2, <1>3 DEF Tx

(* An open ceremony only grows until it becomes a group. *)
LEMMA CeremonyGrows ==
    ASSUME NEW s \in State, NEW tx \in Tx, Accepts(s, tx), OneGroup(s), s.ceremony # None
    PROVE  LET t == apply_tx(s, tx)
           IN  \/ t.group # None
               \/ /\ t.ceremony # None
                  /\ Keys(s.ceremony.round1) \subseteq Keys(t.ceremony.round1)
                  /\ Keys(s.ceremony.round2) \subseteq Keys(t.ceremony.round2)
                  /\ Keys(s.ceremony.finalize) \subseteq Keys(t.ceremony.finalize)
<1> DEFINE t == apply_tx(s, tx)
           b == s.ceremony
<1>1. b \in DkgCeremony /\ s.group = None
  BY StateParts DEF OneGroup
<1>2. tx.type \in {"DkgRound1", "DkgRound2", "DkgFinalize"}
  BY <1>1 DEF Accepts, InitGroupOk, DkgBeginOk, SubmitRequestOk, SubmitCommitmentOk, SubmitShareOk
<1>3. t \in State
  BY ApplyTyped
<1>4. CASE tx.type = "DkgRound1"
  <2> DEFINE c == [b EXCEPT !.round1[tx.from] = tx.package]
  <2>1. t.ceremony = c
    BY <1>4 DEF apply_tx, DkgRound1Next, State
  <2>2. /\ c.round1 = [b.round1 EXCEPT ![tx.from] = tx.package]
        /\ c.round2 = b.round2 /\ c.finalize = b.finalize
        /\ b.round1 \in Map(Ids, Draw) /\ tx.from \in Ids /\ tx.package # None
    BY <1>1, <1>4, TxFields, NoneAssumption DEF DkgCeremony
  <2>3. c # None
    <3>1. c \in DkgCeremony
      BY <1>1, <2>2, TxFields, <1>4 DEF DkgCeremony, Map
    <3> QED BY <3>1, NoneAssumption
  <2> HIDE DEF b, c, t
  <2>4. Keys(b.round1) \subseteq Keys(c.round1)
    BY <2>2 DEF Keys, Map
  <2> QED BY <2>1, <2>2, <2>3, <2>4 DEF b, t
<1>5. CASE tx.type = "DkgRound2"
  <2> DEFINE p == <<tx.from, tx.to>>
             c == [b EXCEPT !.round2[p] = tx.sealed]
  <2>1. t.ceremony = c
    BY <1>5 DEF apply_tx, DkgRound2Next, State
  <2>2. /\ c.round2 = [b.round2 EXCEPT ![p] = tx.sealed]
        /\ c.round1 = b.round1 /\ c.finalize = b.finalize
        /\ b.round2 \in Map(Ids \X Ids, Sealed) /\ p \in Ids \X Ids /\ tx.sealed # None
    BY <1>1, <1>5, TxFields, NoneAssumption DEF DkgCeremony
  <2>3. c # None
    <3>1. c \in DkgCeremony
      BY <1>1, <2>2, TxFields, <1>5 DEF DkgCeremony, Map
    <3> QED BY <3>1, NoneAssumption
  <2> HIDE DEF b, c, t, p
  <2>4. Keys(b.round2) \subseteq Keys(c.round2)
    BY <2>2 DEF Keys, Map
  <2> QED BY <2>1, <2>2, <2>3, <2>4 DEF b, t
<1>6. CASE tx.type = "DkgFinalize"
  <2> DEFINE c == [b EXCEPT !.finalize[tx.from] = tx.pkp]
             g == [params |-> c.params, pkp |-> FirstValue(c.finalize),
                   validators |-> Keys(c.validators)]
  <2>1. t.ceremony = c \/ t.group = g
    BY <1>6 DEF apply_tx, DkgFinalizeNext, State
  <2>2. /\ c.finalize = [b.finalize EXCEPT ![tx.from] = tx.pkp]
        /\ c.round1 = b.round1 /\ c.round2 = b.round2
        /\ b.finalize \in Map(Ids, PublicKeyPackage) /\ tx.from \in Ids /\ tx.pkp # None
    BY <1>1, <1>6, TxFields, NoneAssumption DEF DkgCeremony
  <2>3. c # None
    <3>1. c \in DkgCeremony
      BY <1>1, <2>2, TxFields, <1>6 DEF DkgCeremony, Map
    <3> QED BY <3>1, NoneAssumption
  <2>4. t.group = None => t.ceremony = c
    <3>1. t.group = None => ~finalize_complete(c)
      <4>1. SUFFICES ASSUME finalize_complete(c) PROVE t.group # None
        OBVIOUS
      <4>2. t.ceremony = None /\ t.group = g
        BY <1>6, <4>1 DEF apply_tx, DkgFinalizeNext, State
      <4>3. g \in GroupConfig
        BY <1>3, <1>6, <4>1, <4>2, FinalizedGroup DEF Accepts
      <4> QED BY <4>2, <4>3, NoneAssumption
    <3> QED BY <1>6, <3>1 DEF apply_tx, DkgFinalizeNext, State
  <2> HIDE DEF b, c, t, g
  <2>5. Keys(b.finalize) \subseteq Keys(c.finalize)
    BY <2>2 DEF Keys, Map
  <2> QED BY <2>2, <2>3, <2>4, <2>5 DEF b, t
<1> QED BY <1>2, <1>4, <1>5, <1>6

(* A request that exists stays, and so do the answers to it. *)
LEMMA AnswersGrow ==
    ASSUME NEW s \in State, NEW t \in State, MovesForward(s, t), NEW old,
           NEW r \in Keys(s.requests), AnsweredIn(s.requests[r], old)
    PROVE  r \in Keys(t.requests) /\ AnsweredIn(t.requests[r], old)
<1> DEFINE e == s.requests[r]
           f == t.requests[r]
<1>1. e \in RequestEntry /\ r \in Uuids /\ Forward(e, f)
  BY StateParts, ForwardEach
<1>2. f # None /\ t.requests \in Map(Uuids, RequestEntry)
  BY <1>1, StateParts DEF Forward
<1>3. r \in Keys(t.requests) /\ f \in RequestEntry
  BY <1>1, <1>2 DEF Keys, Map
<1>4. e.status \in RequestStatus /\ f.status \in RequestStatus
  BY <1>1, <1>3 DEF RequestEntry
<1> HIDE DEF e, f
<1>5. CASE e.status.tag = "AwaitingCommitments" /\ f.status.tag = "AwaitingCommitments"
  <2>1. \A v \in Keys(e.status.commitments) :
            f.status.commitments[v] = e.status.commitments[v]
    BY <1>1, <1>4, <1>5, RankOf DEF Forward
  <2>2. /\ e.status.commitments \in Map(Ids, Draw)
        /\ f.status.commitments \in Map(Ids, Draw)
    BY <1>4, <1>5, StatusFields
  <2>3. Keys(e.status.commitments) \subseteq Keys(f.status.commitments)
    BY <2>1, <2>2 DEF Keys, Map
  <2> QED BY <1>3, <1>5, <2>3 DEF AnsweredIn, e, f
<1>6. CASE e.status.tag = "Signing" /\ f.status.tag = "Signing"
  <2>1. \A v \in Keys(e.status.shares) : f.status.shares[v] = e.status.shares[v]
    BY <1>1, <1>4, <1>6, RankOf DEF Forward
  <2>2. /\ e.status.shares \in Map(Ids, SignatureShare)
        /\ f.status.shares \in Map(Ids, SignatureShare)
    BY <1>4, <1>6, StatusFields
  <2>3. Keys(e.status.shares) \subseteq Keys(f.status.shares)
    BY <2>1, <2>2 DEF Keys, Map
  <2> QED BY <1>3, <1>6, <2>3 DEF AnsweredIn, e, f
<1>7. CASE e.status.tag = "AwaitingCommitments" /\ f.status.tag # "AwaitingCommitments"
  BY <1>3, <1>7 DEF AnsweredIn, e, f
<1>8. CASE e.status.tag # "AwaitingCommitments" /\ f.status.tag \in {"Completed", "Failed"}
  BY <1>3, <1>8 DEF AnsweredIn, e, f
<1>9. \/ e.status.tag = "AwaitingCommitments"
      \/ e.status.tag = "Signing" /\ f.status.tag # "AwaitingCommitments"
      \/ e.status.tag \in {"Completed", "Failed"} /\ f.status.tag \in {"Completed", "Failed"}
  BY <1>1, <1>4, RankOf DEF Forward
<1>10. /\ e.status.tag \in {"AwaitingCommitments", "Signing", "Completed", "Failed"}
       /\ f.status.tag \in {"AwaitingCommitments", "Signing", "Completed", "Failed"}
  BY <1>4, StatusFields
<1> QED BY <1>5, <1>6, <1>7, <1>8, <1>9, <1>10

(* What is recorded stays recorded. *)
LEMMA ApplyKeepsRecord ==
    ASSUME NEW s \in State, NEW tx \in Tx, Accepts(s, tx), OneGroup(s),
           NEW old \in Tx, Recorded(s, old)
    PROVE  Recorded(apply_tx(s, tx), old)
<1> DEFINE t == apply_tx(s, tx)
<1>1. t \in State /\ MovesForward(s, t)
  BY ApplyTyped, ApplyForward
<1>2. s.group # None => t.group # None
  BY ApplyKeepsGroup
<1>3. PostedIn(s, old) => t.group # None \/ PostedIn(t, old)
  <2> HIDE DEF t
  <2> QED BY CeremonyGrows DEF PostedIn, t
<1>4. ASSUME old.type \in {"SubmitRequest", "SubmitCommitment", "SubmitShare"}
      PROVE  /\ old.request_id \in Keys(t.requests)
             /\ AnsweredIn(t.requests[old.request_id], old)
  <2>1. /\ old.request_id \in Keys(s.requests)
        /\ AnsweredIn(s.requests[old.request_id], old)
    BY <1>4 DEF Recorded
  <2> HIDE DEF t
  <2> QED BY <1>1, <2>1, AnswersGrow
<1> HIDE DEF t
<1>5. Recorded(t, old)
  BY <1>2, <1>3, <1>4 DEF Recorded
<1> QED BY <1>5 DEF t

(* A post of round 1 or 2 leaves the ceremony open. *)
LEMMA ApplyOpens ==
    ASSUME NEW s \in State, NEW tx \in Tx, Accepts(s, tx),
           tx.type \in {"DkgRound1", "DkgRound2"}
    PROVE  apply_tx(s, tx).ceremony # None
<1>1. s.ceremony \in DkgCeremony
  BY StateParts DEF Accepts, DkgRound1Ok, DkgRound2Ok
<1>2. CASE tx.type = "DkgRound1"
  <2>1. [s.ceremony.round1 EXCEPT ![tx.from] = tx.package] \in Map(Ids, Draw)
    BY <1>1, <1>2, TxFields DEF DkgCeremony, Map
  <2>2. [s.ceremony EXCEPT !.round1[tx.from] = tx.package] \in DkgCeremony
    BY <1>1, <2>1 DEF DkgCeremony
  <2> QED BY <1>2, <2>2, NoneAssumption DEF apply_tx, DkgRound1Next, State
<1>3. CASE tx.type = "DkgRound2"
  <2>1. [s.ceremony.round2 EXCEPT ![<<tx.from, tx.to>>] = tx.sealed] \in Map(Ids \X Ids, Sealed)
    BY <1>1, <1>3, TxFields DEF DkgCeremony, Map
  <2>2. [s.ceremony EXCEPT !.round2[<<tx.from, tx.to>>] = tx.sealed] \in DkgCeremony
    BY <1>1, <2>1 DEF DkgCeremony
  <2> QED BY <1>3, <2>2, NoneAssumption DEF apply_tx, DkgRound2Next, State
<1> QED BY <1>2, <1>3

(* What is accepted is recorded. *)
LEMMA ApplyRecords ==
    ASSUME NEW s \in State, NEW tx \in Tx, Accepts(s, tx)
    PROVE  Recorded(apply_tx(s, tx), tx)
<1> DEFINE t == apply_tx(s, tx)
<1>1. CASE tx.type = "InitGroup"
  <2>1. [params |-> tx.params, pkp |-> tx.pkp, validators |-> tx.validators] \in GroupConfig
    BY <1>1, TxFields DEF GroupConfig
  <2>2. t.group # None
    BY <1>1, <2>1, NoneAssumption DEF apply_tx, InitGroupNext, State
  <2> QED BY <1>1, <2>2 DEF Recorded
<1>2. CASE tx.type = "DkgBegin"
  <2>1. [params |-> tx.params, validators |-> tx.validators, round1 |-> Empty(Ids),
         round2 |-> Empty(Ids \X Ids), finalize |-> Empty(Ids)] \in DkgCeremony
    BY <1>2, TxFields, EmptyTyped DEF DkgCeremony
  <2>2. t.ceremony # None
    BY <1>2, <2>1, NoneAssumption DEF apply_tx, DkgBeginNext, State
  <2> QED BY <1>2, <2>2 DEF Recorded, PostedIn
<1>3. CASE tx.type = "DkgRound1"
  <2>1. t \in State /\ s.ceremony \in DkgCeremony /\ tx.from \in Ids /\ tx.package # None
    BY <1>3, ApplyTyped, StateParts, TxFields, NoneAssumption DEF Accepts, DkgRound1Ok
  <2>2. t.ceremony = [s.ceremony EXCEPT !.round1[tx.from] = tx.package]
    BY <1>3 DEF apply_tx, DkgRound1Next, State
  <2>3. [s.ceremony EXCEPT !.round1[tx.from] = tx.package].round1[tx.from] = tx.package
    BY <2>1 DEF DkgCeremony, Map
  <2> HIDE DEF t
  <2>4. t.ceremony # None /\ tx.from \in Keys(t.ceremony.round1)
    <3>1. t.ceremony.round1[tx.from] = tx.package
      BY <2>2, <2>3, Zenon
    <3>2. t.ceremony # None
      BY <1>3, ApplyOpens DEF t
    <3>3. t.ceremony.round1 \in Map(Ids, Draw)
      BY <2>1, <3>2, StateParts DEF DkgCeremony
    <3> QED BY <2>1, <3>1, <3>2, <3>3 DEF Map, Keys
  <2>5. Recorded(t, tx)
    BY <1>3, <2>4 DEF Recorded, PostedIn
  <2> QED BY <2>5 DEF t
<1>4. CASE tx.type = "DkgRound2"
  <2> DEFINE p == <<tx.from, tx.to>>
  <2>1. t \in State /\ s.ceremony \in DkgCeremony /\ p \in Ids \X Ids /\ tx.sealed # None
    BY <1>4, ApplyTyped, StateParts, TxFields, NoneAssumption DEF Accepts, DkgRound2Ok
  <2>2. t.ceremony = [s.ceremony EXCEPT !.round2[p] = tx.sealed]
    BY <1>4 DEF apply_tx, DkgRound2Next, State
  <2>3. [s.ceremony EXCEPT !.round2[p] = tx.sealed].round2[p] = tx.sealed
    BY <2>1 DEF DkgCeremony, Map
  <2> HIDE DEF t, p
  <2>4. t.ceremony # None /\ p \in Keys(t.ceremony.round2)
    <3>1. t.ceremony.round2[p] = tx.sealed
      BY <2>2, <2>3, Zenon
    <3>2. t.ceremony # None
      BY <1>4, ApplyOpens DEF t
    <3>3. t.ceremony.round2 \in Map(Ids \X Ids, Sealed)
      BY <2>1, <3>2, StateParts DEF DkgCeremony
    <3> QED BY <2>1, <3>1, <3>2, <3>3 DEF Map, Keys
  <2>5. Recorded(t, tx)
    BY <1>4, <2>4 DEF Recorded, PostedIn, p
  <2> QED BY <2>5 DEF t
<1>5. CASE tx.type = "DkgFinalize"
  <2> DEFINE c == [s.ceremony EXCEPT !.finalize[tx.from] = tx.pkp]
             g == [params |-> c.params, pkp |-> FirstValue(c.finalize),
                   validators |-> Keys(c.validators)]
  <2>1. t.ceremony = c \/ t.group = g
    BY <1>5 DEF apply_tx, DkgFinalizeNext, State
  <2>2. c \in DkgCeremony /\ g \in GroupConfig
    BY <1>5, FinalizedGroup DEF Accepts
  <2>3. c # None /\ g # None
    BY <2>2, NoneAssumption
  <2>4. s.ceremony \in DkgCeremony /\ tx.from \in Ids /\ tx.pkp # None
    BY <1>5, StateParts, TxFields, NoneAssumption DEF Accepts, DkgFinalizeOk
  <2>5. c.finalize[tx.from] = tx.pkp
    BY <2>4 DEF DkgCeremony, Map
  <2> HIDE DEF c, g, t
  <2>6. tx.from \in Keys(c.finalize)
    BY <2>2, <2>4, <2>5 DEF DkgCeremony, Map, Keys
  <2>7. Recorded(t, tx)
    BY <1>5, <2>1, <2>3, <2>6 DEF Recorded, PostedIn
  <2> QED BY <2>7 DEF t
<1>6. CASE tx.type = "SubmitRequest"
  <2> DEFINE e == [message |-> tx.message, randomizer |-> tx.randomizer,
                   status |-> [tag |-> "AwaitingCommitments", commitments |-> Empty(Ids)]]
  <2>1. e \in RequestEntry
    BY <1>6, TxFields, EmptyTyped DEF RequestEntry, RequestStatus
  <2>2. t.requests = [s.requests EXCEPT ![tx.request_id] = e]
    BY <1>6 DEF apply_tx, SubmitRequestNext, State
  <2>3. e # None /\ s.requests \in Map(Uuids, RequestEntry) /\ tx.request_id \in Uuids
    BY <1>6, <2>1, NoneAssumption, StateParts, TxFields
  <2> HIDE DEF e, t
  <2>4. tx.request_id \in Keys(t.requests)
    BY <2>2, <2>3 DEF Map, Keys
  <2>5. Recorded(t, tx)
    BY <1>6, <2>4 DEF Recorded, AnsweredIn
  <2> QED BY <2>5 DEF t
<1>7. CASE tx.type = "SubmitCommitment"
  <2> DEFINE r == tx.request_id
             e == s.requests[r]
             map == [e.status.commitments EXCEPT ![tx.validator] = tx.commitments]
             st == AfterCommitment(map, s.group.params.threshold, e.message)
  <2>1. SubmitCommitmentOk(s, tx) /\ r \in Keys(s.requests) /\ e \in RequestEntry
    BY <1>7, StateParts DEF Accepts, SubmitCommitmentOk
  <2>2. st \in RequestStatus
    BY <1>7, <2>1, CommitmentForward, Zenon
  <2>3. t = [s EXCEPT !.requests[r].status = st]
    BY <1>7 DEF apply_tx, SubmitCommitmentNext
  <2>4. e.status.commitments \in Map(Ids, Draw)
    BY <2>1, StatusFields DEF RequestEntry, SubmitCommitmentOk
  <2>5. tx.validator \in Keys(map)
    BY <1>7, <2>4, TxFields, NoneAssumption DEF Map, Keys
  <2>6. st.tag = "AwaitingCommitments" => st.commitments = map
    <3> HIDE DEF map
    <3> QED BY DEF AfterCommitment
  <2> HIDE DEF st, map
  <2>7. t.requests[r].status = st /\ r \in Keys(t.requests)
    <3>1. /\ t.requests[r] = [e EXCEPT !.status = st]
          /\ Keys(t.requests) = Keys(s.requests)
      BY <2>1, <2>2, <2>3, StatusFrame
    <3>2. [e EXCEPT !.status = st].status = st
      BY <2>1 DEF RequestEntry
    <3> QED BY <2>1, <3>1, <3>2, Zenon
  <2> HIDE DEF t
  <2>8. Recorded(t, tx)
    BY <1>7, <2>5, <2>6, <2>7 DEF Recorded, AnsweredIn
  <2> QED BY <2>8 DEF t
<1>8. CASE tx.type = "SubmitShare"
  <2> DEFINE r == tx.request_id
             e == s.requests[r]
             shares == [e.status.shares EXCEPT ![tx.validator] = tx.share]
             st == AfterShare(e, s.group, shares)
  <2>1. SubmitShareOk(s, tx) /\ r \in Keys(s.requests) /\ e \in RequestEntry
    BY <1>8, StateParts DEF Accepts, SubmitShareOk
  <2>2. st \in RequestStatus
    BY <1>8, <2>1, ShareForward, Zenon
  <2>3. t = [s EXCEPT !.requests[r].status = st]
    BY <1>8 DEF apply_tx, SubmitShareNext
  <2>4. e.status \in RequestStatus /\ e.status.tag = "Signing"
    BY <2>1 DEF RequestEntry, SubmitShareOk
  <2>5. e.status.shares \in Map(Ids, SignatureShare)
    BY <2>4, StatusFields
  <2>6. tx.validator \in Keys(shares)
    BY <1>8, <2>5, TxFields, NoneAssumption DEF Map, Keys
  <2>7. st.tag \in {"Completed", "Failed"} \/ (st.tag = "Signing" /\ st.shares = shares)
    BY <2>4, AfterShareShape
  <2> HIDE DEF st, shares
  <2>8. t.requests[r].status = st /\ r \in Keys(t.requests)
    <3>1. /\ t.requests[r] = [e EXCEPT !.status = st]
          /\ Keys(t.requests) = Keys(s.requests)
      BY <2>1, <2>2, <2>3, StatusFrame
    <3>2. [e EXCEPT !.status = st].status = st
      BY <2>1 DEF RequestEntry
    <3> QED BY <2>1, <3>1, <3>2, Zenon
  <2> HIDE DEF t
  <2>9. Recorded(t, tx)
    BY <1>8, <2>6, <2>7, <2>8 DEF Recorded, AnsweredIn
  <2> QED BY <2>9 DEF t
<1> QED BY <1>1, <1>2, <1>3, <1>4, <1>5, <1>6, <1>7, <1>8 DEF Tx

----------------------------------------------------------------------------
(* What an accepted transaction does to the requests, in full.             *)

(* Only the requests in R may differ. *)
SameBut(s, t, R) == \A q \in Keys(s.requests) \ R : t.requests[q] = s.requests[q]

LEMMA RequestEffect ==
    ASSUME NEW s \in State, NEW tx \in Tx, tx.type = "SubmitRequest", Accepts(s, tx)
    PROVE  LET t == apply_tx(s, tx)
               r == tx.request_id
           IN  /\ s.group # None /\ t.group = s.group
               /\ r \in Uuids /\ r \notin Keys(s.requests)
               /\ Keys(t.requests) = Keys(s.requests) \cup {r}
               /\ SameBut(s, t, {r})
               /\ t.requests[r] =
                    [message |-> tx.message, randomizer |-> tx.randomizer,
                     status |-> [tag |-> "AwaitingCommitments", commitments |-> Empty(Ids)]]
<1> DEFINE t == apply_tx(s, tx)
           r == tx.request_id
           e == [message |-> tx.message, randomizer |-> tx.randomizer,
                 status |-> [tag |-> "AwaitingCommitments", commitments |-> Empty(Ids)]]
<1>1. s.group # None /\ r \notin Keys(s.requests) /\ t.group = s.group /\ r \in Uuids
  BY Frame, TxFields DEF Accepts, SubmitRequestOk
<1>2. t.requests = [s.requests EXCEPT ![r] = e]
  BY DEF apply_tx, SubmitRequestNext, State
<1>3. e # None
  <2>1. [tag |-> "AwaitingCommitments", commitments |-> Empty(Ids)] \in RequestStatus
    BY EmptyTyped DEF RequestStatus
  <2>2. e \in RequestEntry
    BY <2>1, TxFields DEF RequestEntry
  <2> QED BY <2>2, NoneAssumption
<1>4. s.requests \in Map(Uuids, RequestEntry)
  BY StateParts
<1> HIDE DEF t, e, r
<1>5. /\ Keys(t.requests) = Keys(s.requests) \cup {r}
      /\ t.requests[r] = e
  BY <1>1, <1>2, <1>3, <1>4 DEF Map, Keys
<1>6. SameBut(s, t, {r})
  BY <1>1, <1>2, <1>4 DEF Map, Keys, SameBut
<1> QED BY <1>1, <1>5, <1>6 DEF t, e, r

SetStatus(s, r, st) == [s EXCEPT !.requests[r].status = st]

(* The status is replaced, and nothing else. *)
LEMMA StatusEffect ==
    ASSUME NEW s \in State, NEW r \in Keys(s.requests), NEW st \in RequestStatus,
           NEW t, t = SetStatus(s, r, st)
    PROVE  /\ Keys(t.requests) = Keys(s.requests) /\ t.group = s.group
           /\ SameBut(s, t, {r})
           /\ t.requests[r].status = st
           /\ t.requests[r].message = s.requests[r].message
           /\ t.requests[r].randomizer = s.requests[r].randomizer
<1>1. s.requests[r] \in RequestEntry /\ \A q \in Keys(s.requests) : q \in Uuids
  BY StateParts
<1>2. /\ t.requests[r] = [s.requests[r] EXCEPT !.status = st]
      /\ \A q \in Uuids : q # r => t.requests[q] = s.requests[q]
      /\ Keys(t.requests) = Keys(s.requests)
      /\ t.group = s.group
  BY StatusFrame DEF SetStatus
<1>3. LET f == [s.requests[r] EXCEPT !.status = st]
      IN  f.status = st /\ f.message = s.requests[r].message
          /\ f.randomizer = s.requests[r].randomizer
  BY <1>1 DEF RequestEntry
<1> QED BY <1>1, <1>2, <1>3 DEF SameBut

(* A commitment waits with the others, or the package is cut. *)
Cut(chosen, cut, message) ==
    [tag |-> "Signing", signing_package |-> [commitments |-> cut, message |-> message],
     participants |-> chosen, shares |-> Empty(Ids)]

CommitmentsWith(s, tx) ==
    [s.requests[tx.request_id].status.commitments EXCEPT ![tx.validator] = tx.commitments]

CutFrom(st, map, message) ==
    \E chosen \in SUBSET Keys(map), cut \in Map(Ids, Draw) :
        /\ st = Cut(chosen, cut, message)
        /\ Keys(cut) = chosen
        /\ \A w \in chosen : cut[w] = map[w]

LEMMA CommitmentEffect ==
    ASSUME NEW s \in State, NEW tx \in Tx, tx.type = "SubmitCommitment", Accepts(s, tx)
    PROVE  LET t == apply_tx(s, tx)
               r == tx.request_id
               e == s.requests[r]
               f == t.requests[r]
               map == CommitmentsWith(s, tx)
           IN  /\ s.group # None /\ t.group = s.group /\ tx.validator \in s.group.validators
               /\ r \in Keys(s.requests) /\ e.status.tag = "AwaitingCommitments"
               /\ tx.validator \notin Keys(e.status.commitments)
               /\ Keys(map) = Keys(e.status.commitments) \cup {tx.validator}
               /\ map[tx.validator] = tx.commitments
               /\ \A w \in Keys(e.status.commitments) : map[w] = e.status.commitments[w]
               /\ Keys(t.requests) = Keys(s.requests) /\ SameBut(s, t, {r})
               /\ f.message = e.message /\ f.randomizer = e.randomizer
               /\ \/ f.status = [tag |-> "AwaitingCommitments", commitments |-> map]
                  \/ CutFrom(f.status, map, e.message)
<1> DEFINE t == apply_tx(s, tx)
           r == tx.request_id
           e == s.requests[r]
           old == e.status.commitments
           v == tx.validator
           map == [old EXCEPT ![v] = tx.commitments]
           th == s.group.params.threshold
           st == AfterCommitment(map, th, e.message)
           chosen == TakeFirst(Keys(map), th)
           cut == [w \in Ids |-> IF w \in chosen THEN map[w] ELSE None]
<1>1. /\ s.group # None /\ v \in s.group.validators /\ r \in Keys(s.requests)
      /\ e.status.tag = "AwaitingCommitments" /\ v \notin Keys(old)
  BY DEF Accepts, SubmitCommitmentOk
<1>2. /\ e \in RequestEntry /\ e.status \in RequestStatus
      /\ old \in Map(Ids, Draw) /\ v \in Ids /\ tx.commitments \in Draw /\ tx.commitments # None
  BY <1>1, StateParts, StatusFields, TxFields, NoneAssumption DEF RequestEntry
<1>3. /\ map \in Map(Ids, Draw) /\ Keys(map) = Keys(old) \cup {v}
      /\ map[v] = tx.commitments /\ \A w \in Keys(old) : map[w] = old[w]
  BY <1>1, <1>2 DEF Map, Keys
<1>4. st \in RequestStatus
  BY <1>1, CommitmentForward DEF Accepts
<1>5. t = SetStatus(s, r, st)
  BY DEF SetStatus, apply_tx, SubmitCommitmentNext
<1>6. \/ st = [tag |-> "AwaitingCommitments", commitments |-> map]
      \/ st = Cut(chosen, cut, e.message)
  <2> HIDE DEF map, th, e
  <2> QED BY DEF AfterCommitment, Cut
<1>7. /\ chosen \in SUBSET Keys(map) /\ cut \in Map(Ids, Draw) /\ Keys(cut) = chosen
      /\ \A w \in chosen : cut[w] = map[w]
  <2>1. chosen \subseteq Keys(map)
    BY DEF TakeFirst
  <2> HIDE DEF chosen, map
  <2> QED BY <1>3, <2>1 DEF Map, Keys
<1> HIDE DEF st, chosen, cut, map, old, t, r
<1>8. /\ Keys(t.requests) = Keys(s.requests) /\ t.group = s.group
      /\ SameBut(s, t, {r})
      /\ t.requests[r].status = st
      /\ t.requests[r].message = e.message /\ t.requests[r].randomizer = e.randomizer
  <2>1. r \in Keys(s.requests) /\ st \in RequestStatus /\ t = SetStatus(s, r, st)
    BY <1>1, <1>4, <1>5
  <2> QED BY <2>1, StatusEffect
<1>9. \/ t.requests[r].status = [tag |-> "AwaitingCommitments", commitments |-> map]
      \/ CutFrom(t.requests[r].status, map, e.message)
  BY <1>6, <1>7, <1>8 DEF CutFrom
<1>10. map = CommitmentsWith(s, tx)
  BY DEF map, old, r, CommitmentsWith
<1> QED BY <1>1, <1>3, <1>8, <1>9, <1>10 DEF t, old, r

(* A share waits with the others, or they are all in and are aggregated. *)
SharesWith(s, tx) ==
    [s.requests[tx.request_id].status.shares EXCEPT ![tx.validator] = tx.share]

LEMMA ShareEffect ==
    ASSUME NEW s \in State, NEW tx \in Tx, tx.type = "SubmitShare", Accepts(s, tx)
    PROVE  LET t == apply_tx(s, tx)
               r == tx.request_id
               e == s.requests[r]
               f == t.requests[r]
               shares == SharesWith(s, tx)
               good == aggregate_ok(e.status.signing_package, shares, s.group.pkp, e.randomizer)
           IN  /\ s.group # None /\ t.group = s.group /\ tx.validator \in s.group.validators
               /\ r \in Keys(s.requests) /\ e.status.tag = "Signing"
               /\ tx.validator \in e.status.participants
               /\ tx.validator \notin Keys(e.status.shares)
               /\ Keys(shares) = Keys(e.status.shares) \cup {tx.validator}
               /\ shares[tx.validator] = tx.share
               /\ \A w \in Keys(e.status.shares) : shares[w] = e.status.shares[w]
               /\ Keys(t.requests) = Keys(s.requests) /\ SameBut(s, t, {r})
               /\ f.message = e.message /\ f.randomizer = e.randomizer
               /\ \/ f.status = [tag |-> "Signing", signing_package |-> e.status.signing_package,
                                 participants |-> e.status.participants, shares |-> shares]
                  \/ good /\ f.status =
                       [tag |-> "Completed", participants |-> e.status.participants,
                        signature |-> [message |-> e.status.signing_package.message,
                                       randomizer |-> e.randomizer, pkp |-> s.group.pkp]]
                  \/ ~good /\ f.status = [tag |-> "Failed"]
<1> DEFINE t == apply_tx(s, tx)
           r == tx.request_id
           e == s.requests[r]
           old == e.status
           v == tx.validator
           shares == [old.shares EXCEPT ![v] = tx.share]
           good == aggregate_ok(old.signing_package, shares, s.group.pkp, e.randomizer)
           st == AfterShare(e, s.group, shares)
<1>1. /\ s.group # None /\ v \in s.group.validators /\ r \in Keys(s.requests)
      /\ old.tag = "Signing" /\ v \in old.participants /\ v \notin Keys(old.shares)
  BY DEF Accepts, SubmitShareOk
<1>2. e \in RequestEntry /\ old \in RequestStatus
  BY <1>1, StateParts DEF RequestEntry
<1>3. /\ old.shares \in Map(Ids, SignatureShare) /\ v \in Ids /\ tx.share # None
      /\ old = [tag |-> "Signing", signing_package |-> old.signing_package,
                participants |-> old.participants, shares |-> old.shares]
  BY <1>1, <1>2, StatusFields, TxFields, NoneAssumption
<1>4. /\ Keys(shares) = Keys(old.shares) \cup {v}
      /\ shares[v] = tx.share /\ \A w \in Keys(old.shares) : shares[w] = old.shares[w]
  <2> DEFINE sh == old.shares
  <2>1. sh \in Map(Ids, SignatureShare) /\ v \in Ids /\ tx.share # None /\ v \notin Keys(sh)
    BY <1>1, <1>3
  <2> HIDE DEF sh, v
  <2>2. LET new == [sh EXCEPT ![v] = tx.share]
        IN  Keys(new) = Keys(sh) \cup {v} /\ new[v] = tx.share /\ \A w \in Keys(sh) : new[w] = sh[w]
    BY <2>1 DEF Map, Keys
  <2> QED BY <2>2 DEF sh, v
<1>5. st \in RequestStatus
  BY <1>1, ShareForward DEF Accepts
<1>6. t = SetStatus(s, r, st)
  BY DEF SetStatus, apply_tx, SubmitShareNext
<1>7. [old EXCEPT !.shares = shares] =
        [tag |-> "Signing", signing_package |-> old.signing_package,
         participants |-> old.participants, shares |-> shares]
  BY <1>3
<1>8. \/ st = [old EXCEPT !.shares = shares]
      \/ good /\ st = [tag |-> "Completed", participants |-> old.participants,
                       signature |-> [message |-> old.signing_package.message,
                                      randomizer |-> e.randomizer, pkp |-> s.group.pkp]]
      \/ ~good /\ st = [tag |-> "Failed"]
  BY DEF AfterShare
<1> HIDE DEF st, shares, old, t, good, r
<1>9. /\ Keys(t.requests) = Keys(s.requests) /\ t.group = s.group
      /\ SameBut(s, t, {r})
      /\ t.requests[r].status = st
      /\ t.requests[r].message = e.message /\ t.requests[r].randomizer = e.randomizer
  <2>1. r \in Keys(s.requests) /\ st \in RequestStatus /\ t = SetStatus(s, r, st)
    BY <1>1, <1>5, <1>6
  <2> QED BY <2>1, StatusEffect
<1>10. \/ t.requests[r].status =
             [tag |-> "Signing", signing_package |-> old.signing_package,
              participants |-> old.participants, shares |-> shares]
       \/ good /\ t.requests[r].status =
             [tag |-> "Completed", participants |-> old.participants,
              signature |-> [message |-> old.signing_package.message,
                             randomizer |-> e.randomizer, pkp |-> s.group.pkp]]
       \/ ~good /\ t.requests[r].status = [tag |-> "Failed"]
  BY <1>7, <1>8, <1>9, Zenon
<1>11. shares = SharesWith(s, tx)
  BY DEF shares, old, r, SharesWith
<1> QED BY <1>1, <1>4, <1>9, <1>10, <1>11 DEF t, old, good, r

(* The status that a share leaves is the one AfterShare computes. *)
LEMMA ShareStatus ==
    ASSUME NEW s \in State, NEW tx \in Tx, tx.type = "SubmitShare", Accepts(s, tx)
    PROVE  apply_tx(s, tx).requests[tx.request_id].status =
               AfterShare(s.requests[tx.request_id], s.group, SharesWith(s, tx))
<1> DEFINE t == apply_tx(s, tx)
           r == tx.request_id
           st == AfterShare(s.requests[r], s.group, SharesWith(s, tx))
<1>1. r \in Keys(s.requests) /\ st \in RequestStatus /\ t = SetStatus(s, r, st)
  BY ShareForward DEF Accepts, SubmitShareOk, SetStatus, apply_tx, SubmitShareNext, SharesWith
<1> HIDE DEF st, t, r
<1>2. t.requests[r].status = st
  BY <1>1, StatusEffect
<1> QED BY <1>2 DEF st, t, r

(* A signing transaction touches one request, which is not finished. *)
LEMMA OneRequest ==
    ASSUME NEW s \in State, NEW tx \in Tx, Accepts(s, tx),
           tx.type \in {"SubmitRequest", "SubmitCommitment", "SubmitShare"}
    PROVE  LET t == apply_tx(s, tx)
               r == tx.request_id
           IN  /\ r \in Uuids /\ Keys(t.requests) = Keys(s.requests) \cup {r} /\ SameBut(s, t, {r})
               /\ tx.type = "SubmitRequest" <=> r \notin Keys(s.requests)
               /\ r \in Keys(s.requests) => s.requests[r].status.tag # "Completed"
<1> DEFINE t == apply_tx(s, tx)
           r == tx.request_id
<1>1. r \in Uuids
  BY TxFields
<1>2. CASE tx.type = "SubmitRequest"
  BY <1>1, <1>2, RequestEffect
<1>3. CASE tx.type = "SubmitCommitment"
  <2>1. /\ r \in Keys(s.requests) /\ Keys(t.requests) = Keys(s.requests)
        /\ SameBut(s, t, {r}) /\ s.requests[r].status.tag = "AwaitingCommitments"
    BY <1>3, CommitmentEffect
  <2> QED BY <1>1, <1>3, <2>1
<1>4. CASE tx.type = "SubmitShare"
  <2>1. /\ r \in Keys(s.requests) /\ Keys(t.requests) = Keys(s.requests)
        /\ SameBut(s, t, {r}) /\ s.requests[r].status.tag = "Signing"
    BY <1>4, ShareEffect
  <2> QED BY <1>1, <1>4, <2>1
<1> QED BY <1>2, <1>3, <1>4

----------------------------------------------------------------------------
(* The simulator.                                                          *)

(* What is true of the published and of the working state. *)
Safe(s) == OneGroup(s) /\ CeremonyInOrder(s) /\ CutIsExact(s)

(* The inductive invariant.  The property that replays are rejected is not *)
(* inductive: Recorded says why a transaction of the log is rejected.  The *)
(* properties of a step from one published state to the next are about the *)
(* many steps of a block: the last two conjuncts carry them from the       *)
(* published state to the working one.                                     *)
SimInv ==
    /\ TypeOK
    /\ Safe(state)
    /\ Safe(working)
    /\ \A tx \in log : Recorded(working, tx)
    /\ in_block \/ working = state
    /\ state.group # None => working.group = state.group
    /\ MovesForward(state, working)

(* From one published state to the next: the group stays and requests move forward. *)
Progress == (state.group # None => state'.group = state.group) /\ MovesForward(state, state')

(* A chain without a block, whatever is in its mempool. *)
LEMMA FirstBlockInv ==
    ASSUME state = DefaultState, working = DefaultState, log = {}, TypeOK
    PROVE  SimInv
<1>1. DefaultState.group = None /\ DefaultState.ceremony = None
      /\ DefaultState.requests = Empty(Uuids)
  BY DEF DefaultState
<1>2. Keys(DefaultState.requests) = {}
  BY <1>1, EmptyKeys
<1> HIDE DEF DefaultState
<1>3. Safe(DefaultState)
  BY <1>1, <1>2 DEF Safe, OneGroup, CeremonyInOrder, CutIsExact
<1>4. MovesForward(DefaultState, DefaultState)
  BY DefaultTyped, MovesForwardSelf
<1> QED BY <1>3, <1>4 DEF SimInv

LEMMA SimInitInv == SimInit => SimInv
<1> SUFFICES ASSUME SimInit PROVE SimInv
  OBVIOUS
<1>1. <<>> \in Seq(Tx)
  OBVIOUS
<1>2. mempool = <<>> /\ last_block = <<>> /\ accepted = <<>>
  BY DEF SimInit
<1>3. mempool \in Seq(Tx) /\ last_block \in Seq(Tx) /\ accepted \in Seq(Tx)
  BY <1>1, <1>2, Zenon
<1>4. TypeOK
  BY <1>3, DefaultTyped DEF SimInit, TypeOK
<1> QED BY <1>4, FirstBlockInv DEF SimInit

LEMMA SubmitAllInv ==
    ASSUME SimInv, NEW txs \in Seq(Tx), SubmitAll(txs)
    PROVE  SimInv' /\ Progress
<1>1. /\ state' = state /\ working' = working /\ log' = log /\ in_block' = in_block
      /\ block_height' = block_height /\ last_block' = last_block /\ accepted' = accepted
      /\ mempool' = mempool \o txs
  BY DEF SubmitAll
<1>2. TypeOK'
  BY <1>1 DEF SimInv, TypeOK
<1>3. Progress
  BY <1>1, MovesForwardSelf DEF SimInv, TypeOK, Progress
<1> QED BY <1>1, <1>2, <1>3 DEF SimInv

LEMMA BeginBlockInv ==
    ASSUME SimInv, BeginBlock
    PROVE  SimInv' /\ Progress
<1>1. /\ state' = state /\ working' = working /\ log' = log /\ in_block' = TRUE
      /\ block_height' = block_height /\ last_block' = last_block /\ accepted' = accepted
      /\ mempool' = mempool
  BY DEF BeginBlock
<1>2. TypeOK'
  BY <1>1 DEF SimInv, TypeOK
<1>3. Progress
  BY <1>1, MovesForwardSelf DEF SimInv, TypeOK, Progress
<1> QED BY <1>1, <1>2, <1>3 DEF SimInv

LEMMA EndBlockInv ==
    ASSUME SimInv, EndBlock
    PROVE  SimInv' /\ Progress
<1>1. /\ state' = working /\ working' = working /\ log' = log /\ in_block' = FALSE
      /\ block_height' = block_height + 1 /\ last_block' = accepted /\ accepted' = <<>>
      /\ mempool' = mempool
  BY DEF EndBlock
<1>2. TypeOK'
  <2>1. <<>> \in Seq(Tx)
    OBVIOUS
  <2>2. accepted' \in Seq(Tx)
    BY <1>1, <2>1, Zenon
  <2>3. block_height' \in Nat
    BY <1>1 DEF SimInv, TypeOK
  <2> QED BY <1>1, <2>2, <2>3 DEF SimInv, TypeOK
<1>3. Progress
  BY <1>1 DEF SimInv, Progress
<1>4. MovesForward(working, working)
  BY MovesForwardSelf DEF SimInv, TypeOK
<1> QED BY <1>1, <1>2, <1>3, <1>4 DEF SimInv

LEMMA PopTxInv ==
    ASSUME SimInv, PopTx
    PROVE  SimInv' /\ Progress
<1> DEFINE tx == Head(mempool)
<1>1. /\ state' = state /\ in_block' = in_block /\ in_block = TRUE
      /\ block_height' = block_height /\ last_block' = last_block
      /\ mempool' = Tail(mempool) /\ mempool # <<>>
  BY DEF PopTx, SimInv, TypeOK
<1>2. /\ state \in State /\ working \in State /\ mempool \in Seq(Tx) /\ accepted \in Seq(Tx)
      /\ log \subseteq Tx
  BY DEF SimInv, TypeOK
<1>3. tx \in Tx /\ Tail(mempool) \in Seq(Tx)
  BY <1>1, <1>2
<1> HIDE DEF tx
<1>4. Progress
  BY <1>1, <1>2, MovesForwardSelf DEF Progress
<1>5. CASE Accepts(working, tx)
  <2>1. /\ working' = apply_tx(working, tx) /\ accepted' = Append(accepted, tx)
        /\ log' = log \cup {tx}
    BY <1>5 DEF PopTx, tx
  <2>2. Safe(working)
    BY DEF SimInv
  <2>3. working' \in State
    BY <1>2, <1>3, <1>5, <2>1, ApplyTyped
  <2>4. TypeOK'
    <3>1. accepted' \in Seq(Tx)
      BY <1>2, <1>3, <2>1
    <3> QED BY <1>1, <1>2, <1>3, <2>1, <2>3, <3>1 DEF TypeOK, SimInv
  <2>5. Safe(working')
    BY <1>2, <1>3, <1>5, <2>1, <2>2, ApplyOneGroup, ApplyCeremony, ApplyCut DEF Safe
  <2>6. \A old \in log' : Recorded(working', old)
    <3>1. Recorded(working', tx)
      BY <1>2, <1>3, <1>5, <2>1, ApplyRecords
    <3>2. ASSUME NEW old \in log PROVE Recorded(working', old)
      <4>1. Recorded(working, old) /\ old \in Tx
        BY <1>2 DEF SimInv
      <4> QED BY <1>2, <1>3, <1>5, <2>1, <2>2, <4>1, ApplyKeepsRecord DEF Safe
    <3> QED BY <2>1, <3>1, <3>2
  <2>7. state.group # None => working'.group = state.group
    BY <1>2, <1>3, <1>5, <2>1, <2>2, ApplyKeepsGroup DEF SimInv, Safe
  <2>8. MovesForward(state, working')
    <3>1. MovesForward(working, working')
      BY <1>2, <1>3, <1>5, <2>1, ApplyForward
    <3> QED BY <1>2, <2>3, <3>1, MovesForwardTransitive DEF SimInv
  <2> QED BY <1>1, <1>4, <2>4, <2>5, <2>6, <2>7, <2>8 DEF SimInv
<1>6. CASE ~Accepts(working, tx)
  <2>1. working' = working /\ accepted' = accepted /\ log' = log
    BY <1>6 DEF PopTx, tx
  <2>2. TypeOK'
    BY <1>1, <1>2, <1>3, <2>1 DEF TypeOK, SimInv
  <2> QED BY <1>1, <1>4, <2>1, <2>2 DEF SimInv
<1> QED BY <1>5, <1>6
=============================================================================
