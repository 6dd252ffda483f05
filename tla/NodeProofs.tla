----------------------------- MODULE NodeProofs -----------------------------
(***************************************************************************)
(* Lemmas about a call of Node::react, for every chain state and every     *)
(* memory: what it returns, what it leaves in the memory, and which draws  *)
(* its commitments use.  Signing and Session are proved on top of them.    *)
(***************************************************************************)
EXTENDS Node, ChainProofs

----------------------------------------------------------------------------
(* What react returns.                                                     *)

(* The requests of a chain state are finitely many numbers. *)
LEMMA RequestsFinite ==
    ASSUME NEW s \in State, NEW S, S \subseteq Keys(s.requests)
    PROVE  S \subseteq Uuids /\ S \subseteq Nat /\ IsFiniteSet(S) /\ Cardinality(S) \in Nat
<1>1. S \subseteq Uuids
  BY StateParts
<1> QED BY <1>1, NodeAssumption, FS_Subset, FS_CardinalityType

(* The sets of requests react sorts a state into. *)
LEMMA ReactSets ==
    ASSUME NEW s \in State, NEW n, NEW m
    PROVE  /\ ToCommit(s, n, m) \subseteq Keys(s.requests)
           /\ ToShare(s, n, m) \subseteq Keys(s.requests)
           /\ Committing(s, n, m) \subseteq ToCommit(s, n, m)
           /\ Sharing(s, n, m) \subseteq ToShare(s, n, m) \cap Reached(s, n, m)
           /\ \A r \in ToCommit(s, n, m) : s.requests[r].status.tag = "AwaitingCommitments"
           /\ \A r \in ToShare(s, n, m) : s.requests[r].status.tag = "Signing"
<1>1. /\ ToCommit(s, n, m) \subseteq Keys(s.requests)
      /\ ToShare(s, n, m) \subseteq Keys(s.requests)
      /\ \A r \in ToCommit(s, n, m) : s.requests[r].status.tag = "AwaitingCommitments"
      /\ \A r \in ToShare(s, n, m) : s.requests[r].status.tag = "Signing"
  BY DEF ToCommit, ToShare, InStatus
<1>2. /\ Committing(s, n, m) \subseteq ToCommit(s, n, m)
      /\ Sharing(s, n, m) \subseteq ToShare(s, n, m)
      /\ Sharing(s, n, m) \subseteq Done(s, n, m)
  BY DEF Committing, Sharing
<1>3. Keys(s.requests) \subseteq Nat
  BY RequestsFinite
<1>4. Failing(s, n, m) \subseteq Nat
  BY <1>1, <1>3 DEF Failing, SessionInUse, IncorrectCommitment
<1>5. \A r \in Keys(s.requests), f \in Failing(s, n, m) : r < f => r <= f
  <2> TAKE r \in Keys(s.requests), f \in Failing(s, n, m)
  <2>1. r \in Nat /\ f \in Nat
    BY <1>3, <1>4
  <2> QED BY <2>1
<1>6. Done(s, n, m) \subseteq Reached(s, n, m)
  BY <1>5 DEF Done, Reached
<1> QED BY <1>1, <1>2, <1>6

(* A call that does not fail gets through all the requests. *)
LEMMA NoFailure ==
    ASSUME NEW s \in State, NEW n, NEW m, Failing(s, n, m) = {}
    PROVE  /\ Committing(s, n, m) = ToCommit(s, n, m)
           /\ Sharing(s, n, m) = ToShare(s, n, m)
           /\ Done(s, n, m) = Keys(s.requests) /\ Reached(s, n, m) = Keys(s.requests)
<1>1. Done(s, n, m) = Keys(s.requests) /\ Reached(s, n, m) = Keys(s.requests)
  BY DEF Done, Reached
<1> QED BY <1>1, ReactSets DEF Committing, Sharing

(* react returns one transaction for every request it commits to or        *)
(* shares for, or, when it fails, none.                                    *)
LEMMA OutLists ==
    ASSUME NEW s \in State, NEW n, NEW m
    PROVE  LET out == Out(s, n, m)
               rs == ToCommit(s, n, m) \cup ToShare(s, n, m)
           IN  /\ \E k \in Nat : DOMAIN out = 1 .. k /\ out = [i \in 1 .. k |-> out[i]]
               /\ Failing(s, n, m) # {} => out = <<>>
               /\ \A i \in DOMAIN out :
                     Failing(s, n, m) = {} /\ \E r \in rs : out[i] = TxFor(s, n, m, r)
               /\ Failing(s, n, m) = {} =>
                     \A r \in rs : \E i \in DOMAIN out : out[i] = TxFor(s, n, m, r)
<1> DEFINE out == Out(s, n, m)
           S == ToCommit(s, n, m) \cup ToShare(s, n, m)
           N == Cardinality(S)
           rs == InOrder(S)
<1>1. S \subseteq Nat /\ IsFiniteSet(S)
  BY ReactSets, RequestsFinite
<1>2. CASE Failing(s, n, m) # {}
  <2>1. out = <<>>
    BY <1>2 DEF Out
  <2> HIDE DEF out
  <2>2. DOMAIN out = 1 .. 0 /\ out = [i \in 1 .. 0 |-> out[i]] /\ DOMAIN out = {}
    BY <2>1
  <2> QED BY <1>2, <2>1, <2>2 DEF out
<1>3. CASE Failing(s, n, m) = {}
  <2>1. /\ N \in Nat /\ rs \in [1 .. N -> S]
        /\ \A x \in S : \E i \in 1 .. N : rs[i] = x
    BY <1>1, InOrderLists, Zenon
  <2>2. Len(rs) = N
    BY <2>1
  <2>3. out = [i \in 1 .. Len(rs) |-> TxFor(s, n, m, rs[i])]
    BY <1>3 DEF Out
  <2> HIDE DEF rs, N, S
  <2>4. out = [i \in 1 .. N |-> TxFor(s, n, m, rs[i])]
    BY <2>2, <2>3
  <2> HIDE DEF out
  <2>5. DOMAIN out = 1 .. N /\ out = [i \in 1 .. N |-> out[i]]
    BY <2>4
  <2>6. \A i \in 1 .. N : out[i] = TxFor(s, n, m, rs[i]) /\ rs[i] \in S
    BY <2>1, <2>4
  <2> QED BY <1>3, <2>1, <2>5, <2>6 DEF S, out
<1> QED BY <1>2, <1>3

----------------------------------------------------------------------------
(* The draws of a call, and the types of what it makes.                    *)

(* The nonces of a call have not been drawn before, have been drawn after  *)
(* it, and differ from request to request.                                 *)
LEMMA FreshDraws ==
    ASSUME NEW s \in State, NEW n, NEW m \in NodeMemory
    PROVE  LET C == Committing(s, n, m) IN
           /\ Cardinality(C) \in Nat
           /\ \A r \in C : \E k \in Nat :
                /\ FreshNonces(s, n, m, r) = <<n, k>>
                /\ m.drawn <= k /\ k < m.drawn + Cardinality(C)
           /\ \A r, q \in C : FreshNonces(s, n, m, r) = FreshNonces(s, n, m, q) => r = q
<1> DEFINE C == Committing(s, n, m)
           N == Cardinality(C)
           B(r) == Cardinality(Smaller(C, r))
<1>1. C \subseteq Nat /\ IsFiniteSet(C) /\ N \in Nat
  <2>1. C \subseteq Keys(s.requests)
    BY ReactSets
  <2> QED BY <2>1, RequestsFinite
<1>2. \A r \in C : B(r) \in Nat /\ B(r) < N /\ \A q \in C : r < q => B(r) < B(q)
  BY <1>1, Below, Zenon
<1>3. \A r : FreshNonces(s, n, m, r) = <<n, m.drawn + B(r)>>
  BY DEF FreshNonces, Smaller
<1>4. m.drawn \in Nat
  BY DEF NodeMemory
<1> HIDE DEF C, N, B
<1>5. ASSUME NEW r \in C
      PROVE  \E k \in Nat : FreshNonces(s, n, m, r) = <<n, k>> /\ m.drawn <= k /\ k < m.drawn + N
  <2>1. m.drawn + B(r) \in Nat /\ m.drawn <= m.drawn + B(r) /\ m.drawn + B(r) < m.drawn + N
    BY <1>1, <1>2, <1>4
  <2> QED BY <1>3, <2>1
<1>6. ASSUME NEW r \in C, NEW q \in C, FreshNonces(s, n, m, r) = FreshNonces(s, n, m, q)
      PROVE  r = q
  <2>1. m.drawn + B(r) = m.drawn + B(q)
    BY <1>3, <1>6
  <2>2. B(r) \in Nat /\ B(q) \in Nat /\ (r < q => B(r) < B(q)) /\ (q < r => B(q) < B(r))
    BY <1>2
  <2>3. r \in Nat /\ q \in Nat
    BY <1>1
  <2> QED BY <1>4, <2>1, <2>2, <2>3
<1> QED BY <1>1, <1>5, <1>6 DEF C, N

(* What a share is computed from. *)
LEMMA ShareForTyped ==
    ASSUME NEW s \in State, NEW n, NEW m \in NodeMemory, NEW r \in ToShare(s, n, m)
    PROVE  ShareFor(s, n, m, r) \in SignatureShare
<1>1. s.requests[r] \in RequestEntry /\ r \in Uuids /\ s.requests[r].status.tag = "Signing"
  BY ReactSets, StateParts
<1>2. s.requests[r].status.signing_package \in SigningPackage /\ s.requests[r].randomizer \in Randomizers
  BY <1>1, StatusFields DEF RequestEntry
<1>3. m.pending[r] \in Draw
  BY <1>1 DEF ToShare, NodeMemory, Map
<1> QED BY <1>2, <1>3, NodeAssumption DEF ShareFor, SignatureShare

(* The nonces for a request are a draw, whatever the request. *)
LEMMA FreshNoncesTyped ==
    ASSUME NEW s \in State, NEW n \in Ids, NEW m \in NodeMemory, NEW r
    PROVE  FreshNonces(s, n, m, r) \in Draw
<1> DEFINE B == {q \in Committing(s, n, m) : q < r}
<1>1. B \subseteq Keys(s.requests)
  BY ReactSets
<1>2. Cardinality(B) \in Nat
  BY <1>1, RequestsFinite
<1>3. m.drawn + Cardinality(B) \in Nat
  BY <1>2 DEF NodeMemory
<1> QED BY <1>3 DEF FreshNonces, Draw

LEMMA TxForTyped ==
    ASSUME NEW s \in State, NEW n \in Ids, NEW m \in NodeMemory,
           NEW r \in ToCommit(s, n, m) \cup ToShare(s, n, m)
    PROVE  TxFor(s, n, m, r) \in Tx
<1>1. r \in Uuids
  BY ReactSets, StateParts
<1>2. CASE r \in ToCommit(s, n, m)
  BY <1>1, <1>2, FreshNoncesTyped DEF TxFor, Tx
<1>3. CASE r \notin ToCommit(s, n, m)
  BY <1>1, <1>3, ShareForTyped DEF TxFor, Tx
<1> QED BY <1>2, <1>3

(* What react returns can be submitted. *)
LEMMA OutTyped ==
    ASSUME NEW s \in State, NEW n \in Ids, NEW m \in NodeMemory
    PROVE  Out(s, n, m) \in Seq(Tx)
<1> DEFINE out == Out(s, n, m)
<1>1. PICK k \in Nat : DOMAIN out = 1 .. k /\ out = [i \in 1 .. k |-> out[i]]
  BY OutLists
<1>2. \A i \in 1 .. k : out[i] \in Tx
  BY <1>1, OutLists, TxForTyped
<1> HIDE DEF out
<1>3. out \in [1 .. k -> Tx]
  BY <1>1, <1>2
<1> QED BY <1>3 DEF out

(* The memory react leaves is a memory. *)
LEMMA MemoryAfterTyped ==
    ASSUME NEW s \in State, NEW n \in Ids, NEW m \in NodeMemory
    PROVE  MemoryAfter(s, n, m) \in NodeMemory
<1>1. PendingAfter(s, n, m) \in Map(Uuids, Draw)
  BY FreshNoncesTyped DEF PendingAfter, Map, NodeMemory
<1>2. Keys(s.requests) \subseteq Uuids
  BY StateParts
<1>3. CommittedAfter(s, n, m) \subseteq Uuids
  BY <1>2, ReactSets DEF CommittedAfter, CommitmentSeen, InStatus, NodeMemory
<1>4. SharedAfter(s, n, m) \subseteq Uuids
  BY <1>2, ReactSets DEF SharedAfter, ShareSeen, InStatus, NodeMemory
<1>5. m.drawn + Cardinality(Committing(s, n, m)) \in Nat
  BY FreshDraws DEF NodeMemory
<1> QED BY <1>1, <1>3, <1>4, <1>5 DEF MemoryAfter, NodeMemory

LEMMA NewNodeTyped == ASSUME NEW k \in Nat PROVE NewNode(k) \in NodeMemory
BY EmptyTyped DEF NewNode, NodeMemory

----------------------------------------------------------------------------
(* Honest nodes: what the chain holds while every commitment and every     *)
(* share on it comes from a call of react.                                 *)

(* The nodes whose policies approve a message. *)
Approving(message) == {n \in DOMAIN Approves : message \in Approves[n]}

(* The share a package asks of a participant. *)
RightShare(e, v) ==
    [nonces |-> e.status.signing_package.commitments[v],
     signing_package |-> e.status.signing_package,
     randomizer |-> e.randomizer, pkp |-> GroupKey]

HonestEntry(e) ==
    /\ e.status.tag = "AwaitingCommitments" => Keys(e.status.commitments) \subseteq Approving(e.message)
    /\ e.status.tag \in {"Signing", "Completed"} => e.status.participants \subseteq Approving(e.message)
    /\ e.status.tag = "Signing" =>
          \A v \in Keys(e.status.shares) : e.status.shares[v] = RightShare(e, v)
    /\ e.status.tag # "Failed"

HonestState(s) ==
    /\ s.ceremony = None
    /\ s.group # None => s.group.pkp = GroupKey /\ s.group.validators = Keys(GroupKey)
    /\ \A r \in Keys(s.requests) : HonestEntry(s.requests[r])

(* A commitment to a request on the chain, from a node that approves it;   *)
(* a share that, as long as it can still be used, is the right one.        *)
HonestCommitment(s, r, v) ==
    r \in Keys(s.requests) /\ v \in Approving(s.requests[r].message)

HonestShare(s, r, v, share) ==
    /\ r \in Keys(s.requests)
    /\ s.requests[r].status.tag # "AwaitingCommitments"
    /\ s.requests[r].status.tag = "Signing" =>
          v \in s.requests[r].status.participants /\ share = RightShare(s.requests[r], v)

HonestTx(s, tx) ==
    /\ tx.type \in {"InitGroup", "SubmitRequest", "SubmitCommitment", "SubmitShare"}
    /\ tx.type = "InitGroup" => tx.pkp = GroupKey /\ tx.validators = Keys(GroupKey)
    /\ tx.type = "SubmitCommitment" => HonestCommitment(s, tx.request_id, tx.validator)
    /\ tx.type = "SubmitShare" => HonestShare(s, tx.request_id, tx.validator, tx.share)

(* Statuses that are honest. *)
LEMMA HonestAwaiting ==
    ASSUME NEW e, e.status.tag = "AwaitingCommitments",
           Keys(e.status.commitments) \subseteq Approving(e.message)
    PROVE  HonestEntry(e)
BY DEF HonestEntry

LEMMA HonestSigning ==
    ASSUME NEW e, e.status.tag = "Signing", e.status.participants \subseteq Approving(e.message),
           \A v \in Keys(e.status.shares) : e.status.shares[v] = RightShare(e, v)
    PROVE  HonestEntry(e)
BY DEF HonestEntry

LEMMA HonestCompleted ==
    ASSUME NEW e, e.status.tag = "Completed", e.status.participants \subseteq Approving(e.message)
    PROVE  HonestEntry(e)
BY DEF HonestEntry

(* A commitment of an approving node leaves an honest entry. *)
LEMMA CommitmentHonest ==
    ASSUME NEW s \in State, NEW tx \in Tx, tx.type = "SubmitCommitment", Accepts(s, tx),
           HonestEntry(s.requests[tx.request_id]),
           tx.validator \in Approving(s.requests[tx.request_id].message)
    PROVE  HonestEntry(apply_tx(s, tx).requests[tx.request_id])
<1> DEFINE e == s.requests[tx.request_id]
           f == apply_tx(s, tx).requests[tx.request_id]
           map == CommitmentsWith(s, tx)
<1>1. /\ e.status.tag = "AwaitingCommitments"
      /\ Keys(map) = Keys(e.status.commitments) \cup {tx.validator}
      /\ f.message = e.message
      /\ \/ f.status = [tag |-> "AwaitingCommitments", commitments |-> map]
         \/ CutFrom(f.status, map, e.message)
  BY CommitmentEffect
<1>2. Keys(map) \subseteq Approving(f.message)
  BY <1>1 DEF HonestEntry
<1> HIDE DEF f, map
<1>3. CASE f.status = [tag |-> "AwaitingCommitments", commitments |-> map]
  BY <1>2, <1>3, HonestAwaiting DEF f
<1>4. ASSUME NEW chosen \in SUBSET Keys(map), NEW cut, f.status = Cut(chosen, cut, e.message)
      PROVE  HonestEntry(f)
  <2>1. f.status.tag = "Signing" /\ f.status.participants = chosen /\ f.status.shares = Empty(Ids)
    BY <1>4 DEF Cut
  <2>2. Keys(f.status.shares) = {}
    BY <2>1, EmptyKeys
  <2> QED BY <1>2, <2>1, <2>2, HonestSigning
<1> QED BY <1>1, <1>3, <1>4 DEF f, CutFrom

(* The right share, of a member of the group, makes aggregation succeed. *)
LEMMA ShareHonest ==
    ASSUME NEW s \in State, NEW tx \in Tx, tx.type = "SubmitShare", Accepts(s, tx),
           HonestEntry(s.requests[tx.request_id]),
           EntryExact(s.requests[tx.request_id], s.group),
           s.group.pkp = GroupKey, s.group.validators = Keys(GroupKey),
           tx.share = RightShare(s.requests[tx.request_id], tx.validator)
    PROVE  HonestEntry(apply_tx(s, tx).requests[tx.request_id])
<1> DEFINE e == s.requests[tx.request_id]
           st == e.status
           v == tx.validator
           f == apply_tx(s, tx).requests[tx.request_id]
           shares == SharesWith(s, tx)
           good == aggregate_ok(st.signing_package, shares, s.group.pkp, e.randomizer)
<1>1. /\ st.tag = "Signing" /\ v \in st.participants
      /\ Keys(shares) = Keys(st.shares) \cup {v}
      /\ shares[v] = tx.share /\ \A w \in Keys(st.shares) : shares[w] = st.shares[w]
      /\ f.message = e.message /\ f.randomizer = e.randomizer
      /\ \/ f.status = [tag |-> "Signing", signing_package |-> st.signing_package,
                        participants |-> st.participants, shares |-> shares]
         \/ good /\ f.status =
              [tag |-> "Completed", participants |-> st.participants,
               signature |-> [message |-> st.signing_package.message,
                              randomizer |-> e.randomizer, pkp |-> s.group.pkp]]
         \/ ~good /\ f.status = [tag |-> "Failed"]
  BY ShareEffect
<1>2. /\ st.participants \subseteq Approving(e.message)
      /\ \A w \in Keys(st.shares) : st.shares[w] = RightShare(e, w)
  BY <1>1 DEF HonestEntry
<1>3. st.participants \subseteq Keys(GroupKey) /\ Keys(st.shares) \subseteq st.participants
  BY <1>1 DEF EntryExact
<1>4. \A w \in Keys(shares) : w \in Keys(GroupKey) /\ shares[w] = RightShare(e, w)
  BY <1>1, <1>2, <1>3
<1>5. good
  BY <1>4 DEF aggregate_ok, RightShare
<1> HIDE DEF f, shares, good
<1>6. CASE f.status = [tag |-> "Signing", signing_package |-> st.signing_package,
                       participants |-> st.participants, shares |-> shares]
  <2>1. /\ f.status.tag = "Signing" /\ f.status.participants = st.participants
        /\ f.status.shares = shares /\ f.status.signing_package = st.signing_package
    BY <1>6
  <2>2. \A w : RightShare(f, w) = RightShare(e, w)
    BY <1>1, <2>1 DEF RightShare
  <2>3. HonestEntry(f)
    BY <1>1, <1>2, <1>4, <2>1, <2>2, HonestSigning
  <2> QED BY <2>3 DEF f
<1>7. CASE f.status = [tag |-> "Completed", participants |-> st.participants,
                       signature |-> [message |-> st.signing_package.message,
                                      randomizer |-> e.randomizer, pkp |-> s.group.pkp]]
  <2>1. f.status.tag = "Completed" /\ f.status.participants = st.participants
    BY <1>7
  <2>2. HonestEntry(f)
    BY <1>1, <1>2, <2>1, HonestCompleted
  <2> QED BY <2>2 DEF f
<1> QED BY <1>1, <1>5, <1>6, <1>7

(* An honest chain stays honest. *)
LEMMA ApplyHonest ==
    ASSUME NEW s \in State, NEW tx \in Tx, Accepts(s, tx), OneGroup(s), CutIsExact(s),
           HonestState(s), HonestTx(s, tx)
    PROVE  HonestState(apply_tx(s, tx))
<1> DEFINE t == apply_tx(s, tx)
           r == tx.request_id
<1>1. t.ceremony = None
  BY Frame DEF HonestTx, HonestState
<1>2. CASE tx.type = "InitGroup"
  <2>1. t.requests = s.requests
    BY <1>2, Frame
  <2>2. t.group.pkp = GroupKey /\ t.group.validators = Keys(GroupKey)
    BY <1>2 DEF apply_tx, InitGroupNext, State, HonestTx
  <2> HIDE DEF t
  <2> QED BY <1>1, <2>1, <2>2 DEF t, HonestState
<1>3. CASE tx.type # "InitGroup"
  <2>1. tx.type \in {"SubmitRequest", "SubmitCommitment", "SubmitShare"}
    BY <1>3 DEF HonestTx
  <2>2. t.group = s.group /\ s.group # None
    BY <2>1, Frame
  <2>3. Keys(t.requests) = Keys(s.requests) \cup {r} /\ SameBut(s, t, {r})
    BY <2>1, OneRequest
  <2>4. HonestEntry(t.requests[r])
    <3>1. CASE tx.type = "SubmitRequest"
      <4> DEFINE e == [message |-> tx.message, randomizer |-> tx.randomizer,
                       status |-> [tag |-> "AwaitingCommitments", commitments |-> Empty(Ids)]]
      <4>1. t.requests[r] = e
        BY <3>1, RequestEffect
      <4>2. e.status.tag = "AwaitingCommitments" /\ Keys(e.status.commitments) = {}
        BY EmptyKeys
      <4> HIDE DEF e
      <4>3. HonestEntry(e)
        BY <4>2, HonestAwaiting
      <4> QED BY <4>1, <4>3
    <3>2. CASE tx.type = "SubmitCommitment"
      BY <3>2, CommitmentHonest DEF HonestTx, HonestState, HonestCommitment
    <3>3. CASE tx.type = "SubmitShare"
      <4>1. r \in Keys(s.requests) /\ s.requests[r].status.tag = "Signing"
        BY <3>3, ShareEffect
      <4>2. tx.share = RightShare(s.requests[r], tx.validator)
        BY <3>3, <4>1 DEF HonestTx, HonestShare
      <4> QED BY <2>2, <3>3, <4>1, <4>2, ShareHonest DEF HonestState, CutIsExact
    <3> QED BY <2>1, <3>1, <3>2, <3>3
  <2> HIDE DEF t, r
  <2>5. \A q \in Keys(t.requests) : HonestEntry(t.requests[q])
    BY <2>3, <2>4 DEF SameBut, HonestState
  <2> QED BY <1>1, <2>2, <2>5 DEF HonestState, t
<1> QED BY <1>2, <1>3

(* Requests that are on the chain stay there, and ask for the same. *)
LEMMA ForwardKeys ==
    ASSUME NEW s \in State, NEW t \in State, MovesForward(s, t), NEW r \in Keys(s.requests)
    PROVE  /\ r \in Keys(t.requests)
           /\ t.requests[r].message = s.requests[r].message
           /\ t.requests[r].randomizer = s.requests[r].randomizer
<1>1. Forward(s.requests[r], t.requests[r])
  BY ForwardEach
<1>2. r \in Uuids /\ t.requests \in Map(Uuids, RequestEntry)
  BY StateParts
<1>3. r \in Keys(t.requests)
  BY <1>1, <1>2 DEF Forward, Keys, Map
<1> QED BY <1>1, <1>3 DEF Forward

(* A package that is being signed stays as it is, or the request is done. *)
LEMMA SigningStays ==
    ASSUME NEW s \in State, NEW t \in State, MovesForward(s, t), CutIsExact(s), CutIsExact(t),
           NEW r \in Keys(s.requests), s.requests[r].status.tag # "AwaitingCommitments"
    PROVE  /\ t.requests[r].status.tag # "AwaitingCommitments"
           /\ t.requests[r].status.tag = "Signing" =>
                 /\ s.requests[r].status.tag = "Signing"
                 /\ t.requests[r].status.signing_package = s.requests[r].status.signing_package
                 /\ t.requests[r].status.participants = s.requests[r].status.participants
                 /\ \A v \in Keys(s.requests[r].status.shares) :
                       t.requests[r].status.shares[v] = s.requests[r].status.shares[v]
<1> DEFINE e == s.requests[r]
           f == t.requests[r]
<1>1. r \in Keys(t.requests)
  BY ForwardKeys
<1>2. e \in RequestEntry /\ f \in RequestEntry /\ Forward(e, f)
  BY <1>1, StateParts, ForwardEach
<1>3. EntryExact(e, s.group) /\ EntryExact(f, t.group)
  BY <1>1 DEF CutIsExact
<1>4. e.status \in RequestStatus /\ f.status \in RequestStatus
  BY <1>2 DEF RequestEntry
<1>5. /\ Rank(e.status) \in {0, 1, 2} /\ Rank(f.status) \in {0, 1, 2}
      /\ Rank(e.status) = 0 <=> e.status.tag = "AwaitingCommitments"
      /\ Rank(f.status) = 0 <=> f.status.tag = "AwaitingCommitments"
      /\ Rank(e.status) = 1 <=> e.status.tag = "Signing"
      /\ Rank(f.status) = 1 <=> f.status.tag = "Signing"
  BY <1>4, RankOf
<1>6. e.status.tag # "AwaitingCommitments"
  OBVIOUS
<1> HIDE DEF e, f
<1>7. f.status.tag # "AwaitingCommitments"
  BY <1>2, <1>5, <1>6 DEF Forward
<1>8. ASSUME f.status.tag = "Signing"
      PROVE  /\ e.status.tag = "Signing"
             /\ f.status.signing_package = e.status.signing_package
             /\ \A v \in Keys(e.status.shares) : f.status.shares[v] = e.status.shares[v]
  BY <1>2, <1>5, <1>6, <1>8 DEF Forward
<1>9. ASSUME f.status.tag = "Signing" PROVE f.status.participants = e.status.participants
  BY <1>3, <1>8, <1>9 DEF EntryExact
<1> QED BY <1>7, <1>8, <1>9 DEF e, f

(* A transaction that is honest stays honest while the chain moves on. *)
LEMMA HonestTxStays ==
    ASSUME NEW s \in State, NEW t \in State, MovesForward(s, t), CutIsExact(s), CutIsExact(t),
           NEW tx, HonestTx(s, tx)
    PROVE  HonestTx(t, tx)
<1> DEFINE r == tx.request_id
<1>1. CASE tx.type = "SubmitCommitment"
  <2>1. HonestCommitment(s, r, tx.validator)
    BY <1>1 DEF HonestTx
  <2>2. HonestCommitment(t, r, tx.validator)
    BY <2>1, ForwardKeys DEF HonestCommitment
  <2> QED BY <1>1, <2>2 DEF HonestTx
<1>2. CASE tx.type = "SubmitShare"
  <2>1. HonestShare(s, r, tx.validator, tx.share)
    BY <1>2 DEF HonestTx
  <2>2. r \in Keys(s.requests) /\ s.requests[r].status.tag # "AwaitingCommitments"
    BY <2>1 DEF HonestShare
  <2> HIDE DEF r
  <2>3. /\ r \in Keys(t.requests) /\ t.requests[r].randomizer = s.requests[r].randomizer
    BY <2>2, ForwardKeys
  <2>4. t.requests[r].status.tag # "AwaitingCommitments"
    BY <2>2, SigningStays
  <2>5. t.requests[r].status.tag = "Signing" =>
          /\ s.requests[r].status.tag = "Signing"
          /\ t.requests[r].status.signing_package = s.requests[r].status.signing_package
          /\ t.requests[r].status.participants = s.requests[r].status.participants
    BY <2>2, SigningStays
  <2>6. HonestShare(t, r, tx.validator, tx.share)
    BY <2>1, <2>3, <2>4, <2>5 DEF HonestShare, RightShare
  <2> QED BY <1>2, <2>6 DEF HonestTx, r
<1>3. CASE tx.type \notin {"SubmitCommitment", "SubmitShare"}
  BY <1>3 DEF HonestTx
<1> QED BY <1>1, <1>2, <1>3

(* What react returns is honest: it commits to what its policy approves    *)
(* and shares with the nonces it committed to.                             *)
LEMMA OutHonest ==
    ASSUME NEW s \in State, NEW n \in DOMAIN Approves, NEW m,
           NEW i \in DOMAIN Out(s, n, m)
    PROVE  HonestTx(s, Out(s, n, m)[i])
<1>1. Failing(s, n, m) = {}
      /\ \E q \in ToCommit(s, n, m) \cup ToShare(s, n, m) : Out(s, n, m)[i] = TxFor(s, n, m, q)
  BY OutLists
<1>2. PICK r \in ToCommit(s, n, m) \cup ToShare(s, n, m) : Out(s, n, m)[i] = TxFor(s, n, m, r)
  BY <1>1
<1> DEFINE tx == TxFor(s, n, m, r)
<1>3. CASE r \in ToCommit(s, n, m)
  <2>1. tx.type = "SubmitCommitment" /\ tx.request_id = r /\ tx.validator = n
    BY <1>3 DEF TxFor
  <2>2. HonestCommitment(s, r, n)
    BY <1>3, ReactSets DEF ToCommit, HonestCommitment, Approving
  <2> QED BY <1>2, <2>1, <2>2 DEF HonestTx
<1>4. CASE r \notin ToCommit(s, n, m)
  <2>1. tx.type = "SubmitShare" /\ tx.request_id = r /\ tx.validator = n
        /\ tx.share = ShareFor(s, n, m, r)
    BY <1>4 DEF TxFor
  <2>2. r \in ToShare(s, n, m) /\ r \notin IncorrectCommitment(s, n, m)
    BY <1>1, <1>2, <1>4 DEF Failing
  <2>3. /\ r \in Keys(s.requests) /\ s.requests[r].status.tag = "Signing"
        /\ n \in s.requests[r].status.participants
        /\ m.pending[r] = s.requests[r].status.signing_package.commitments[n]
    BY <2>2, ReactSets DEF ToShare, IncorrectCommitment
  <2>4. HonestShare(s, r, n, tx.share)
    BY <2>1, <2>3 DEF HonestShare, ShareFor, RightShare
  <2> QED BY <1>2, <2>1, <2>4 DEF HonestTx
<1> QED BY <1>3, <1>4

----------------------------------------------------------------------------
(* The simulator, while only honest transactions are submitted.            *)

(* What react returns, as a set. *)
LEMMA OutSet ==
    ASSUME NEW s \in State, NEW n, NEW m
    PROVE  /\ ToSet(Out(s, n, m)) # {} => Failing(s, n, m) = {}
           /\ \A tx \in ToSet(Out(s, n, m)) :
                 \E r \in ToCommit(s, n, m) \cup ToShare(s, n, m) : tx = TxFor(s, n, m, r)
           /\ Failing(s, n, m) = {} =>
                 \A r \in ToCommit(s, n, m) \cup ToShare(s, n, m) :
                     TxFor(s, n, m, r) \in ToSet(Out(s, n, m))
           /\ n \in DOMAIN Approves => \A tx \in ToSet(Out(s, n, m)) : HonestTx(s, tx)
<1> DEFINE out == Out(s, n, m)
<1>1. ToSet(out) = {out[i] : i \in DOMAIN out}
  BY DEF ToSet
<1>2. /\ \A i \in DOMAIN out :
             /\ Failing(s, n, m) = {}
             /\ \E r \in ToCommit(s, n, m) \cup ToShare(s, n, m) : out[i] = TxFor(s, n, m, r)
      /\ Failing(s, n, m) = {} =>
            \A r \in ToCommit(s, n, m) \cup ToShare(s, n, m) :
                \E i \in DOMAIN out : out[i] = TxFor(s, n, m, r)
  BY OutLists
<1>3. n \in DOMAIN Approves => \A i \in DOMAIN out : HonestTx(s, out[i])
  BY OutHonest
<1> HIDE DEF out
<1> QED BY <1>1, <1>2, <1>3 DEF out

(* The published and the working state are honest, and so is everything on *)
(* its way to the chain.                                                   *)
HonestSim ==
    /\ HonestState(state)
    /\ HonestState(working)
    /\ \A tx \in ToSet(mempool) : HonestTx(working, tx)

LEMMA SubmitAllHonest ==
    ASSUME SimInv, HonestSim, NEW txs \in Seq(Tx), SubmitAll(txs),
           \A tx \in ToSet(txs) : HonestTx(working, tx)
    PROVE  HonestSim'
<1>1. state' = state /\ working' = working /\ mempool' = mempool \o txs
  BY DEF SubmitAll
<1>2. ToSet(mempool') = ToSet(mempool) \cup ToSet(txs)
  BY <1>1, ToSetConcat DEF SimInv, TypeOK
<1> QED BY <1>1, <1>2 DEF HonestSim

LEMMA PopTxHonest ==
    ASSUME SimInv, HonestSim, PopTx
    PROVE  HonestSim'
<1> DEFINE tx == Head(mempool)
<1>1. state' = state /\ mempool' = Tail(mempool) /\ mempool # <<>>
  BY DEF PopTx
<1>2. working \in State /\ mempool \in Seq(Tx) /\ OneGroup(working) /\ CutIsExact(working)
  BY DEF SimInv, TypeOK, Safe
<1>3. tx \in Tx /\ ToSet(mempool) = {tx} \cup ToSet(mempool')
  BY <1>1, <1>2, ToSetTail
<1> HIDE DEF tx
<1>4. CASE Accepts(working, tx)
  <2>1. working' = apply_tx(working, tx)
    BY <1>4 DEF PopTx, tx
  <2>2. HonestState(working')
    BY <1>2, <1>3, <1>4, <2>1, ApplyHonest DEF HonestSim
  <2>3. working' \in State /\ MovesForward(working, working') /\ CutIsExact(working')
    BY <1>2, <1>3, <1>4, <2>1, ApplyTyped, ApplyForward, ApplyCut
  <2>4. \A old \in ToSet(mempool') : HonestTx(working', old)
    BY <1>2, <1>3, <2>3, HonestTxStays DEF HonestSim
  <2> QED BY <1>1, <2>2, <2>4 DEF HonestSim
<1>5. CASE ~Accepts(working, tx)
  <2>1. working' = working
    BY <1>5 DEF PopTx, tx
  <2> QED BY <1>1, <1>3, <2>1 DEF HonestSim
<1> QED BY <1>4, <1>5

LEMMA BlockEdgeHonest ==
    ASSUME HonestSim, BeginBlock \/ EndBlock
    PROVE  HonestSim'
<1>1. working' = working /\ mempool' = mempool /\ (state' = state \/ state' = working)
  BY DEF BeginBlock, EndBlock
<1> QED BY <1>1 DEF HonestSim

----------------------------------------------------------------------------
(* The nonces a node holds.                                                *)

(* A node holds nonces that it has drawn, different ones for different     *)
(* requests, and only for requests whose messages its policy approves.     *)
OwnNonces(n, m) ==
    /\ \A r \in Uuids : m.pending[r] # None =>
          \E k \in Nat : m.pending[r] = <<n, k>> /\ k < m.drawn
    /\ \A r, q \in Uuids : m.pending[r] # None /\ m.pending[r] = m.pending[q] => r = q

LEMMA NewNodeNonces == ASSUME NEW n, NEW k PROVE OwnNonces(n, NewNode(k))
BY DEF OwnNonces, NewNode, Empty

(* What a call of react does to the nonces. *)
LEMMA PendingEffect ==
    ASSUME NEW s \in State, NEW n, NEW m \in NodeMemory, NEW r \in Uuids
    PROVE  LET after == MemoryAfter(s, n, m)
           IN  \/ r \in Committing(s, n, m) /\ after.pending[r] = FreshNonces(s, n, m, r)
               \/ /\ r \notin Committing(s, n, m)
                  /\ r \in ToShare(s, n, m) \cap Reached(s, n, m)
                  /\ after.pending[r] = None
               \/ /\ r \notin Committing(s, n, m)
                  /\ r \notin ToShare(s, n, m) \cap Reached(s, n, m)
                  /\ after.pending[r] = m.pending[r]
BY DEF MemoryAfter, PendingAfter

LEMMA ReactNonces ==
    ASSUME NEW s \in State, NEW n, NEW m \in NodeMemory, OwnNonces(n, m)
    PROVE  OwnNonces(n, MemoryAfter(s, n, m)) /\ m.drawn <= MemoryAfter(s, n, m).drawn
<1> DEFINE after == MemoryAfter(s, n, m)
           C == Committing(s, n, m)
           N == Cardinality(C)
           F(r) == FreshNonces(s, n, m, r)
<1>1. /\ N \in Nat
      /\ \A r \in C : \E k \in Nat : F(r) = <<n, k>> /\ m.drawn <= k /\ k < m.drawn + N
      /\ \A r, q \in C : F(r) = F(q) => r = q
  BY FreshDraws
<1>2. m.drawn \in Nat /\ after.drawn = m.drawn + N
  BY DEF NodeMemory, MemoryAfter
<1>3. \A r \in Uuids : after.pending[r] # None =>
         \/ r \in C /\ after.pending[r] = F(r)
         \/ r \notin C /\ after.pending[r] = m.pending[r]
  BY PendingEffect
<1> HIDE DEF after, C, N, F
<1>4. \A r \in Uuids : m.pending[r] # None =>
         \E k \in Nat : m.pending[r] = <<n, k>> /\ k < m.drawn
  BY DEF OwnNonces
<1>5. ASSUME NEW r \in Uuids, after.pending[r] # None
      PROVE  \E k \in Nat : after.pending[r] = <<n, k>> /\ k < after.drawn
  <2>1. CASE r \in C /\ after.pending[r] = F(r)
    BY <1>1, <1>2, <2>1
  <2>2. CASE after.pending[r] = m.pending[r]
    <3>1. PICK k \in Nat : m.pending[r] = <<n, k>> /\ k < m.drawn
      BY <1>4, <1>5, <2>2
    <3>2. k < m.drawn + N
      BY <1>1, <1>2, <3>1
    <3> QED BY <1>2, <2>2, <3>1, <3>2
  <2> QED BY <1>3, <1>5, <2>1, <2>2
<1>6. ASSUME NEW r \in C, NEW q \in Uuids, m.pending[q] # None PROVE F(r) # m.pending[q]
  <2>1. PICK k \in Nat : F(r) = <<n, k>> /\ m.drawn <= k
    BY <1>1
  <2>2. PICK l \in Nat : m.pending[q] = <<n, l>> /\ l < m.drawn
    BY <1>4, <1>6
  <2> QED BY <1>2, <2>1, <2>2
<1>7. ASSUME NEW r \in Uuids, NEW q \in Uuids, after.pending[r] # None,
             after.pending[r] = after.pending[q]
      PROVE  r = q
  <2>1. after.pending[q] # None
    BY <1>7
  <2> QED BY <1>1, <1>3, <1>6, <1>7, <2>1 DEF OwnNonces
<1>8. m.drawn <= after.drawn
  BY <1>1, <1>2
<1> QED BY <1>5, <1>7, <1>8 DEF OwnNonces, after

----------------------------------------------------------------------------
(* The nonces behind a commitment, in a node that has not been restarted.  *)

(* The node remembers its commitment d to r, and has its nonces until they *)
(* have made a share.                                                      *)
Holds(m, r, d) == r \in m.committed_requests /\ (r \in m.shared_requests \/ m.pending[r] = d)

(* A call of react that does not fail: what it marks, and what it keeps. *)
LEMMA ReactMarks ==
    ASSUME NEW s \in State, NEW n, NEW m \in NodeMemory, Failing(s, n, m) = {}
    PROVE  LET after == MemoryAfter(s, n, m)
           IN  /\ after.committed_requests =
                     m.committed_requests \cup CommitmentSeen(s, n) \cup ToCommit(s, n, m)
               /\ after.shared_requests =
                     m.shared_requests \cup ShareSeen(s, n) \cup ToShare(s, n, m)
<1>1. /\ Committing(s, n, m) = ToCommit(s, n, m) /\ Sharing(s, n, m) = ToShare(s, n, m)
      /\ Done(s, n, m) = Keys(s.requests)
  BY NoFailure
<1>2. CommitmentSeen(s, n) \subseteq Keys(s.requests) /\ ShareSeen(s, n) \subseteq Keys(s.requests)
  BY DEF CommitmentSeen, ShareSeen, InStatus
<1> QED BY <1>1, <1>2 DEF MemoryAfter, CommittedAfter, SharedAfter

LEMMA ReactHolds ==
    ASSUME NEW s \in State, NEW n, NEW m \in NodeMemory, Failing(s, n, m) = {},
           NEW r \in Uuids, NEW d
    PROVE  /\ Holds(m, r, d) => Holds(MemoryAfter(s, n, m), r, d)
           /\ r \in ToCommit(s, n, m) => Holds(MemoryAfter(s, n, m), r, FreshNonces(s, n, m, r))
<1> DEFINE after == MemoryAfter(s, n, m)
<1>1. /\ after.committed_requests =
            m.committed_requests \cup CommitmentSeen(s, n) \cup ToCommit(s, n, m)
      /\ after.shared_requests = m.shared_requests \cup ShareSeen(s, n) \cup ToShare(s, n, m)
  BY ReactMarks
<1>2. Committing(s, n, m) = ToCommit(s, n, m)
  BY NoFailure
<1>3. \/ r \in ToCommit(s, n, m) /\ after.pending[r] = FreshNonces(s, n, m, r)
      \/ r \notin ToCommit(s, n, m) /\ r \in ToShare(s, n, m)
      \/ r \notin ToCommit(s, n, m) /\ after.pending[r] = m.pending[r]
  BY <1>2, PendingEffect
<1>4. r \in ToCommit(s, n, m) => r \notin m.committed_requests
  BY DEF ToCommit
<1> HIDE DEF after
<1> QED BY <1>1, <1>3, <1>4 DEF Holds, after

(* Commitments on the chain are held by their senders; mem[v] is the       *)
(* memory of node v.                                                       *)
HeldEntry(mem, r, e) ==
    /\ e.status.tag = "AwaitingCommitments" =>
          \A v \in Keys(e.status.commitments) : Holds(mem[v], r, e.status.commitments[v])
    /\ e.status.tag = "Signing" =>
          \A v \in Keys(e.status.signing_package.commitments) :
              Holds(mem[v], r, e.status.signing_package.commitments[v])

HeldIn(mem, s) == \A r \in Keys(s.requests) : HeldEntry(mem, r, s.requests[r])

LEMMA CommitmentHeld ==
    ASSUME NEW mem, NEW s \in State, NEW tx \in Tx, tx.type = "SubmitCommitment", Accepts(s, tx),
           HeldEntry(mem, tx.request_id, s.requests[tx.request_id]),
           Holds(mem[tx.validator], tx.request_id, tx.commitments)
    PROVE  HeldEntry(mem, tx.request_id, apply_tx(s, tx).requests[tx.request_id])
<1> DEFINE r == tx.request_id
           e == s.requests[r]
           f == apply_tx(s, tx).requests[r]
           map == CommitmentsWith(s, tx)
<1>1. /\ e.status.tag = "AwaitingCommitments"
      /\ Keys(map) = Keys(e.status.commitments) \cup {tx.validator}
      /\ map[tx.validator] = tx.commitments
      /\ \A w \in Keys(e.status.commitments) : map[w] = e.status.commitments[w]
      /\ \/ f.status = [tag |-> "AwaitingCommitments", commitments |-> map]
         \/ CutFrom(f.status, map, e.message)
  BY CommitmentEffect
<1>2. \A w \in Keys(map) : Holds(mem[w], r, map[w])
  BY <1>1 DEF HeldEntry
<1> HIDE DEF f, map, e
<1>3. CASE f.status = [tag |-> "AwaitingCommitments", commitments |-> map]
  <2>1. f.status.tag = "AwaitingCommitments" /\ f.status.commitments = map
    BY <1>3
  <2> QED BY <1>2, <2>1 DEF HeldEntry, f
<1>4. CASE CutFrom(f.status, map, e.message)
  <2>1. PICK chosen \in SUBSET Keys(map), cut \in Map(Ids, Draw) :
          /\ f.status = Cut(chosen, cut, e.message) /\ Keys(cut) = chosen
          /\ \A w \in chosen : cut[w] = map[w]
    BY <1>4 DEF CutFrom
  <2>2. f.status.tag = "Signing" /\ f.status.signing_package.commitments = cut
    BY <2>1 DEF Cut
  <2> QED BY <1>2, <2>1, <2>2 DEF HeldEntry, f
<1> QED BY <1>1, <1>3, <1>4

LEMMA ShareHeld ==
    ASSUME NEW mem, NEW s \in State, NEW tx \in Tx, tx.type = "SubmitShare", Accepts(s, tx),
           HeldEntry(mem, tx.request_id, s.requests[tx.request_id])
    PROVE  HeldEntry(mem, tx.request_id, apply_tx(s, tx).requests[tx.request_id])
<1> DEFINE r == tx.request_id
           e == s.requests[r]
           f == apply_tx(s, tx).requests[r]
<1>1. /\ e.status.tag = "Signing"
      /\ \/ f.status.tag = "Signing" /\ f.status.signing_package = e.status.signing_package
         \/ f.status.tag \in {"Completed", "Failed"}
  <2> DEFINE good == aggregate_ok(e.status.signing_package, SharesWith(s, tx), s.group.pkp, e.randomizer)
  <2>1. /\ e.status.tag = "Signing"
        /\ \/ f.status = [tag |-> "Signing", signing_package |-> e.status.signing_package,
                          participants |-> e.status.participants, shares |-> SharesWith(s, tx)]
           \/ good /\ f.status =
                [tag |-> "Completed", participants |-> e.status.participants,
                 signature |-> [message |-> e.status.signing_package.message,
                                randomizer |-> e.randomizer, pkp |-> s.group.pkp]]
           \/ ~good /\ f.status = [tag |-> "Failed"]
    BY ShareEffect
  <2> HIDE DEF good, f, e
  <2> QED BY <2>1
<1> HIDE DEF f, e
<1>2. HeldEntry(mem, r, e)
  BY DEF e
<1>3. HeldEntry(mem, r, f)
  BY <1>1, <1>2 DEF HeldEntry
<1> QED BY <1>3 DEF f

(* A transaction keeps the commitments on the chain held. *)
LEMMA ApplyHeld ==
    ASSUME NEW mem, NEW s \in State, NEW tx \in Tx, Accepts(s, tx), HonestTx(s, tx), HeldIn(mem, s),
           tx.type = "SubmitCommitment" => Holds(mem[tx.validator], tx.request_id, tx.commitments)
    PROVE  HeldIn(mem, apply_tx(s, tx))
<1> DEFINE t == apply_tx(s, tx)
           r == tx.request_id
<1>1. CASE tx.type = "InitGroup"
  <2>1. t.requests = s.requests
    BY <1>1, Frame
  <2> HIDE DEF t
  <2> QED BY <2>1 DEF HeldIn, t
<1>2. CASE tx.type # "InitGroup"
  <2>1. tx.type \in {"SubmitRequest", "SubmitCommitment", "SubmitShare"}
    BY <1>2 DEF HonestTx
  <2>2. Keys(t.requests) = Keys(s.requests) \cup {r} /\ SameBut(s, t, {r})
    BY <2>1, OneRequest
  <2>3. HeldEntry(mem, r, t.requests[r])
    <3>1. CASE tx.type = "SubmitRequest"
      <4>1. t.requests[r] =
              [message |-> tx.message, randomizer |-> tx.randomizer,
               status |-> [tag |-> "AwaitingCommitments", commitments |-> Empty(Ids)]]
        BY <3>1, RequestEffect
      <4>2. /\ t.requests[r].status.tag = "AwaitingCommitments"
            /\ Keys(t.requests[r].status.commitments) = {}
        BY <4>1, EmptyKeys
      <4> HIDE DEF t
      <4> QED BY <4>2 DEF HeldEntry
    <3>2. CASE tx.type = "SubmitCommitment"
      <4>1. r \in Keys(s.requests)
        BY <3>2, CommitmentEffect
      <4> QED BY <3>2, <4>1, CommitmentHeld DEF HeldIn
    <3>3. CASE tx.type = "SubmitShare"
      <4>1. r \in Keys(s.requests)
        BY <3>3, ShareEffect
      <4> QED BY <3>3, <4>1, ShareHeld DEF HeldIn
    <3> QED BY <2>1, <3>1, <3>2, <3>3
  <2> HIDE DEF t, r
  <2> QED BY <2>2, <2>3 DEF SameBut, HeldIn, t
<1> QED BY <1>1, <1>2

(* When a node remembers what it holds nonces for, and the commitments on  *)
(* the chain are held, react does not fail.                                *)
LEMMA HeldNoFailure ==
    ASSUME NEW mem, NEW s \in State, CutIsExact(s), HeldIn(mem, s), NEW n,
           \A r \in Uuids : mem[n].pending[r] # None => r \in mem[n].committed_requests
    PROVE  Failing(s, n, mem[n]) = {}
<1> DEFINE m == mem[n]
<1>1. ASSUME NEW r \in SessionInUse(s, n, m) PROVE FALSE
  <2>1. r \in ToCommit(s, n, m) /\ m.pending[r] # None /\ r \notin m.committed_requests
    BY DEF SessionInUse, ToCommit
  <2>2. r \in Uuids
    BY <2>1, ReactSets, StateParts
  <2> QED BY <2>1, <2>2
<1>2. ASSUME NEW r \in IncorrectCommitment(s, n, m) PROVE FALSE
  <2> DEFINE e == s.requests[r]
  <2>1. /\ r \in Keys(s.requests) /\ e.status.tag = "Signing" /\ n \in e.status.participants
        /\ r \notin m.shared_requests
        /\ m.pending[r] # e.status.signing_package.commitments[n]
    BY ReactSets DEF IncorrectCommitment, ToShare
  <2>2. n \in Keys(e.status.signing_package.commitments)
    BY <2>1 DEF CutIsExact, EntryExact
  <2>3. Holds(m, r, e.status.signing_package.commitments[n])
    BY <2>1, <2>2 DEF HeldIn, HeldEntry
  <2> QED BY <2>1, <2>3 DEF Holds
<1> QED BY <1>1, <1>2 DEF Failing
=============================================================================
