--------------------------- MODULE ReplicasProofs ---------------------------
(***************************************************************************)
(* Replicas without consensus: whatever order transactions arrive in, and  *)
(* whichever of them are lost, everything a replica holds was made by the  *)
(* validator whose name it carries, and no validator makes two commitments *)
(* or two shares for one request.  That is enough for two replicas to      *)
(* agree on a completed request when any two sets of threshold validators  *)
(* meet.                                                                   *)
(***************************************************************************)
EXTENDS Replicas, NodeProofs

----------------------------------------------------------------------------
(* Where the parts of a replica come from.  M[v] is the set of the         *)
(* transactions validator v has made, S the set of the shares ever         *)
(* computed.                                                               *)

CommitmentTx(r, v, d) ==
    [type |-> "SubmitCommitment", request_id |-> r, validator |-> v, commitments |-> d]

ShareTx(r, v, share) ==
    [type |-> "SubmitShare", request_id |-> r, validator |-> v, share |-> share]

(* A package over threshold commitments that their validators have made. *)
PackageOf(M, r, package) ==
    /\ package \in SigningPackage
    /\ package.message = Requests[r].message
    /\ Cardinality(Keys(package.commitments)) = Params.threshold
    /\ \A v \in Keys(package.commitments) :
          v \in Nodes /\ CommitmentTx(r, v, package.commitments[v]) \in M[v]

(* A share that aggregates over its own package. *)
ShareOver(r, v, share) ==
    /\ v \in Keys(share.signing_package.commitments)
    /\ share = [nonces |-> share.signing_package.commitments[v],
                signing_package |-> share.signing_package,
                randomizer |-> Requests[r].randomizer, pkp |-> GroupKey]

(* All of P have signed one package that is P's. *)
AllSigned(M, r, P) ==
    \E package \in SigningPackage :
        /\ PackageOf(M, r, package)
        /\ Keys(package.commitments) = P
        /\ \A v \in P : \E share \in SignatureShare :
              share.signing_package = package /\ ShareTx(r, v, share) \in M[v]

(* Two validators have signed different packages for r. *)
TwoPackages(S, r) ==
    \E a, b \in S : /\ a.request = r /\ b.request = r
                    /\ a.validator # b.validator
                    /\ a.share.signing_package # b.share.signing_package

StatusTraced(M, S, r, st) ==
    /\ st.tag = "AwaitingCommitments" =>
          \A v \in Keys(st.commitments) : v \in Nodes /\ CommitmentTx(r, v, st.commitments[v]) \in M[v]
    /\ st.tag = "Signing" =>
          /\ PackageOf(M, r, st.signing_package)
          /\ \A v \in Keys(st.shares) : v \in Nodes /\ ShareTx(r, v, st.shares[v]) \in M[v]
    /\ st.tag = "Completed" => AllSigned(M, r, st.participants)
    /\ st.tag = "Failed" => TwoPackages(S, r)

EntryTraced(M, S, r, e) ==
    /\ e.message = Requests[r].message
    /\ e.randomizer = Requests[r].randomizer
    /\ StatusTraced(M, S, r, e.status)

(* The group every validator starts with. *)
TheGroup == [params |-> Params, pkp |-> GroupKey, validators |-> Keys(GroupKey)]

StateTraced(M, S, s) ==
    /\ s.group = TheGroup
    /\ s.ceremony = None
    /\ CutIsExact(s)
    /\ \A r \in Keys(s.requests) : EntryTraced(M, S, r, s.requests[r])

(* What validator v makes. *)
TxTraced(M, S, v, tx) ==
    /\ tx.type \in {"SubmitRequest", "SubmitCommitment", "SubmitShare"}
    /\ tx.type = "SubmitRequest" =>
          /\ tx.message = Requests[tx.request_id].message
          /\ tx.randomizer = Requests[tx.request_id].randomizer
    /\ tx.type = "SubmitCommitment" =>
          tx.validator = v /\ Requests[tx.request_id].message \in Approves[v]
    /\ tx.type = "SubmitShare" =>
          /\ tx.validator = v
          /\ SignedBy(v, tx.request_id, tx.share) \in S
          /\ ShareOver(tx.request_id, v, tx.share)
          /\ PackageOf(M, tx.request_id, tx.share.signing_package)

(* One commitment and one share for each request. *)
MadeOnce(M) ==
    \A v \in Nodes : \A a, b \in M[v] :
        a.type = b.type /\ a.type # "SubmitRequest" /\ a.request_id = b.request_id => a = b

AllTraced(M, S) == \A v \in Nodes : \A tx \in M[v] : tx \in Tx /\ TxTraced(M, S, v, tx)

----------------------------------------------------------------------------
(* Nothing of this is lost when more is made.                              *)

LEMMA PackageStays ==
    ASSUME NEW M, NEW N, \A v \in Nodes : M[v] \subseteq N[v], NEW r, NEW package, PackageOf(M, r, package)
    PROVE  PackageOf(N, r, package)
BY DEF PackageOf

LEMMA SignedStays ==
    ASSUME NEW M, NEW N, \A v \in Nodes : M[v] \subseteq N[v], NEW r, NEW P, AllSigned(M, r, P)
    PROVE  AllSigned(N, r, P)
<1>1. PICK package \in SigningPackage :
        /\ PackageOf(M, r, package)
        /\ Keys(package.commitments) = P
        /\ \A v \in P : \E share \in SignatureShare :
              share.signing_package = package /\ ShareTx(r, v, share) \in M[v]
  BY DEF AllSigned
<1>2. PackageOf(N, r, package)
  BY <1>1, PackageStays
<1>3. \A v \in P : v \in Nodes
  BY <1>1 DEF PackageOf
<1>4. \A v \in P : \E share \in SignatureShare :
         share.signing_package = package /\ ShareTx(r, v, share) \in N[v]
  BY <1>1, <1>3
<1> QED BY <1>1, <1>2, <1>4 DEF AllSigned

LEMMA StateStays ==
    ASSUME NEW M, NEW N, \A v \in Nodes : M[v] \subseteq N[v], NEW S, NEW T, S \subseteq T,
           NEW s, StateTraced(M, S, s)
    PROVE  StateTraced(N, T, s)
<1>1. ASSUME NEW r, NEW st, StatusTraced(M, S, r, st) PROVE StatusTraced(N, T, r, st)
  <2>1. /\ st.tag = "Signing" => PackageOf(N, r, st.signing_package)
        /\ st.tag = "Completed" => AllSigned(N, r, st.participants)
    BY <1>1, PackageStays, SignedStays DEF StatusTraced
  <2>2. st.tag = "Failed" => TwoPackages(T, r)
    BY <1>1 DEF StatusTraced, TwoPackages
  <2> QED BY <1>1, <2>1, <2>2 DEF StatusTraced
<1> QED BY <1>1 DEF StateTraced, EntryTraced

LEMMA TxStays ==
    ASSUME NEW M, NEW N, \A v \in Nodes : M[v] \subseteq N[v], NEW S, NEW T, S \subseteq T,
           NEW v, NEW tx, TxTraced(M, S, v, tx)
    PROVE  TxTraced(N, T, v, tx)
BY PackageStays DEF TxTraced

----------------------------------------------------------------------------
(* A replica that applies what a validator has made.                       *)

(* The request is closed by the share that makes them complete. *)
LEMMA ShareCloses ==
    ASSUME NEW s \in State, NEW tx \in Tx, tx.type = "SubmitShare", Accepts(s, tx), CutIsExact(s),
           apply_tx(s, tx).requests[tx.request_id].status.tag \in {"Completed", "Failed"}
    PROVE  Keys(SharesWith(s, tx)) = s.requests[tx.request_id].status.participants
<1> DEFINE r == tx.request_id
           e == s.requests[r]
           old == e.status
           shares == SharesWith(s, tx)
           st == AfterShare(e, s.group, shares)
<1>1. /\ r \in Keys(s.requests) /\ old.tag = "Signing" /\ tx.validator \in old.participants
      /\ Keys(shares) = Keys(old.shares) \cup {tx.validator}
  BY ShareEffect
<1>2. e \in RequestEntry /\ old \in RequestStatus
  BY <1>1, StateParts DEF RequestEntry
<1>3. old.participants \subseteq Ids /\ Keys(old.shares) \subseteq old.participants
  BY <1>1, <1>2, StatusFields DEF CutIsExact, EntryExact
<1>4. IsFiniteSet(old.participants) /\ Keys(shares) \subseteq old.participants
  BY <1>1, <1>3, IdsAssumption, FS_Subset
<1>5. apply_tx(s, tx).requests[r].status = st
  BY ShareStatus
<1>6. st.tag \in {"Completed", "Failed"}
  BY <1>5
<1>7. old = [tag |-> "Signing", signing_package |-> old.signing_package,
             participants |-> old.participants, shares |-> old.shares]
  BY <1>1, <1>2, StatusFields
<1>8. Cardinality(Keys(shares)) = Cardinality(old.participants)
  <2> HIDE DEF shares, old
  <2>1. [old EXCEPT !.shares = shares].tag = "Signing"
    BY <1>7
  <2> QED BY <1>6, <2>1 DEF AfterShare, st, old
<1> QED BY <1>4, <1>8, FS_Subset

(* The commitment of a validator. *)
LEMMA CommitmentTraced ==
    ASSUME NEW M, NEW S, NEW s \in State, NEW tx \in Tx, tx.type = "SubmitCommitment",
           Accepts(s, tx), StateTraced(M, S, s), CutIsExact(apply_tx(s, tx)),
           tx.validator \in Nodes, tx \in M[tx.validator]
    PROVE  EntryTraced(M, S, tx.request_id, apply_tx(s, tx).requests[tx.request_id])
<1> DEFINE t == apply_tx(s, tx)
           r == tx.request_id
           v == tx.validator
           e == s.requests[r]
           f == t.requests[r]
           map == CommitmentsWith(s, tx)
<1>1. /\ r \in Keys(s.requests) /\ e.status.tag = "AwaitingCommitments"
      /\ Keys(map) = Keys(e.status.commitments) \cup {v}
      /\ map[v] = tx.commitments
      /\ \A w \in Keys(e.status.commitments) : map[w] = e.status.commitments[w]
      /\ Keys(t.requests) = Keys(s.requests) /\ t.group = s.group
      /\ f.message = e.message /\ f.randomizer = e.randomizer
      /\ \/ f.status = [tag |-> "AwaitingCommitments", commitments |-> map]
         \/ CutFrom(f.status, map, e.message)
  BY CommitmentEffect
<1>2. EntryTraced(M, S, r, e)
  BY <1>1 DEF StateTraced
<1>3. tx = CommitmentTx(r, v, tx.commitments)
  BY DEF Tx, CommitmentTx
<1>4. r \in Keys(t.requests) /\ EntryExact(f, t.group) /\ t.group = TheGroup
  BY <1>1 DEF CutIsExact, StateTraced
<1>5. t \in State
  BY ApplyTyped
<1> HIDE DEF map, t, f, e, v
<1>6. \A w \in Keys(map) : w \in Nodes /\ CommitmentTx(r, w, map[w]) \in M[w]
  BY <1>1, <1>2, <1>3 DEF EntryTraced, StatusTraced, v
<1>7. CASE f.status = [tag |-> "AwaitingCommitments", commitments |-> map]
  <2>1. StatusTraced(M, S, r, f.status)
    BY <1>6, <1>7 DEF StatusTraced
  <2> QED BY <1>1, <1>2, <2>1 DEF EntryTraced, f, t
<1>8. CASE CutFrom(f.status, map, e.message)
  <2>1. PICK chosen \in SUBSET Keys(map), cut \in Map(Ids, Draw) :
           /\ f.status = Cut(chosen, cut, e.message)
           /\ Keys(cut) = chosen
           /\ \A w \in chosen : cut[w] = map[w]
    BY <1>8 DEF CutFrom
  <2> DEFINE package == [commitments |-> cut, message |-> e.message]
  <2>2. /\ f.status.tag = "Signing" /\ f.status.signing_package = package
        /\ f.status.participants = chosen /\ f.status.shares = Empty(Ids)
    BY <2>1 DEF Cut
  <2>3. Cardinality(chosen) = Params.threshold
    BY <1>4, <2>2 DEF EntryExact, TheGroup
  <2>4. package \in SigningPackage
    <3>1. f \in RequestEntry
      BY <1>4, <1>5, StateParts DEF f
    <3>2. f.status \in RequestStatus
      BY <3>1 DEF RequestEntry
    <3> QED BY <2>2, <3>2, StatusFields
  <2>5. PackageOf(M, r, package)
    BY <1>2, <1>6, <2>1, <2>3, <2>4 DEF PackageOf, EntryTraced
  <2>6. StatusTraced(M, S, r, f.status)
    BY <2>2, <2>5, EmptyKeys DEF StatusTraced
  <2> QED BY <1>1, <1>2, <2>6 DEF EntryTraced, f, t
<1> QED BY <1>1, <1>7, <1>8

(* Two packages that the same validators have committed to are the same,   *)
(* as nobody commits twice.                                                *)
LEMMA SamePackage ==
    ASSUME NEW M, MadeOnce(M), NEW r, NEW p, NEW q, PackageOf(M, r, p), PackageOf(M, r, q),
           Keys(p.commitments) \subseteq Keys(q.commitments)
    PROVE  p = q
<1>1. /\ p \in SigningPackage /\ q \in SigningPackage /\ p.message = q.message
      /\ Cardinality(Keys(p.commitments)) = Cardinality(Keys(q.commitments))
  BY DEF PackageOf
<1>2. p.commitments \in Map(Ids, Draw) /\ q.commitments \in Map(Ids, Draw)
  BY <1>1 DEF SigningPackage
<1>3. IsFiniteSet(Keys(q.commitments))
  BY <1>2, KeysFinite
<1>4. Keys(p.commitments) = Keys(q.commitments)
  BY <1>1, <1>3, FS_Subset
<1>5. ASSUME NEW v \in Keys(p.commitments) PROVE p.commitments[v] = q.commitments[v]
  <2> DEFINE a == CommitmentTx(r, v, p.commitments[v])
             b == CommitmentTx(r, v, q.commitments[v])
  <2>1. v \in Nodes /\ a \in M[v] /\ b \in M[v]
    BY <1>4 DEF PackageOf
  <2>2. /\ a.type = "SubmitCommitment" /\ b.type = "SubmitCommitment"
        /\ a.request_id = r /\ b.request_id = r
        /\ a.commitments = p.commitments[v] /\ b.commitments = q.commitments[v]
    BY DEF CommitmentTx
  <2> HIDE DEF a, b
  <2>3. a = b
    BY <2>1, <2>2 DEF MadeOnce
  <2> QED BY <2>2, <2>3
<1>6. \A v \in Ids : p.commitments[v] = q.commitments[v]
  BY <1>2, <1>4, <1>5 DEF Map, Keys
<1>7. p.commitments = q.commitments
  BY <1>2, <1>6 DEF Map
<1> QED BY <1>1, <1>7 DEF SigningPackage

(* Aggregation of shares made by the participants fails only if two of     *)
(* them have signed different packages.                                    *)
LEMMA BadShares ==
    ASSUME NEW M, NEW S, AllTraced(M, S), MadeOnce(M), NEW r, NEW package, PackageOf(M, r, package),
           Keys(package.commitments) \subseteq Keys(GroupKey),
           NEW shares, Keys(shares) = Keys(package.commitments),
           \A v \in Keys(shares) : v \in Nodes /\ ShareTx(r, v, shares[v]) \in M[v],
           ~aggregate_ok(package, shares, GroupKey, Requests[r].randomizer)
    PROVE  TwoPackages(S, r)
<1>1. ASSUME NEW v \in Keys(shares)
      PROVE  /\ SignedBy(v, r, shares[v]) \in S /\ ShareOver(r, v, shares[v])
             /\ PackageOf(M, r, shares[v].signing_package)
  <2> DEFINE tx == ShareTx(r, v, shares[v])
  <2>1. v \in Nodes /\ tx \in M[v] /\ TxTraced(M, S, v, tx)
    BY DEF AllTraced
  <2>2. tx.type = "SubmitShare" /\ tx.request_id = r /\ tx.share = shares[v]
    BY DEF ShareTx
  <2> HIDE DEF tx
  <2> QED BY <2>1, <2>2 DEF TxTraced
<1>2. PICK v \in Keys(shares) :
         shares[v] # [nonces |-> package.commitments[v], signing_package |-> package,
                      randomizer |-> Requests[r].randomizer, pkp |-> GroupKey]
  BY DEF aggregate_ok
<1> DEFINE q == shares[v].signing_package
<1>3. q # package
  BY <1>1, <1>2 DEF ShareOver
<1>4. ~(Keys(package.commitments) \subseteq Keys(q.commitments))
  BY <1>1, <1>3, SamePackage
<1>5. PICK w \in Keys(shares) : w \notin Keys(q.commitments)
  BY <1>4
<1>6. shares[w].signing_package # q /\ v # w
  BY <1>1, <1>5 DEF ShareOver
<1>7. SignedBy(v, r, shares[v]) \in S /\ SignedBy(w, r, shares[w]) \in S
  BY <1>1
<1> QED BY <1>6, <1>7 DEF TwoPackages, SignedBy

(* The share of a validator. *)
LEMMA ShareTraced ==
    ASSUME NEW M, NEW S, AllTraced(M, S), MadeOnce(M),
           NEW s \in State, NEW tx \in Tx, tx.type = "SubmitShare",
           Accepts(s, tx), StateTraced(M, S, s), tx.validator \in Nodes, tx \in M[tx.validator]
    PROVE  EntryTraced(M, S, tx.request_id, apply_tx(s, tx).requests[tx.request_id])
<1> DEFINE t == apply_tx(s, tx)
           r == tx.request_id
           v == tx.validator
           e == s.requests[r]
           f == t.requests[r]
           package == e.status.signing_package
           shares == SharesWith(s, tx)
           good == aggregate_ok(package, shares, s.group.pkp, e.randomizer)
<1>1. /\ r \in Keys(s.requests) /\ e.status.tag = "Signing"
      /\ Keys(shares) = Keys(e.status.shares) \cup {v}
      /\ shares[v] = tx.share
      /\ \A w \in Keys(e.status.shares) : shares[w] = e.status.shares[w]
      /\ f.message = e.message /\ f.randomizer = e.randomizer
      /\ \/ f.status = [tag |-> "Signing", signing_package |-> package,
                        participants |-> e.status.participants, shares |-> shares]
         \/ good /\ f.status =
              [tag |-> "Completed", participants |-> e.status.participants,
               signature |-> [message |-> package.message,
                              randomizer |-> e.randomizer, pkp |-> s.group.pkp]]
         \/ ~good /\ f.status = [tag |-> "Failed"]
  BY ShareEffect
<1>2. EntryTraced(M, S, r, e) /\ EntryExact(e, s.group) /\ s.group = TheGroup
  BY <1>1 DEF StateTraced, CutIsExact
<1>3. tx = ShareTx(r, v, tx.share) /\ tx.share \in SignatureShare
  BY DEF Tx, ShareTx
<1>4. f.status.tag \in {"Completed", "Failed"} => Keys(shares) = e.status.participants
  BY ShareCloses DEF StateTraced
<1>5. e \in RequestEntry
  BY <1>1, StateParts
<1>6. e.status.shares \in Map(Ids, SignatureShare)
  BY <1>1, <1>5, StatusFields DEF RequestEntry
<1>7. \A w \in Keys(e.status.shares) : e.status.shares[w] \in SignatureShare
  BY <1>6, KeysTyped
<1> HIDE DEF shares, t, f, e, v, good, package
<1>8. \A w \in Keys(shares) :
         w \in Nodes /\ shares[w] \in SignatureShare /\ ShareTx(r, w, shares[w]) \in M[w]
  BY <1>1, <1>2, <1>3, <1>7 DEF EntryTraced, StatusTraced, v
<1>9. /\ PackageOf(M, r, package) /\ Keys(package.commitments) = e.status.participants
      /\ e.status.participants \subseteq Keys(GroupKey) /\ package \in SigningPackage
      /\ s.group.pkp = GroupKey /\ e.randomizer = Requests[r].randomizer
  BY <1>1, <1>2 DEF EntryTraced, StatusTraced, EntryExact, TheGroup, package, PackageOf
<1>10. StatusTraced(M, S, r, f.status)
  <2>1. CASE f.status = [tag |-> "Signing", signing_package |-> package,
                         participants |-> e.status.participants, shares |-> shares]
    BY <1>8, <1>9, <2>1 DEF StatusTraced
  <2>2. CASE good /\ f.status =
              [tag |-> "Completed", participants |-> e.status.participants,
               signature |-> [message |-> package.message,
                              randomizer |-> e.randomizer, pkp |-> s.group.pkp]]
    <3>1. f.status.tag = "Completed" /\ f.status.participants = e.status.participants
      BY <2>2
    <3>2. Keys(shares) = e.status.participants
      BY <1>4, <3>1
    <3>3. aggregate_ok(package, shares, s.group.pkp, e.randomizer)
      BY <2>2 DEF good
    <3>4. ASSUME NEW w \in Keys(shares) PROVE shares[w].signing_package = package
      <4>1. shares[w] = [nonces |-> package.commitments[w], signing_package |-> package,
                         randomizer |-> e.randomizer, pkp |-> s.group.pkp]
        BY <3>3, Zenon DEF aggregate_ok
      <4> QED BY <4>1
    <3>5. AllSigned(M, r, e.status.participants)
      BY <1>8, <1>9, <3>2, <3>4 DEF AllSigned
    <3> QED BY <3>1, <3>5 DEF StatusTraced
  <2>3. CASE ~good /\ f.status = [tag |-> "Failed"]
    <3>1. f.status.tag = "Failed"
      BY <2>3
    <3>2. Keys(shares) = Keys(package.commitments)
      BY <1>4, <1>9, <3>1
    <3>3. ~aggregate_ok(package, shares, GroupKey, Requests[r].randomizer)
      BY <1>9, <2>3 DEF good
    <3>4. TwoPackages(S, r)
      BY <1>8, <1>9, <3>2, <3>3, BadShares
    <3> QED BY <3>1, <3>4 DEF StatusTraced
  <2> QED BY <1>1, <2>1, <2>2, <2>3
<1> QED BY <1>1, <1>2, <1>10 DEF EntryTraced, f, t

(* A replica applies a transaction that validator v has made. *)
LEMMA DeliverTraced ==
    ASSUME NEW M, NEW S, AllTraced(M, S), MadeOnce(M), NEW s \in State, StateTraced(M, S, s),
           NEW v \in Nodes, NEW tx \in M[v]
    PROVE  /\ Deliver1(s, tx) \in State
           /\ StateTraced(M, S, Deliver1(s, tx))
           /\ Keys(Deliver1(s, tx).requests) \subseteq Keys(s.requests) \cup {tx.request_id}
           /\ tx.type # "SubmitRequest" => Keys(Deliver1(s, tx).requests) = Keys(s.requests)
<1>1. CASE ~Accepts(s, tx)
  BY <1>1 DEF Deliver1
<1>2. CASE Accepts(s, tx)
  <2> DEFINE t == apply_tx(s, tx)
             r == tx.request_id
  <2>1. /\ tx \in Tx /\ TxTraced(M, S, v, tx)
        /\ tx.type \in {"SubmitRequest", "SubmitCommitment", "SubmitShare"}
    BY DEF AllTraced, TxTraced
  <2>2. t \in State /\ t.group = s.group /\ t.ceremony = s.ceremony
    BY <1>2, <2>1, ApplyTyped, Frame
  <2>3. CutIsExact(t)
    <3>1. OneGroup(s) /\ CutIsExact(s)
      <4>1. s.ceremony = None /\ s.group = TheGroup /\ CutIsExact(s)
        BY DEF StateTraced
      <4>2. TheGroup \in GroupConfig
        BY NodeAssumption, ReplicasAssumption, KeysTyped DEF TheGroup, GroupConfig, PublicKeyPackage
      <4> QED BY <4>1, <4>2, NoneAssumption DEF OneGroup
    <3> QED BY <1>2, <2>1, <3>1, ApplyCut
  <2>4. /\ r \in Uuids /\ Keys(t.requests) = Keys(s.requests) \cup {r} /\ SameBut(s, t, {r})
        /\ tx.type = "SubmitRequest" <=> r \notin Keys(s.requests)
    BY <1>2, <2>1, OneRequest
  <2>5. EntryTraced(M, S, r, t.requests[r])
    <3>1. CASE tx.type = "SubmitRequest"
      <4> DEFINE f == t.requests[r]
      <4>1. f = [message |-> tx.message, randomizer |-> tx.randomizer,
                 status |-> [tag |-> "AwaitingCommitments", commitments |-> Empty(Ids)]]
        BY <1>2, <2>1, <3>1, RequestEffect
      <4> HIDE DEF f
      <4>2. f.message = tx.message /\ f.randomizer = tx.randomizer
            /\ f.status.tag = "AwaitingCommitments" /\ f.status.commitments = Empty(Ids)
        BY <4>1
      <4>3. StatusTraced(M, S, r, f.status)
        BY <4>2, EmptyKeys DEF StatusTraced
      <4> QED BY <2>1, <3>1, <4>2, <4>3 DEF TxTraced, EntryTraced, f
    <3>2. CASE tx.type = "SubmitCommitment"
      <4>1. tx.validator \in Nodes /\ tx \in M[tx.validator]
        BY <2>1, <3>2 DEF TxTraced
      <4> QED BY <1>2, <2>1, <2>3, <3>2, <4>1, CommitmentTraced
    <3>3. CASE tx.type = "SubmitShare"
      <4>1. tx.validator \in Nodes /\ tx \in M[tx.validator]
        BY <2>1, <3>3 DEF TxTraced
      <4> QED BY <1>2, <2>1, <3>3, <4>1, ShareTraced
    <3> QED BY <2>1, <3>1, <3>2, <3>3
  <2> HIDE DEF t, r
  <2>6. \A q \in Keys(t.requests) : EntryTraced(M, S, q, t.requests[q])
    BY <2>4, <2>5 DEF SameBut, StateTraced
  <2>7. StateTraced(M, S, t)
    BY <2>2, <2>3, <2>6 DEF StateTraced
  <2>8. Deliver1(s, tx) = t
    BY <1>2 DEF Deliver1, t
  <2> QED BY <2>2, <2>4, <2>7, <2>8 DEF r
<1> QED BY <1>1, <1>2

----------------------------------------------------------------------------
(* The invariant.                                                          *)

(* What validator n has made: broadcast already, or still to be. *)
Made == [n \in Nodes |-> ToSet(sent[n]) \cup ToSet(outbox[n])]

(* Its node remembers that. *)
Marked(m, tx) ==
    /\ tx.type = "SubmitCommitment" => tx.request_id \in m.committed_requests
    /\ tx.type = "SubmitShare" => tx.request_id \in m.shared_requests

RepInv ==
    /\ ReplicasTypeOK
    /\ AllTraced(Made, signed)
    /\ MadeOnce(Made)
    /\ \A n \in Nodes : StateTraced(Made, signed, replica[n])
    /\ \A l \in Links : ToSet(links[l]) \subseteq ToSet(sent[l[1]])
    /\ \A n \in Nodes : \A tx \in Made[n] : Marked(nodes[n], tx)
    /\ \A n \in Nodes : \A tx \in Made[n] : tx.type = "SubmitRequest" => tx.request_id \in submitted
    /\ \A n \in Nodes : Keys(replica[n].requests) \subseteq submitted

LEMMA NodesTyped == Nodes \subseteq Ids /\ \A n \in Nodes : n \in DOMAIN Approves
BY ReplicasAssumption DEF Nodes

(* LossyFifo's senders are the validators. *)
LEMMA SendersAreNodes == Net!Senders = Nodes
<1>1. \A n \in Nodes : \E l \in Links : l[1] = n
  <2> TAKE n \in Nodes
  <2>1. PICK m \in Nodes : m # n
    BY ReplicasAssumption
  <2>2. <<n, m>> \in Links
    BY <2>1 DEF Links
  <2> QED BY <2>2
<1>2. \A l \in Links : l[1] \in Nodes /\ l[2] \in Nodes
  BY DEF Links
<1> QED BY <1>1, <1>2 DEF Net!Senders

LEMMA LinkEnds == ASSUME NEW l \in Links PROVE l[1] \in Nodes /\ l[2] \in Nodes /\ l = <<l[1], l[2]>>
BY DEF Links

LEMMA InitRep == Init => RepInv
<1> SUFFICES ASSUME Init PROVE RepInv
  OBVIOUS
<1> DEFINE s0 == [DefaultState EXCEPT !.group = TheGroup]
<1>1. /\ replica = [n \in Nodes |-> s0] /\ outbox = [n \in Nodes |-> <<>>]
      /\ links = [l \in Links |-> <<>>] /\ sent = [n \in Nodes |-> <<>>]
      /\ losses = 0 /\ nodes = [n \in Nodes |-> NewNode(0)] /\ submitted = {} /\ signed = {}
  BY SendersAreNodes DEF Init, Net!Init, TheGroup
<1>2. TheGroup \in GroupConfig
  BY NodeAssumption, ReplicasAssumption, KeysTyped DEF TheGroup, GroupConfig, PublicKeyPackage
<1>3. s0 \in State /\ s0.group = TheGroup /\ s0.ceremony = None /\ Keys(s0.requests) = {}
  BY <1>2, DefaultTyped, EmptyKeys DEF DefaultState, State
<1> HIDE DEF s0
<1>4. ReplicasTypeOK
  BY <1>1, <1>3, ReplicasAssumption, NewNodeTyped DEF ReplicasTypeOK
<1>5. \A n \in Nodes : Made[n] = {}
  BY <1>1 DEF Made, ToSet
<1>6. \A n \in Nodes : StateTraced(Made, signed, replica[n]) /\ Keys(replica[n].requests) = {}
  BY <1>1, <1>3 DEF StateTraced, CutIsExact
<1>7. \A l \in Links : ToSet(links[l]) = {}
  BY <1>1 DEF ToSet
<1> QED BY <1>4, <1>5, <1>6, <1>7 DEF RepInv, AllTraced, MadeOnce

(* Mesh::broadcast, and the broadcaster's own application of tx. *)
LEMMA OriginateEffect ==
    ASSUME ReplicasTypeOK, \A l \in Links : ToSet(links[l]) \subseteq ToSet(sent[l[1]]),
           NEW n \in Nodes, NEW tx \in Tx, Originate(n, tx)
    PROVE  /\ replica' = [replica EXCEPT ![n] = Deliver1(replica[n], tx)]
           /\ sent' \in [Nodes -> Seq(Tx)] /\ links' \in [Links -> Seq(Tx)]
           /\ \A l \in Links : ToSet(links'[l]) \subseteq ToSet(sent'[l[1]])
           /\ ToSet(sent'[n]) = ToSet(sent[n]) \cup {tx}
           /\ \A m \in Nodes : m # n => sent'[m] = sent[m]
<1>1. /\ replica' = [replica EXCEPT ![n] = Deliver1(@, tx)]
      /\ sent' = [sent EXCEPT ![n] = @ \o <<tx>>]
      /\ links' = [l \in Links |-> IF l[1] = n /\ l[2] \in Nodes THEN links[l] \o <<tx>> ELSE links[l]]
  BY DEF Originate, Net!Send
<1>2. sent \in [Nodes -> Seq(Tx)] /\ links \in [Links -> Seq(Tx)]
  BY DEF ReplicasTypeOK
<1>3. sent' \in [Nodes -> Seq(Tx)] /\ links' \in [Links -> Seq(Tx)]
  BY <1>1, <1>2
<1>4. ToSet(sent'[n]) = ToSet(sent[n]) \cup {tx}
  <2>1. sent'[n] = sent[n] \o <<tx>> /\ sent[n] \in Seq(Tx)
    BY <1>1, <1>2
  <2> QED BY <2>1, ToSetAppend
<1>5. \A m \in Nodes : m # n => sent'[m] = sent[m]
  BY <1>1, <1>2
<1>6. ASSUME NEW l \in Links PROVE ToSet(links'[l]) \subseteq ToSet(sent'[l[1]])
  <2>1. l[1] \in Nodes /\ l[2] \in Nodes
    BY LinkEnds
  <2>2. CASE l[1] = n
    <3>1. links'[l] = links[l] \o <<tx>> /\ links[l] \in Seq(Tx)
      BY <1>1, <1>2, <2>1, <2>2
    <3>2. ToSet(links'[l]) = ToSet(links[l]) \cup {tx}
      BY <3>1, ToSetAppend
    <3> QED BY <1>4, <2>2, <3>2
  <2>3. CASE l[1] # n
    BY <1>1, <1>5, <2>1, <2>3
  <2> QED BY <2>2, <2>3
<1> QED BY <1>1, <1>3, <1>4, <1>5, <1>6

(* One more transaction, tx, made by n and applied by it: a request. *)
LEMMA SubmitRequestRep ==
    ASSUME RepInv, NEW n \in Nodes, NEW r \in Uuids, SubmitRequest(n, r)
    PROVE  RepInv'
<1> DEFINE tx == [type |-> "SubmitRequest", request_id |-> r,
                  message |-> Requests[r].message, randomizer |-> Requests[r].randomizer]
<1>1. tx \in Tx /\ TxTraced(Made', signed, n, tx) /\ tx.type = "SubmitRequest" /\ tx.request_id = r
  BY ReplicasAssumption DEF Tx, TxTraced
<1>2. /\ Originate(n, tx) /\ submitted' = submitted \cup {r}
      /\ outbox' = outbox /\ losses' = losses /\ nodes' = nodes /\ signed' = signed
  BY DEF SubmitRequest
<1> HIDE DEF tx
<1>3. /\ replica' = [replica EXCEPT ![n] = Deliver1(replica[n], tx)]
      /\ sent' \in [Nodes -> Seq(Tx)] /\ links' \in [Links -> Seq(Tx)]
      /\ \A l \in Links : ToSet(links'[l]) \subseteq ToSet(sent'[l[1]])
      /\ ToSet(sent'[n]) = ToSet(sent[n]) \cup {tx}
      /\ \A m \in Nodes : m # n => sent'[m] = sent[m]
  BY <1>1, <1>2, OriginateEffect DEF RepInv
<1>4. Made'[n] = Made[n] \cup {tx} /\ \A m \in Nodes : m # n => Made'[m] = Made[m]
  BY <1>2, <1>3 DEF Made
<1>5. \A m \in Nodes : Made[m] \subseteq Made'[m]
  BY <1>4
<1>6. AllTraced(Made', signed)
  <2>1. \A m \in Nodes : \A o \in Made[m] : o \in Tx /\ TxTraced(Made', signed, m, o)
    BY <1>5, TxStays DEF RepInv, AllTraced
  <2> QED BY <1>1, <1>4, <2>1 DEF AllTraced
<1>7. MadeOnce(Made')
  BY <1>1, <1>4 DEF RepInv, MadeOnce
<1>8. \A m \in Nodes : replica[m] \in State /\ StateTraced(Made', signed, replica[m])
  BY <1>5, StateStays DEF RepInv, ReplicasTypeOK
<1>9. /\ Deliver1(replica[n], tx) \in State /\ StateTraced(Made', signed, Deliver1(replica[n], tx))
      /\ Keys(Deliver1(replica[n], tx).requests) \subseteq Keys(replica[n].requests) \cup {r}
  BY <1>1, <1>4, <1>6, <1>7, <1>8, DeliverTraced
<1>10. replica \in [Nodes -> State] /\ replica' \in [Nodes -> State]
  BY <1>3, <1>9 DEF RepInv, ReplicasTypeOK
<1>11. \A m \in Nodes : StateTraced(Made', signed, replica'[m])
                        /\ Keys(replica'[m].requests) \subseteq submitted'
  BY <1>2, <1>3, <1>8, <1>9, <1>10 DEF RepInv
<1>12. ReplicasTypeOK'
  BY <1>2, <1>3, <1>10 DEF RepInv, ReplicasTypeOK
<1>13. \A m \in Nodes : \A o \in Made'[m] :
          Marked(nodes[m], o) /\ (o.type = "SubmitRequest" => o.request_id \in submitted')
  BY <1>1, <1>2, <1>4 DEF RepInv, Marked
<1> QED BY <1>2, <1>3, <1>6, <1>7, <1>11, <1>12, <1>13 DEF RepInv

(* The caller's loop broadcasts and applies what react has returned. *)
LEMMA PostRep ==
    ASSUME RepInv, NEW n \in Nodes, Post(n)
    PROVE  RepInv'
<1> DEFINE tx == Head(outbox[n])
<1>1. /\ outbox[n] # <<>> /\ Originate(n, tx)
      /\ outbox' = [outbox EXCEPT ![n] = Tail(outbox[n])]
      /\ losses' = losses /\ nodes' = nodes /\ submitted' = submitted /\ signed' = signed
  BY DEF Post
<1>2. outbox \in [Nodes -> Seq(Tx)] /\ outbox[n] \in Seq(Tx)
  BY DEF RepInv, ReplicasTypeOK
<1>3. tx \in Tx /\ Tail(outbox[n]) \in Seq(Tx) /\ ToSet(outbox[n]) = {tx} \cup ToSet(Tail(outbox[n]))
  BY <1>1, <1>2, ToSetTail
<1> HIDE DEF tx
<1>4. /\ replica' = [replica EXCEPT ![n] = Deliver1(replica[n], tx)]
      /\ sent' \in [Nodes -> Seq(Tx)] /\ links' \in [Links -> Seq(Tx)]
      /\ \A l \in Links : ToSet(links'[l]) \subseteq ToSet(sent'[l[1]])
      /\ ToSet(sent'[n]) = ToSet(sent[n]) \cup {tx}
      /\ \A m \in Nodes : m # n => sent'[m] = sent[m]
  BY <1>1, <1>3, OriginateEffect DEF RepInv
<1>5. /\ outbox' \in [Nodes -> Seq(Tx)] /\ outbox'[n] = Tail(outbox[n])
      /\ \A m \in Nodes : m # n => outbox'[m] = outbox[m]
  BY <1>1, <1>2, <1>3
<1>6. \A m \in Nodes : Made'[m] = Made[m]
  BY <1>3, <1>4, <1>5 DEF Made
<1>7. Made' = Made
  BY <1>6 DEF Made
<1>8. tx \in Made[n]
  BY <1>3 DEF Made
<1>9. \A m \in Nodes : replica[m] \in State /\ StateTraced(Made, signed, replica[m])
  BY DEF RepInv, ReplicasTypeOK
<1>10. /\ Deliver1(replica[n], tx) \in State /\ StateTraced(Made, signed, Deliver1(replica[n], tx))
       /\ Keys(Deliver1(replica[n], tx).requests) \subseteq Keys(replica[n].requests) \cup {tx.request_id}
       /\ tx.type # "SubmitRequest" => Keys(Deliver1(replica[n], tx).requests) = Keys(replica[n].requests)
  BY <1>8, <1>9, DeliverTraced DEF RepInv
<1>11. Keys(Deliver1(replica[n], tx).requests) \subseteq submitted
  BY <1>8, <1>10 DEF RepInv
<1>12. replica \in [Nodes -> State] /\ replica' \in [Nodes -> State]
  BY <1>4, <1>10 DEF RepInv, ReplicasTypeOK
<1>13. \A m \in Nodes : StateTraced(Made, signed, replica'[m]) /\ Keys(replica'[m].requests) \subseteq submitted
  BY <1>4, <1>9, <1>10, <1>11, <1>12 DEF RepInv
<1>14. ReplicasTypeOK'
  BY <1>1, <1>4, <1>5, <1>12 DEF RepInv, ReplicasTypeOK
<1> QED BY <1>1, <1>4, <1>7, <1>13, <1>14 DEF RepInv

(* A frame arrives and is applied. *)
LEMMA ReceiveRep ==
    ASSUME RepInv, NEW l \in Links, Receive(l[1], l[2])
    PROVE  RepInv'
<1> DEFINE n == l[2]
           tx == Head(links[l])
<1>1. l[1] \in Nodes /\ n \in Nodes /\ l = <<l[1], l[2]>>
  BY LinkEnds
<1>2. /\ links[l] # <<>> /\ sent' = sent /\ links' = [links EXCEPT ![l] = Tail(links[l])]
      /\ replica' = [replica EXCEPT ![n] = Deliver1(replica[n], tx)]
      /\ outbox' = outbox /\ losses' = losses /\ nodes' = nodes /\ submitted' = submitted /\ signed' = signed
  BY <1>1 DEF Receive, Net!Deliver
<1>3. links \in [Links -> Seq(Tx)] /\ links[l] \in Seq(Tx)
  BY DEF RepInv, ReplicasTypeOK
<1>4. tx \in Tx /\ Tail(links[l]) \in Seq(Tx) /\ ToSet(links[l]) = {tx} \cup ToSet(Tail(links[l]))
  BY <1>2, <1>3, ToSetTail
<1> HIDE DEF tx, n
<1>5. /\ links' \in [Links -> Seq(Tx)] /\ links'[l] = Tail(links[l])
      /\ \A k \in Links : k # l => links'[k] = links[k]
  BY <1>2, <1>3, <1>4
<1>6. \A k \in Links : ToSet(links'[k]) \subseteq ToSet(sent[k[1]])
  BY <1>4, <1>5 DEF RepInv
<1>7. tx \in Made[l[1]]
  BY <1>1, <1>4 DEF Made, RepInv
<1>8. Made' = Made
  BY <1>2 DEF Made
<1>9. \A m \in Nodes : replica[m] \in State /\ StateTraced(Made, signed, replica[m])
  BY DEF RepInv, ReplicasTypeOK
<1>10. /\ Deliver1(replica[n], tx) \in State /\ StateTraced(Made, signed, Deliver1(replica[n], tx))
       /\ Keys(Deliver1(replica[n], tx).requests) \subseteq Keys(replica[n].requests) \cup {tx.request_id}
       /\ tx.type # "SubmitRequest" => Keys(Deliver1(replica[n], tx).requests) = Keys(replica[n].requests)
  BY <1>1, <1>7, <1>9, DeliverTraced DEF RepInv
<1>11. Keys(Deliver1(replica[n], tx).requests) \subseteq submitted
  BY <1>1, <1>7, <1>10 DEF RepInv
<1>12. replica \in [Nodes -> State] /\ replica' \in [Nodes -> State]
  BY <1>1, <1>2, <1>10 DEF RepInv, ReplicasTypeOK
<1>13. \A m \in Nodes : StateTraced(Made, signed, replica'[m]) /\ Keys(replica'[m].requests) \subseteq submitted
  BY <1>1, <1>2, <1>9, <1>10, <1>11, <1>12 DEF RepInv
<1>14. ReplicasTypeOK'
  BY <1>2, <1>5, <1>12 DEF RepInv, ReplicasTypeOK
<1> QED BY <1>2, <1>6, <1>8, <1>13, <1>14 DEF RepInv

(* The mesh loses a frame. *)
LEMMA LoseRep ==
    ASSUME RepInv, NEW l \in Links, Lose(l[1], l[2])
    PROVE  RepInv'
<1>1. l = <<l[1], l[2]>>
  BY LinkEnds
<1>2. /\ losses < MaxLosses /\ losses' = losses + 1 /\ replica' = replica /\ outbox' = outbox
      /\ nodes' = nodes /\ submitted' = submitted /\ signed' = signed /\ sent' = sent
      /\ \A k \in Links : Net!Remains(links'[k], links[k])
      /\ \E i \in DOMAIN links[l] : links' = [links EXCEPT ![l] = RemoveAt(@, i)]
  BY <1>1 DEF Lose, Net!Lose
<1>3. PICK i \in DOMAIN links[l] : links' = [links EXCEPT ![l] = RemoveAt(links[l], i)]
  BY <1>2
<1>4. links \in [Links -> Seq(Tx)] /\ links[l] \in Seq(Tx)
  BY DEF RepInv, ReplicasTypeOK
<1>5. RemoveAt(links[l], i) \in Seq(Tx)
  BY <1>4 DEF RemoveAt
<1>6. links' \in [Links -> Seq(Tx)]
  BY <1>3, <1>4, <1>5
<1>7. ASSUME NEW k \in Links PROVE ToSet(links'[k]) \subseteq ToSet(sent[k[1]])
  <2>1. PICK f \in [DOMAIN links'[k] -> DOMAIN links[k]] :
           \A j \in DOMAIN links'[k] : links'[k][j] = links[k][f[j]]
    BY <1>2 DEF Net!Remains
  <2>2. \A j \in DOMAIN links'[k] : links'[k][j] \in ToSet(links[k])
    BY <2>1 DEF ToSet
  <2>3. ToSet(links'[k]) \subseteq ToSet(links[k])
    BY <2>2 DEF ToSet
  <2> QED BY <2>3 DEF RepInv
<1>8. losses' \in 0 .. MaxLosses
  BY <1>2, ReplicasAssumption DEF RepInv, ReplicasTypeOK
<1>9. Made' = Made
  BY <1>2 DEF Made
<1>10. ReplicasTypeOK'
  BY <1>2, <1>6, <1>8 DEF RepInv, ReplicasTypeOK
<1> QED BY <1>2, <1>7, <1>9, <1>10 DEF RepInv

(* The shares a call of react computes. *)
NewShares(s, n, m) == {SignedBy(n, r, ShareFor(s, n, m, r)) : r \in Sharing(s, n, m)}

(* A transaction of the call: made for a request that the memory m had not *)
(* marked, and that it marks.                                              *)
NewTx(M, T, s, n, m, tx) ==
    /\ tx.type \in {"SubmitCommitment", "SubmitShare"}
    /\ TxTraced(M, T, n, tx)
    /\ tx.type = "SubmitCommitment" =>
          tx.request_id \in MemoryAfter(s, n, m).committed_requests \ m.committed_requests
    /\ tx.type = "SubmitShare" =>
          tx.request_id \in MemoryAfter(s, n, m).shared_requests \ m.shared_requests
    /\ tx = TxFor(s, n, m, tx.request_id)

LEMMA OutTraced ==
    ASSUME NEW M, NEW S, NEW s \in State, StateTraced(M, S, s), NEW n \in Nodes, NEW m \in NodeMemory,
           NEW T, T = S \cup NewShares(s, n, m), NEW tx \in ToSet(Out(s, n, m))
    PROVE  NewTx(M, T, s, n, m, tx)
<1> DEFINE after == MemoryAfter(s, n, m)
<1>1. Failing(s, n, m) = {}
  BY OutSet
<1>2. PICK r \in ToCommit(s, n, m) \cup ToShare(s, n, m) : tx = TxFor(s, n, m, r)
  BY OutSet
<1>3. /\ after.committed_requests =
            m.committed_requests \cup CommitmentSeen(s, n) \cup ToCommit(s, n, m)
      /\ after.shared_requests = m.shared_requests \cup ShareSeen(s, n) \cup ToShare(s, n, m)
      /\ Sharing(s, n, m) = ToShare(s, n, m)
  BY <1>1, ReactMarks, NoFailure
<1>4. /\ r \in Keys(s.requests) /\ EntryTraced(M, S, r, s.requests[r]) /\ EntryExact(s.requests[r], s.group)
  BY ReactSets DEF StateTraced, CutIsExact
<1>5. CASE r \in ToCommit(s, n, m)
  <2>1. tx = CommitmentTx(r, n, FreshNonces(s, n, m, r))
    BY <1>2, <1>5 DEF TxFor, CommitmentTx
  <2>2. tx.type = "SubmitCommitment" /\ tx.request_id = r /\ tx.validator = n
    BY <2>1 DEF CommitmentTx
  <2>3. r \notin m.committed_requests /\ s.requests[r].message \in Approves[n]
    BY <1>5 DEF ToCommit
  <2>4. TxTraced(M, T, n, tx)
    BY <1>4, <2>2, <2>3 DEF TxTraced, EntryTraced
  <2> HIDE DEF after
  <2> QED BY <1>2, <1>3, <1>5, <2>2, <2>3, <2>4 DEF after, NewTx
<1>6. CASE r \notin ToCommit(s, n, m)
  <2> DEFINE share == ShareFor(s, n, m, r)
             package == s.requests[r].status.signing_package
  <2>1. tx.type = "SubmitShare" /\ tx.request_id = r /\ tx.validator = n /\ tx.share = share
    BY <1>2, <1>6 DEF TxFor
  <2>2. r \in ToShare(s, n, m) /\ r \notin IncorrectCommitment(s, n, m)
    BY <1>1, <1>2, <1>6 DEF Failing
  <2>3. /\ s.requests[r].status.tag = "Signing" /\ n \in s.requests[r].status.participants
        /\ r \notin m.shared_requests /\ m.pending[r] = package.commitments[n]
    BY <2>2, ReactSets DEF ToShare, IncorrectCommitment
  <2>4. /\ PackageOf(M, r, package) /\ n \in Keys(package.commitments)
        /\ s.requests[r].randomizer = Requests[r].randomizer
    BY <1>4, <2>3 DEF EntryTraced, StatusTraced, EntryExact
  <2>5. /\ share = [nonces |-> package.commitments[n], signing_package |-> package,
                    randomizer |-> Requests[r].randomizer, pkp |-> GroupKey]
        /\ share.signing_package = package
    BY <2>3, <2>4 DEF ShareFor
  <2>6. SignedBy(n, r, share) \in T
    BY <1>3, <2>2 DEF NewShares
  <2> HIDE DEF share, package, after
  <2>7. ShareOver(r, n, share)
    BY <2>4, <2>5 DEF ShareOver
  <2>8. TxTraced(M, T, n, tx)
    BY <2>1, <2>4, <2>5, <2>6, <2>7 DEF TxTraced
  <2> QED BY <1>2, <1>3, <2>1, <2>2, <2>3, <2>8 DEF after, NewTx
<1> QED BY <1>5, <1>6

(* Marks are never taken back. *)
LEMMA MarksStay ==
    ASSUME NEW s, NEW n, NEW m, NEW tx, Marked(m, tx)
    PROVE  Marked(MemoryAfter(s, n, m), tx)
BY DEF Marked, MemoryAfter, CommittedAfter, SharedAfter

(* A node reacts to its replica. *)
LEMMA ReactRep ==
    ASSUME RepInv, NEW n \in Nodes, React(n)
    PROVE  RepInv'
<1> DEFINE s == replica[n]
           m == nodes[n]
           out == Out(s, n, m)
           after == MemoryAfter(s, n, m)
           made == NewShares(s, n, m)
<1>1. /\ outbox[n] = <<>> /\ outbox' = [outbox EXCEPT ![n] = out]
      /\ nodes' = [nodes EXCEPT ![n] = after] /\ signed' = signed \cup made
      /\ replica' = replica /\ links' = links /\ sent' = sent /\ losses' = losses
      /\ submitted' = submitted
  BY DEF React, NewShares
<1>2. /\ s \in State /\ m \in NodeMemory /\ n \in Ids /\ outbox \in [Nodes -> Seq(Tx)]
      /\ nodes \in [Nodes -> NodeMemory] /\ StateTraced(Made, signed, s)
  BY NodesTyped DEF RepInv, ReplicasTypeOK
<1>3. out \in Seq(Tx) /\ after \in NodeMemory
  BY <1>2, OutTyped, MemoryAfterTyped
<1>4. \A r \in Sharing(s, n, m) : ShareFor(s, n, m, r) \in SignatureShare
  BY <1>2, ReactSets, ShareForTyped
<1>5. \A tx \in ToSet(out) : NewTx(Made, signed', s, n, m, tx)
  BY <1>1, <1>2, OutTraced
<1>6. \A tx \in ToSet(out) : tx \in Tx
  BY <1>3 DEF ToSet
<1>7. \A tx : Marked(m, tx) => Marked(after, tx)
  BY MarksStay
<1>8. /\ signed' \subseteq [validator : Nodes, request : Uuids, share : SignatureShare]
      /\ signed \subseteq signed'
  <2>1. \A r \in Sharing(s, n, m) : r \in Uuids
    BY <1>2, ReactSets, StateParts
  <2>2. made \subseteq [validator : Nodes, request : Uuids, share : SignatureShare]
    BY <1>4, <2>1 DEF NewShares, SignedBy
  <2> QED BY <1>1, <2>2 DEF RepInv, ReplicasTypeOK
<1> HIDE DEF out, after, made, s, m
<1>9. /\ outbox' \in [Nodes -> Seq(Tx)] /\ outbox'[n] = out
      /\ \A k \in Nodes : k # n => outbox'[k] = outbox[k]
      /\ nodes' \in [Nodes -> NodeMemory] /\ nodes'[n] = after
      /\ \A k \in Nodes : k # n => nodes'[k] = nodes[k]
  BY <1>1, <1>2, <1>3
<1>10. ToSet(outbox[n]) = {}
  BY <1>1 DEF ToSet
<1>11. Made'[n] = Made[n] \cup ToSet(out) /\ \A k \in Nodes : k # n => Made'[k] = Made[k]
  BY <1>1, <1>9, <1>10 DEF Made
<1>12. \A k \in Nodes : Made[k] \subseteq Made'[k]
  BY <1>11
<1>13. AllTraced(Made', signed')
  <2>1. \A k \in Nodes : \A tx \in Made[k] : tx \in Tx /\ TxTraced(Made', signed', k, tx)
    BY <1>8, <1>12, TxStays DEF RepInv, AllTraced
  <2>2. \A tx \in ToSet(out) : tx \in Tx /\ TxTraced(Made', signed', n, tx)
    BY <1>5, <1>6, <1>12, TxStays DEF NewTx
  <2> QED BY <1>11, <2>1, <2>2 DEF AllTraced
<1>14. \A tx \in Made[n] : Marked(m, tx)
  BY DEF RepInv, m
<1>15. MadeOnce(Made')
  <2> SUFFICES ASSUME NEW k \in Nodes, NEW a \in Made'[k], NEW b \in Made'[k],
                      a.type = b.type, a.type # "SubmitRequest", a.request_id = b.request_id
               PROVE  a = b
    BY DEF MadeOnce
  <2>1. CASE a \in Made[k] /\ b \in Made[k]
    BY <2>1 DEF RepInv, MadeOnce
  <2>2. CASE k = n /\ a \in ToSet(out) /\ b \in ToSet(out)
    BY <1>5, <2>2 DEF NewTx
  <2>3. CASE k = n /\ a \in Made[n] /\ b \in ToSet(out)
    BY <1>5, <1>14, <2>3 DEF Marked, NewTx
  <2>4. CASE k = n /\ b \in Made[n] /\ a \in ToSet(out)
    BY <1>5, <1>14, <2>4 DEF Marked, NewTx
  <2> QED BY <1>11, <2>1, <2>2, <2>3, <2>4
<1>16. \A k \in Nodes : StateTraced(Made', signed', replica[k])
  BY <1>8, <1>12, StateStays DEF RepInv
<1>17. \A k \in Nodes : \A tx \in Made'[k] : Marked(nodes'[k], tx)
  <2>1. \A tx \in ToSet(out) : Marked(after, tx)
    BY <1>5 DEF Marked, NewTx, after
  <2>2. \A k \in Nodes : \A tx \in Made[k] : Marked(nodes[k], tx)
    BY DEF RepInv
  <2> QED BY <1>7, <1>9, <1>11, <1>14, <2>1, <2>2
<1>18. \A k \in Nodes : \A tx \in Made'[k] : tx.type = "SubmitRequest" => tx.request_id \in submitted
  BY <1>5, <1>11 DEF RepInv, NewTx
<1>19. ReplicasTypeOK'
  BY <1>1, <1>8, <1>9 DEF RepInv, ReplicasTypeOK
<1> QED BY <1>1, <1>13, <1>15, <1>16, <1>17, <1>18, <1>19 DEF RepInv

LEMMA NextRep == RepInv /\ [Next]_vars => RepInv'
<1> SUFFICES ASSUME RepInv, [Next]_vars PROVE RepInv'
  OBVIOUS
<1>1. CASE \E n \in Nodes, r \in Uuids : SubmitRequest(n, r)
  BY <1>1, SubmitRequestRep
<1>2. CASE \E n \in Nodes : React(n) \/ Post(n)
  BY <1>2, ReactRep, PostRep
<1>3. CASE \E l \in Links : Receive(l[1], l[2]) \/ Lose(l[1], l[2])
  BY <1>3, ReceiveRep, LoseRep
<1>4. CASE UNCHANGED vars
  BY <1>4 DEF vars, RepInv, ReplicasTypeOK, Made
<1> QED BY <1>1, <1>2, <1>3, <1>4 DEF Next

----------------------------------------------------------------------------
(* The theorems.                                                           *)

(* Everything on a replica, in a link or in an outbox was made by the      *)
(* validator whose name it carries, once (apply_tx on every replica,       *)
(* Node::react, Mesh::broadcast).                                          *)
THEOREM ReplicasInvariant == Spec => []RepInv
BY InitRep, NextRep, PTL DEF Spec

(* Replicas, links and memories keep their types. *)
THEOREM ReplicasTyped == Spec => []ReplicasTypeOK
<1>1. RepInv => ReplicasTypeOK
  BY DEF RepInv
<1> QED BY <1>1, ReplicasInvariant, PTL

----------------------------------------------------------------------------
(* Completed requests.                                                     *)

DoneAt(s, r) == r \in Keys(s.requests) /\ s.requests[r].status.tag = "Completed"

(* What the service promises of a request that P has signed. *)
Promise(r, P) ==
    [participants |-> P,
     signature |-> [message |-> Requests[r].message, randomizer |-> Requests[r].randomizer,
                    pkp |-> GroupKey]]

LEMMA CompletedFields ==
    ASSUME NEW st \in RequestStatus, st.tag = "Completed"
    PROVE  st = [tag |-> "Completed", participants |-> st.participants, signature |-> st.signature]
BY DEF RequestStatus

(* Those who signed a completed request: threshold validators, all of whom *)
(* approve.                                                                *)
LEMMA DonePromised ==
    ASSUME RepInv, NEW n \in Nodes, NEW r, DoneAt(replica[n], r)
    PROVE  LET st == replica[n].requests[r].status
               P == st.participants
           IN  /\ r \in Uuids /\ r \in submitted /\ AllSigned(Made, r, P)
               /\ P \subseteq Nodes /\ Cardinality(P) = Params.threshold
               /\ \A v \in P : Requests[r].message \in Approves[v]
               /\ st = [tag |-> "Completed", participants |-> P,
                        signature |-> Promise(r, P).signature]
<1> DEFINE e == replica[n].requests[r]
           st == e.status
           P == st.participants
<1>1. /\ replica[n] \in State /\ StateTraced(Made, signed, replica[n]) /\ r \in submitted
      /\ r \in Keys(replica[n].requests) /\ st.tag = "Completed"
  BY DEF RepInv, ReplicasTypeOK, DoneAt
<1>2. r \in Uuids /\ e \in RequestEntry
  BY <1>1, StateParts
<1>3. /\ EntryTraced(Made, signed, r, e) /\ EntryExact(e, replica[n].group) /\ replica[n].group = TheGroup
  BY <1>1 DEF StateTraced, CutIsExact
<1>4. st \in RequestStatus
  BY <1>2 DEF RequestEntry
<1> HIDE DEF e
<1>5. AllSigned(Made, r, P)
  BY <1>1, <1>3 DEF EntryTraced, StatusTraced
<1>6. /\ Cardinality(P) = Params.threshold
      /\ st.signature = [message |-> Requests[r].message, randomizer |-> Requests[r].randomizer,
                         pkp |-> GroupKey]
  BY <1>1, <1>3 DEF EntryExact, TheGroup, EntryTraced
<1>7. PICK package \in SigningPackage : PackageOf(Made, r, package) /\ Keys(package.commitments) = P
  BY <1>5 DEF AllSigned
<1>8. ASSUME NEW v \in P PROVE v \in Nodes /\ Requests[r].message \in Approves[v]
  <2> DEFINE tx == CommitmentTx(r, v, package.commitments[v])
  <2>1. v \in Nodes /\ tx \in Made[v]
    BY <1>7 DEF PackageOf
  <2>2. tx.type = "SubmitCommitment" /\ tx.request_id = r
    BY DEF CommitmentTx
  <2> HIDE DEF tx
  <2>3. TxTraced(Made, signed, v, tx)
    BY <2>1 DEF RepInv, AllTraced
  <2> QED BY <2>1, <2>2, <2>3 DEF TxTraced
<1>9. st = [tag |-> "Completed", participants |-> P, signature |-> st.signature]
  BY <1>1, <1>4, CompletedFields
<1>10. st = [tag |-> "Completed", participants |-> P, signature |-> Promise(r, P).signature]
  BY <1>6, <1>9 DEF Promise
<1> QED BY <1>1, <1>2, <1>5, <1>6, <1>8, <1>10 DEF e

(* One set of signers: the validator in two of them has made one share,    *)
(* over one package.                                                       *)
LEMMA SignedOnce ==
    ASSUME QuorumsMeet, NEW M, MadeOnce(M), NEW r, NEW P, NEW Q, AllSigned(M, r, P), AllSigned(M, r, Q)
    PROVE  P = Q
<1>1. PICK p \in SigningPackage :
        /\ PackageOf(M, r, p)
        /\ Keys(p.commitments) = P
        /\ \A v \in P : \E share \in SignatureShare :
              share.signing_package = p /\ ShareTx(r, v, share) \in M[v]
  BY DEF AllSigned
<1>2. PICK q \in SigningPackage :
        /\ PackageOf(M, r, q)
        /\ Keys(q.commitments) = Q
        /\ \A v \in Q : \E share \in SignatureShare :
              share.signing_package = q /\ ShareTx(r, v, share) \in M[v]
  BY DEF AllSigned
<1>3. /\ P \subseteq Nodes /\ Cardinality(P) = Params.threshold
      /\ Q \subseteq Nodes /\ Cardinality(Q) = Params.threshold
  BY <1>1, <1>2 DEF PackageOf
<1>4. PICK v \in P : v \in Q
  BY <1>3 DEF QuorumsMeet
<1>5. PICK a \in SignatureShare : a.signing_package = p /\ ShareTx(r, v, a) \in M[v]
  BY <1>1
<1>6. PICK b \in SignatureShare : b.signing_package = q /\ ShareTx(r, v, b) \in M[v]
  BY <1>2, <1>4
<1>7. ShareTx(r, v, a) = ShareTx(r, v, b)
  <2> DEFINE x == ShareTx(r, v, a)
             y == ShareTx(r, v, b)
  <2>1. x.type = "SubmitShare" /\ y.type = "SubmitShare" /\ x.request_id = r /\ y.request_id = r
    BY DEF ShareTx
  <2>2. v \in Nodes /\ x \in M[v] /\ y \in M[v]
    BY <1>3, <1>5, <1>6
  <2> HIDE DEF x, y
  <2>3. x = y
    BY <2>1, <2>2 DEF MadeOnce
  <2> QED BY <2>3 DEF x, y
<1>8. a = b
  BY <1>7 DEF ShareTx
<1> QED BY <1>1, <1>2, <1>5, <1>6, <1>8

LEMMA Agreement ==
    ASSUME QuorumsMeet, RepInv, NEW m \in Nodes, NEW n \in Nodes, NEW r,
           DoneAt(replica[m], r), DoneAt(replica[n], r)
    PROVE  replica[m].requests[r].status = replica[n].requests[r].status
<1> DEFINE a == replica[m].requests[r].status
           b == replica[n].requests[r].status
<1>1. /\ AllSigned(Made, r, a.participants)
      /\ a = [tag |-> "Completed", participants |-> a.participants,
              signature |-> Promise(r, a.participants).signature]
  BY DonePromised
<1>2. /\ AllSigned(Made, r, b.participants)
      /\ b = [tag |-> "Completed", participants |-> b.participants,
              signature |-> Promise(r, b.participants).signature]
  BY DonePromised
<1> HIDE DEF a, b
<1>3. a.participants = b.participants
  BY <1>1, <1>2, SignedOnce DEF RepInv
<1>4. a = b
  BY <1>1, <1>2, <1>3
<1> QED BY <1>4 DEF a, b

AgreeIfTheyMeet == QuorumsMeet => CompletedAgree

LEMMA AgreementInvariant == RepInv => AgreeIfTheyMeet
BY Agreement DEF AgreeIfTheyMeet, CompletedAgree, DoneAt

(* If any two sets of threshold validators meet, no two replicas ever show *)
(* different outcomes of one request, whatever was lost or reordered on    *)
(* the way (apply_tx, Node::react).                                        *)
THEOREM ReplicasCompletedAgree ==
    ASSUME QuorumsMeet
    PROVE  Spec => []CompletedAgree
<1>1. RepInv => CompletedAgree
  BY AgreementInvariant DEF AgreeIfTheyMeet
<1> QED BY <1>1, ReplicasInvariant, PTL

(* With any number of validators and any threshold, between honest         *)
(* validators a request fails only after two of them have signed different *)
(* packages for it (aggregate in apply_tx).                                *)
THEOREM ReplicasFailedOnlyByDivergence == Spec => []FailedOnlyByDivergence
<1>1. RepInv => FailedOnlyByDivergence
  <2> SUFFICES ASSUME RepInv, NEW n \in Nodes, NEW r \in Keys(replica[n].requests),
                      replica[n].requests[r].status.tag = "Failed"
               PROVE  TwoPackages(signed, r)
    BY DEF FailedOnlyByDivergence, TwoPackages
  <2> QED BY DEF RepInv, StateTraced, EntryTraced, StatusTraced
<1> QED BY <1>1, ReplicasInvariant, PTL

----------------------------------------------------------------------------
(* The refinement.                                                         *)

OutcomeOf(st) == [participants |-> st.participants, signature |-> st.signature]

(* The outcomes of r that somebody can see on the replicas R. *)
Seen(R, r) == {OutcomeOf(R[n].requests[r].status) : n \in {m \in Nodes : DoneAt(R[m], r)}}

Outcomes == [r \in Uuids |-> Seen(replica, r)]

(* A completed request stays as it is, and only a commitment or a share    *)
(* completes one: its own.                                                 *)
LEMMA ApplyDone ==
    ASSUME NEW s \in State, NEW tx \in Tx,
           tx.type \in {"SubmitRequest", "SubmitCommitment", "SubmitShare"}
    PROVE  /\ tx.request_id \in Uuids
           /\ \A q : DoneAt(s, q) =>
                 DoneAt(Deliver1(s, tx), q) /\ Deliver1(s, tx).requests[q] = s.requests[q]
           /\ \A q : DoneAt(Deliver1(s, tx), q) =>
                 DoneAt(s, q) \/ (q = tx.request_id /\ tx.type # "SubmitRequest")
<1>1. tx.request_id \in Uuids
  BY TxFields
<1>2. CASE ~Accepts(s, tx)
  BY <1>1, <1>2 DEF Deliver1
<1>3. CASE Accepts(s, tx)
  <2> DEFINE t == apply_tx(s, tx)
             r == tx.request_id
  <2>1. /\ Keys(t.requests) = Keys(s.requests) \cup {r} /\ SameBut(s, t, {r})
        /\ r \in Keys(s.requests) => s.requests[r].status.tag # "Completed"
    BY <1>3, OneRequest
  <2>2. tx.type = "SubmitRequest" => t.requests[r].status.tag # "Completed"
    <3> SUFFICES ASSUME tx.type = "SubmitRequest" PROVE t.requests[r].status.tag # "Completed"
      OBVIOUS
    <3>1. t.requests[r] = [message |-> tx.message, randomizer |-> tx.randomizer,
                 status |-> [tag |-> "AwaitingCommitments", commitments |-> Empty(Ids)]]
      BY <1>3, RequestEffect
    <3> HIDE DEF t
    <3> QED BY <3>1
  <2>3. Deliver1(s, tx) = t
    BY <1>3 DEF Deliver1
  <2> HIDE DEF t, r
  <2>4. \A q : DoneAt(s, q) => DoneAt(t, q) /\ t.requests[q] = s.requests[q]
    BY <2>1 DEF DoneAt, SameBut
  <2>5. \A q : DoneAt(t, q) => DoneAt(s, q) \/ (q = r /\ tx.type # "SubmitRequest")
    BY <2>1, <2>2 DEF DoneAt, SameBut
  <2> QED BY <1>1, <2>3, <2>4, <2>5 DEF r
<1> QED BY <1>2, <1>3

LEMMA DeliverDone ==
    ASSUME NEW M, NEW S, AllTraced(M, S), NEW s \in State, NEW v \in Nodes, NEW tx \in M[v]
    PROVE  /\ tx.request_id \in Uuids
           /\ \A q : DoneAt(s, q) =>
                 DoneAt(Deliver1(s, tx), q) /\ Deliver1(s, tx).requests[q] = s.requests[q]
           /\ \A q : DoneAt(Deliver1(s, tx), q) =>
                 DoneAt(s, q) \/ (q = tx.request_id /\ tx.type # "SubmitRequest")
<1>1. tx \in Tx /\ tx.type \in {"SubmitRequest", "SubmitCommitment", "SubmitShare"}
  BY DEF AllTraced, TxTraced
<1> QED BY <1>1, ApplyDone

(* What is seen of a request once some replica has completed it. *)
LEMMA SeenOnce ==
    ASSUME QuorumsMeet, RepInv, NEW n \in Nodes, NEW r, DoneAt(replica[n], r)
    PROVE  Seen(replica, r) = {OutcomeOf(replica[n].requests[r].status)}
<1>1. \A m \in Nodes : DoneAt(replica[m], r) =>
         replica[m].requests[r].status = replica[n].requests[r].status
  BY Agreement
<1> QED BY <1>1 DEF Seen

(* The replica of n applies a transaction that somebody has made. *)
LEMMA SeenAfter ==
    ASSUME QuorumsMeet, RepInv, RepInv', NEW n \in Nodes, NEW v \in Nodes, NEW tx \in Made[v],
           replica' = [replica EXCEPT ![n] = Deliver1(replica[n], tx)]
    PROVE  /\ tx.request_id \in Uuids
           /\ \A q : q # tx.request_id => Seen(replica', q) = Seen(replica, q)
<1> DEFINE s == replica[n]
           t == Deliver1(s, tx)
<1>1. s \in State /\ replica \in [Nodes -> State]
  BY DEF RepInv, ReplicasTypeOK
<1>2. /\ tx.request_id \in Uuids
      /\ \A q : DoneAt(s, q) => DoneAt(t, q) /\ t.requests[q] = s.requests[q]
      /\ \A q : DoneAt(t, q) => DoneAt(s, q) \/ (q = tx.request_id /\ tx.type # "SubmitRequest")
  BY <1>1, DeliverDone DEF RepInv
<1>3. replica'[n] = t /\ \A m \in Nodes : m # n => replica'[m] = replica[m]
  BY <1>1
<1> HIDE DEF t, s
<1>4. ASSUME NEW q, q # tx.request_id
      PROVE  Seen(replica', q) = Seen(replica, q)
  <2>1. \A m \in Nodes : DoneAt(replica'[m], q) <=> DoneAt(replica[m], q)
    BY <1>2, <1>3, <1>4 DEF s
  <2>2. \A m \in Nodes : DoneAt(replica[m], q) => replica'[m].requests[q] = replica[m].requests[q]
    BY <1>2, <1>3 DEF s
  <2> QED BY <2>1, <2>2 DEF Seen
<1> QED BY <1>2, <1>4

(* ... and at most one request gets an outcome by it, which it keeps. *)
LEMMA SeenKept ==
    ASSUME QuorumsMeet, RepInv, RepInv', NEW n \in Nodes, NEW v \in Nodes, NEW tx \in Made[v],
           replica' = [replica EXCEPT ![n] = Deliver1(replica[n], tx)],
           NEW r, Seen(replica, r) # {}
    PROVE  Seen(replica', r) = Seen(replica, r)
<1>1. PICK m \in Nodes : DoneAt(replica[m], r)
  BY DEF Seen
<1>2. replica[n] \in State /\ replica \in [Nodes -> State]
  BY DEF RepInv, ReplicasTypeOK
<1>3. \A q : DoneAt(replica[n], q) =>
         /\ DoneAt(Deliver1(replica[n], tx), q)
         /\ Deliver1(replica[n], tx).requests[q] = replica[n].requests[q]
  BY <1>2, DeliverDone DEF RepInv
<1>4. DoneAt(replica'[m], r) /\ replica'[m].requests[r] = replica[m].requests[r]
  <2>1. CASE m = n
    BY <1>1, <1>2, <1>3, <2>1
  <2>2. CASE m # n
    BY <1>1, <1>2, <2>2
  <2> QED BY <2>1, <2>2
<1>5. Seen(replica, r) = {OutcomeOf(replica[m].requests[r].status)}
  BY <1>1, SeenOnce
<1>6. Seen(replica', r) = {OutcomeOf(replica'[m].requests[r].status)}
  <2>1. \A k \in Nodes : DoneAt(replica'[k], r) =>
           replica'[k].requests[r].status = replica'[m].requests[r].status
    <3>1. AgreeIfTheyMeet'
      BY AgreementInvariant, PTL
    <3>2. CompletedAgree'
      BY <3>1 DEF AgreeIfTheyMeet, QuorumsMeet
    <3> QED BY <1>4, <3>2 DEF CompletedAgree, DoneAt
  <2> QED BY <1>4, <2>1 DEF Seen
<1> QED BY <1>4, <1>5, <1>6

(* The outcome is the one the service promises. *)
Promised(r) ==
    \E P \in SUBSET Nodes :
        /\ r \in submitted
        /\ Cardinality(P) = Params.threshold
        /\ \A v \in P : Requests[r].message \in Approves[v]
        /\ Seen(replica, r) = {Promise(r, P)}

OutcomesPromised == QuorumsMeet => \A r \in Uuids : Seen(replica, r) # {} => Promised(r)

LEMMA SeenPromised == RepInv => OutcomesPromised
<1> SUFFICES ASSUME RepInv, QuorumsMeet, NEW r \in Uuids, Seen(replica, r) # {} PROVE Promised(r)
  BY DEF OutcomesPromised
<1>1. PICK n \in Nodes : DoneAt(replica[n], r)
  BY DEF Seen
<1> DEFINE st == replica[n].requests[r].status
           P == st.participants
<1>2. /\ r \in submitted /\ P \subseteq Nodes /\ Cardinality(P) = Params.threshold
      /\ \A v \in P : Requests[r].message \in Approves[v]
      /\ st = [tag |-> "Completed", participants |-> P, signature |-> Promise(r, P).signature]
  BY <1>1, DonePromised
<1>3. Seen(replica, r) = {OutcomeOf(st)}
  BY <1>1, SeenOnce
<1> HIDE DEF st
<1>4. OutcomeOf(st) = Promise(r, P)
  BY <1>2 DEF OutcomeOf, Promise
<1> QED BY <1>2, <1>3, <1>4 DEF Promised

(* A client's request completes nothing. *)
LEMMA RequestUnseen ==
    ASSUME RepInv, NEW n \in Nodes, NEW tx \in Tx, tx.type = "SubmitRequest",
           replica' = [replica EXCEPT ![n] = Deliver1(replica[n], tx)]
    PROVE  \A q : Seen(replica', q) = Seen(replica, q)
<1> DEFINE s == replica[n]
           t == Deliver1(s, tx)
<1>1. s \in State /\ replica \in [Nodes -> State]
  BY DEF RepInv, ReplicasTypeOK
<1>2. /\ \A q : DoneAt(s, q) => DoneAt(t, q) /\ t.requests[q] = s.requests[q]
      /\ \A q : DoneAt(t, q) => DoneAt(s, q)
  BY <1>1, ApplyDone
<1>3. replica'[n] = t /\ \A m \in Nodes : m # n => replica'[m] = replica[m]
  BY <1>1
<1> HIDE DEF t, s
<1> TAKE q
<1>4. \A m \in Nodes : DoneAt(replica'[m], q) <=> DoneAt(replica[m], q)
  BY <1>2, <1>3 DEF s
<1>5. \A m \in Nodes : DoneAt(replica[m], q) => replica'[m].requests[q] = replica[m].requests[q]
  BY <1>2, <1>3 DEF s
<1> QED BY <1>4, <1>5 DEF Seen

(* A replica's step in the eyes of the client. *)
LEMMA ReplicaStep ==
    ASSUME QuorumsMeet, RepInv, RepInv', NEW n \in Nodes, NEW v \in Nodes, NEW tx \in Made[v],
           replica' = [replica EXCEPT ![n] = Deliver1(replica[n], tx)], submitted' = submitted
    PROVE  [Service!Next]_<<submitted, Outcomes>>
<1> DEFINE r == tx.request_id
<1>1. r \in Uuids /\ \A q : q # r => Seen(replica', q) = Seen(replica, q)
  BY SeenAfter
<1> HIDE DEF r
<1>2. CASE Seen(replica', r) = Seen(replica, r)
  <2>1. \A q \in Uuids : Seen(replica', q) = Seen(replica, q)
    BY <1>1, <1>2
  <2>2. Outcomes' = Outcomes
    BY <2>1 DEF Outcomes
  <2> QED BY <2>2
<1>3. CASE Seen(replica', r) # Seen(replica, r)
  <2>1. Seen(replica, r) = {}
    BY <1>3, SeenKept
  <2>2. Promised(r)'
    <3>1. OutcomesPromised'
      BY SeenPromised, PTL
    <3> QED BY <1>1, <1>3, <2>1, <3>1 DEF OutcomesPromised, QuorumsMeet
  <2>3. PICK P \in SUBSET Nodes :
          /\ r \in submitted'
          /\ Cardinality(P) = Params.threshold
          /\ \A w \in P : Requests[r].message \in Approves[w]
          /\ Seen(replica', r) = {Promise(r, P)}
    BY <2>2 DEF Promised
  <2>4. Outcomes' = [Outcomes EXCEPT ![r] = {Promise(r, P)}] /\ Outcomes[r] = {}
    BY <1>1, <2>1, <2>3 DEF Outcomes
  <2>5. Service!Cardinality(P) = Params.threshold
    <3>1. Service!Cardinality(P) = Cardinality(P)
      BY DEF Service!Cardinality, Cardinality
    <3> QED BY <2>3, <3>1
  <2>6. Service!Sign(r, P)
    BY <2>3, <2>4, <2>5 DEF Service!Sign, Promise, Outcomes, Seen, OutcomeOf, DoneAt
  <2>7. DOMAIN Requests = Uuids /\ P \in SUBSET DOMAIN Approves
    BY <2>3, ReplicasAssumption DEF Nodes
  <2> QED BY <1>1, <2>6, <2>7 DEF Service!Next
<1> QED BY <1>2, <1>3

(* Every step of the replicas is a step of the service, or nothing the     *)
(* client can see.                                                         *)
LEMMA ServiceStep ==
    ASSUME QuorumsMeet, RepInv, RepInv', [Next]_vars
    PROVE  [Service!Next]_<<submitted, Outcomes>>
<1>1. ASSUME NEW n \in Nodes, NEW r \in Uuids, SubmitRequest(n, r) PROVE Service!Next
  <2> DEFINE tx == [type |-> "SubmitRequest", request_id |-> r,
                    message |-> Requests[r].message, randomizer |-> Requests[r].randomizer]
  <2>1. /\ r \notin submitted /\ submitted' = submitted \cup {r} /\ Originate(n, tx)
        /\ outbox' = outbox
    BY <1>1 DEF SubmitRequest
  <2>2. tx \in Tx /\ tx.type = "SubmitRequest" /\ tx.request_id = r
    BY ReplicasAssumption DEF Tx
  <2> HIDE DEF tx
  <2>3. /\ replica' = [replica EXCEPT ![n] = Deliver1(replica[n], tx)]
    BY <2>1 DEF Originate
  <2>5. \A q : Seen(replica', q) = Seen(replica, q)
    BY <2>2, <2>3, RequestUnseen
  <2>6. Outcomes' = Outcomes
    BY <2>5 DEF Outcomes
  <2>7. DOMAIN Requests = Uuids
    BY ReplicasAssumption
  <2>8. Service!Ask(r)
    BY <2>1, <2>6 DEF Service!Ask, Outcomes, Seen, OutcomeOf, DoneAt
  <2> QED BY <2>7, <2>8 DEF Service!Next
<1>2. ASSUME NEW n \in Nodes, Post(n) PROVE [Service!Next]_<<submitted, Outcomes>>
  <2> DEFINE tx == Head(outbox[n])
  <2>1. /\ outbox[n] # <<>> /\ submitted' = submitted
        /\ replica' = [replica EXCEPT ![n] = Deliver1(replica[n], tx)]
    BY <1>2 DEF Post, Originate
  <2>2. outbox[n] \in Seq(Tx)
    BY DEF RepInv, ReplicasTypeOK
  <2>3. tx \in Made[n]
    BY <2>1, <2>2, ToSetTail DEF Made
  <2> HIDE DEF tx
  <2> QED BY <2>1, <2>3, ReplicaStep
<1>3. ASSUME NEW l \in Links, Receive(l[1], l[2]) PROVE [Service!Next]_<<submitted, Outcomes>>
  <2> DEFINE tx == Head(links[l])
  <2>1. l[1] \in Nodes /\ l[2] \in Nodes /\ l = <<l[1], l[2]>>
    BY LinkEnds
  <2>2. /\ links[l] # <<>> /\ submitted' = submitted
        /\ replica' = [replica EXCEPT ![l[2]] = Deliver1(replica[l[2]], tx)]
    BY <1>3, <2>1 DEF Receive, Net!Deliver
  <2>3. links[l] \in Seq(Tx)
    BY DEF RepInv, ReplicasTypeOK
  <2>4. tx \in ToSet(links[l])
    BY <2>2, <2>3, ToSetTail
  <2> HIDE DEF tx
  <2>5. tx \in Made[l[1]]
    BY <2>1, <2>4 DEF Made, RepInv
  <2> QED BY <2>1, <2>2, <2>5, ReplicaStep
<1>4. ASSUME replica' = replica, submitted' = submitted PROVE UNCHANGED <<submitted, Outcomes>>
  BY <1>4 DEF Outcomes
<1>5. \/ \E n \in Nodes, r \in Uuids : SubmitRequest(n, r)
      \/ \E n \in Nodes : Post(n)
      \/ \E l \in Links : Receive(l[1], l[2])
      \/ replica' = replica /\ submitted' = submitted
  BY DEF Next, React, Lose, vars
<1> QED BY <1>1, <1>2, <1>3, <1>4, <1>5

(* Without consensus the client still sees the service, whatever replica   *)
(* it looks at and whatever the mesh has lost, if any two sets of          *)
(* threshold validators meet: one outcome for a request, for ever, the     *)
(* group's signature of what was asked, by threshold validators who        *)
(* approve it.                                                             *)
THEOREM ReplicasImplementsService ==
    ASSUME QuorumsMeet
    PROVE  Spec => ImplementsService
<1>1. Init => Service!Init
  <2> SUFFICES ASSUME Init PROVE Service!Init
    OBVIOUS
  <2>1. submitted = {} /\ DOMAIN Requests = Uuids
    BY ReplicasAssumption DEF Init
  <2>2. \A n \in Nodes : Keys(replica[n].requests) = {}
    BY EmptyKeys DEF Init, DefaultState
  <2> QED BY <2>1, <2>2 DEF Service!Init
<1>2. RepInv /\ RepInv' /\ [Next]_vars =>
        [Service!Next]_<<submitted, [r \in Uuids |->
            {[participants |-> replica[n].requests[r].status.participants,
              signature |-> replica[n].requests[r].status.signature] :
                n \in {m \in Nodes : /\ r \in Keys(replica[m].requests)
                                     /\ replica[m].requests[r].status.tag = "Completed"}}]>>
  BY ServiceStep DEF Outcomes, Seen, OutcomeOf, DoneAt
<1> QED BY <1>1, <1>2, ReplicasInvariant, PTL DEF Spec, ImplementsService, Service!Spec
=============================================================================
