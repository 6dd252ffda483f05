------------------------------ MODULE DkgProofs -----------------------------
(***************************************************************************)
(* The ceremony, for all parameters MpcParams::new lets pass, every number *)
(* of participants, every order in which they act, every restart and every *)
(* faulty package: the key that the chain promotes is the one that was     *)
(* posted, and whoever holds a key holds it.                               *)
(*                                                                         *)
(* A participant derives its key from the others' posted polynomials and   *)
(* from its own memory, which may differ from what it has posted before a  *)
(* restart.  The chain asks every finalize for the same key: two finalizers *)
(* vouch for each other's polynomial, so that the key of all of them is    *)
(* the posted one.  There are two, because part1 refuses a group of one.   *)
(***************************************************************************)
EXTENDS Dkg, ChainProofs

Round1Tx(p, d) == [type |-> "DkgRound1", from |-> p, package |-> d]

FinalizeTx(p, k) == [type |-> "DkgFinalize", from |-> p, pkp |-> k]

(* Everybody's polynomial in k but v's is the one on the chain, and all of *)
(* them were drawn by those in whose name they stand.                      *)
KeyFrom(c, v, k) ==
    /\ \A q \in Ids \ {v} : k[q] = c.round1[q]
    /\ \A q \in Participants : k[q][1] = q

(* What is known of an open ceremony and of a group when L is the set of   *)
(* the transactions that were accepted.                                    *)
CeremonyPosted(c, L) ==
    /\ Keys(c.validators) = Participants
    /\ \A p \in Keys(c.round1) : Round1Tx(p, c.round1[p]) \in L
    /\ Keys(c.finalize) # {} => part1_ok(c.params)
    /\ \A p \in Keys(c.finalize) : FinalizeTx(p, c.finalize[p]) \in L /\ KeyFrom(c, p, c.finalize[p])

GroupPosted(g, L) ==
    /\ part1_ok(g.params)
    /\ Keys(g.pkp) = Participants
    /\ \A p \in Participants :
          Round1Tx(p, g.pkp[p]) \in L /\ FinalizeTx(p, g.pkp) \in L /\ g.pkp[p][1] = p

ChainPosted(s, L) ==
    /\ s.ceremony # None => CeremonyPosted(s.ceremony, L)
    /\ s.group # None => GroupPosted(s.group, L)

(* A ceremony was opened, and part1 takes its parameters while it is open. *)
Fit(s) ==
    /\ s.group # None \/ s.ceremony # None
    /\ s.ceremony # None => part1_ok(s.ceremony.params)

(* Round 1 is over, for good. *)
PastRoundOne(s) == s.group # None \/ (s.ceremony # None /\ r1_complete(s.ceremony))

(* What holds of round 1 in s still holds in t. *)
Later(s, t) ==
    /\ Fit(s) => Fit(t)
    /\ PastRoundOne(s) =>
          /\ PastRoundOne(t)
          /\ t.ceremony # None => s.ceremony # None /\ t.ceremony.round1 = s.ceremony.round1

(* part2 has accepted the others' packages for p. *)
Verified(s, p) ==
    s.ceremony # None =>
        \A q \in Keys(s.ceremony.round1) \ {p} : s.ceremony.round1[q][1] = q

(* What a participant or the coordinator submits, seen from a state s that *)
(* has yet to apply it.                                                    *)
DueTx(s, tx) ==
    /\ tx.type \in {"DkgBegin", "DkgRound1", "DkgRound2", "DkgFinalize"}
    /\ tx.type = "DkgBegin" => Keys(tx.validators) = Participants
    /\ tx.type = "DkgFinalize" =>
          /\ PastRoundOne(s) /\ Fit(s)
          /\ s.ceremony # None => KeyFrom(s.ceremony, tx.from, tx.pkp)

----------------------------------------------------------------------------
(* What the transactions of a ceremony do to a chain state.                *)

LEMMA BeginEffect ==
    ASSUME NEW s \in State, NEW tx \in Tx, tx.type = "DkgBegin", Accepts(s, tx)
    PROVE  LET c == apply_tx(s, tx).ceremony
           IN  /\ s.group = None /\ s.ceremony = None /\ apply_tx(s, tx).group = None
               /\ c.params = tx.params /\ c.validators = tx.validators
               /\ c.round1 = Empty(Ids) /\ c.finalize = Empty(Ids)
BY DEF Accepts, DkgBeginOk, apply_tx, DkgBeginNext, State

LEMMA Round1Effect ==
    ASSUME NEW s \in State, NEW tx \in Tx, tx.type = "DkgRound1", Accepts(s, tx)
    PROVE  LET b == s.ceremony
               c == apply_tx(s, tx).ceremony
           IN  /\ b # None /\ c # None /\ apply_tx(s, tx).group = s.group
               /\ c.params = b.params /\ c.validators = b.validators /\ c.finalize = b.finalize
               /\ tx.from \in Keys(b.validators) /\ tx.from \notin Keys(b.round1)
               /\ Keys(c.round1) = Keys(b.round1) \cup {tx.from}
               /\ c.round1[tx.from] = tx.package
               /\ \A q \in Keys(b.round1) : c.round1[q] = b.round1[q]
<1> DEFINE b == s.ceremony
           c == apply_tx(s, tx).ceremony
<1>1. b # None /\ tx.from \in Keys(b.validators) /\ tx.from \notin Keys(b.round1)
  BY DEF Accepts, DkgRound1Ok
<1>2. b \in DkgCeremony /\ tx.from \in Ids /\ tx.package # None
  BY <1>1, StateParts, TxFields, NoneAssumption
<1>3. c # None /\ apply_tx(s, tx).group = s.group
  BY ApplyOpens, Frame
<1>4. c = [b EXCEPT !.round1[tx.from] = tx.package]
  BY DEF apply_tx, DkgRound1Next, State
<1> HIDE DEF b, c
<1>5. /\ c.params = b.params /\ c.validators = b.validators /\ c.finalize = b.finalize
      /\ c.round1 = [b.round1 EXCEPT ![tx.from] = tx.package] /\ b.round1 \in Map(Ids, Draw)
  BY <1>2, <1>4 DEF DkgCeremony
<1>6. /\ Keys(c.round1) = Keys(b.round1) \cup {tx.from} /\ c.round1[tx.from] = tx.package
      /\ \A q \in Keys(b.round1) : c.round1[q] = b.round1[q]
  BY <1>1, <1>2, <1>5 DEF Keys, Map
<1> QED BY <1>1, <1>3, <1>5, <1>6 DEF b, c

LEMMA Round2Effect ==
    ASSUME NEW s \in State, NEW tx \in Tx, tx.type = "DkgRound2", Accepts(s, tx)
    PROVE  LET b == s.ceremony
               c == apply_tx(s, tx).ceremony
           IN  /\ b # None /\ c # None /\ apply_tx(s, tx).group = s.group
               /\ c.params = b.params /\ c.validators = b.validators
               /\ c.round1 = b.round1 /\ c.finalize = b.finalize
<1> DEFINE b == s.ceremony
           c == apply_tx(s, tx).ceremony
<1>1. b # None
  BY DEF Accepts, DkgRound2Ok
<1>2. b \in DkgCeremony
  BY <1>1, StateParts
<1>3. c # None /\ apply_tx(s, tx).group = s.group
  BY ApplyOpens, Frame
<1>4. c = [b EXCEPT !.round2[<<tx.from, tx.to>>] = tx.sealed]
  BY DEF apply_tx, DkgRound2Next, State
<1> HIDE DEF b, c
<1>5. /\ c.params = b.params /\ c.validators = b.validators
      /\ c.round1 = b.round1 /\ c.finalize = b.finalize
  BY <1>2, <1>4 DEF DkgCeremony
<1> QED BY <1>1, <1>3, <1>5 DEF b, c

(* A finalize that leaves the ceremony open. *)
LEMMA FinalizeEffect ==
    ASSUME NEW s \in State, NEW tx \in Tx, tx.type = "DkgFinalize", Accepts(s, tx),
           CeremonyInOrder(s), apply_tx(s, tx).ceremony # None
    PROVE  LET b == s.ceremony
               c == apply_tx(s, tx).ceremony
           IN  /\ b # None /\ apply_tx(s, tx).group = s.group
               /\ c.params = b.params /\ c.validators = b.validators /\ c.round1 = b.round1
               /\ Keys(c.finalize) = Keys(b.finalize) \cup {tx.from}
               /\ \A v \in Keys(b.finalize) : b.finalize[v] = tx.pkp
               /\ \A v \in Keys(c.finalize) : c.finalize[v] = tx.pkp
<1> DEFINE c == [s.ceremony EXCEPT !.finalize[tx.from] = tx.pkp]
<1>1. DkgFinalizeOk(s, tx) /\ s.ceremony # None
  BY DEF Accepts, DkgFinalizeOk
<1>2. apply_tx(s, tx).ceremony = c /\ apply_tx(s, tx).group = s.group
  BY Frame DEF apply_tx, DkgFinalizeNext, State
<1>3. /\ c.params = s.ceremony.params /\ c.validators = s.ceremony.validators
      /\ c.round1 = s.ceremony.round1
      /\ Keys(c.finalize) = Keys(s.ceremony.finalize) \cup {tx.from}
      /\ \A v \in Keys(s.ceremony.finalize) : s.ceremony.finalize[v] = tx.pkp
      /\ \A v \in Keys(c.finalize) : c.finalize[v] = tx.pkp
  BY <1>1, FinalizeAdds
<1> HIDE DEF c
<1> QED BY <1>1, <1>2, <1>3

----------------------------------------------------------------------------
(* What was posted stays so.                                               *)

(* A ceremony that part1 takes part in has at least two members. *)
LEMMA TwoParticipants ==
    ASSUME NEW c \in DkgCeremony, part1_ok(c.params), Keys(c.validators) = Participants,
           RoundsCounted(c)
    PROVE  \A q : \E w \in Participants : w # q
<1>1. c.params.total \in U16 /\ c.params.total >= 2
  BY DEF DkgCeremony, MpcParams, part1_ok
<1>2. Cardinality(Participants) >= 2
  BY <1>1, U16Typed DEF RoundsCounted
<1>3. ASSUME NEW q, \A w \in Participants : w = q PROVE FALSE
  <2>1. Participants \in SUBSET {q}
    BY <1>3
  <2>2. IsFiniteSet({q}) /\ Cardinality({q}) = 1
    BY FS_Singleton
  <2>3. Cardinality(Participants) <= 1 /\ Cardinality(Participants) \in Nat
    BY <2>1, <2>2, FS_Subset, FS_CardinalityType
  <2> QED BY <1>2, <2>3
<1> QED BY <1>3

(* The key that two finalizers at least have derived is the posted one. *)
LEMMA PromotionPosted ==
    ASSUME NEW s \in State, NEW tx \in Tx, Accepts(s, tx), OneGroup(s), CeremonyInOrder(s),
           NEW L, ChainPosted(s, L), DueTx(s, tx), s.ceremony # None, apply_tx(s, tx).group # None
    PROVE  GroupPosted(apply_tx(s, tx).group, L \cup {tx})
<1> DEFINE b == s.ceremony
           g == apply_tx(s, tx).group
           k == g.pkp
<1>1. /\ g.validators = Keys(b.validators) /\ g.params = b.params
      /\ \A v \in Keys(b.finalize) : b.finalize[v] = k
      /\ \E v \in g.validators :
           /\ Keys(b.finalize) \cup {v} = g.validators
           /\ tx = [type |-> "DkgFinalize", from |-> v, pkp |-> k]
  BY ApplyPromotes
<1>2. PICK v \in g.validators :
           /\ Keys(b.finalize) \cup {v} = g.validators
           /\ tx = FinalizeTx(v, k)
  BY <1>1 DEF FinalizeTx
<1>3. /\ b \in DkgCeremony /\ s.group = None /\ CeremonyPosted(b, L)
      /\ RoundsCovered(b) /\ RoundsCounted(b)
  BY StateParts DEF OneGroup, CeremonyInOrder, ChainPosted
<1>4. apply_tx(s, tx) \in State
  BY ApplyTyped
<1>5. g \in GroupConfig
  BY <1>4, StateParts
<1>6. k \in Map(Ids, Draw) /\ b.round1 \in Map(Ids, Draw)
  BY <1>3, <1>5 DEF GroupConfig, PublicKeyPackage, DkgCeremony
<1> HIDE DEF b, g, k
<1>7. tx.type = "DkgFinalize" /\ tx.from = v /\ tx.pkp = k
  BY <1>2 DEF FinalizeTx
<1>8. /\ g.validators = Participants /\ KeyFrom(b, v, k) /\ Keys(b.round1) = Participants
      /\ part1_ok(b.params)
  BY <1>1, <1>3, <1>7 DEF CeremonyPosted, DueTx, PastRoundOne, Fit, RoundsCovered, b
<1>9. \A w \in Participants : FinalizeTx(w, k) \in L \cup {tx} /\ KeyFrom(b, w, k)
  BY <1>1, <1>2, <1>3, <1>8 DEF CeremonyPosted
<1>10. /\ \A q \in Ids : k[q] = b.round1[q]
       /\ \A q \in Participants : k[q][1] = q
  <2>1. \A q : \E w \in Participants : w # q
    BY <1>3, <1>8, TwoParticipants DEF CeremonyPosted
  <2> QED BY <1>9, <2>1 DEF KeyFrom
<1>11. Keys(k) = Keys(b.round1)
  BY <1>6, <1>10 DEF Keys, Map
<1>12. \A p \in Participants : Round1Tx(p, k[p]) \in L
  BY <1>3, <1>8, <1>10, DkgAssumption DEF CeremonyPosted
<1> QED BY <1>1, <1>8, <1>9, <1>10, <1>11, <1>12 DEF GroupPosted, g, k

LEMMA ApplyPosted ==
    ASSUME NEW s \in State, NEW tx \in Tx, Accepts(s, tx), OneGroup(s), CeremonyInOrder(s),
           NEW L, ChainPosted(s, L), DueTx(s, tx)
    PROVE  ChainPosted(apply_tx(s, tx), L \cup {tx})
<1> DEFINE t == apply_tx(s, tx)
           b == s.ceremony
           c == t.ceremony
           K == L \cup {tx}
<1>1. CASE tx.type = "DkgBegin"
  <2>1. /\ t.group = None /\ c.params = tx.params /\ c.validators = tx.validators
        /\ c.round1 = Empty(Ids) /\ c.finalize = Empty(Ids)
    BY <1>1, BeginEffect
  <2>2. Keys(tx.validators) = Participants
    BY <1>1 DEF DueTx
  <2> HIDE DEF t, c
  <2>3. CeremonyPosted(c, K)
    BY <2>1, <2>2, EmptyKeys DEF CeremonyPosted
  <2> QED BY <2>1, <2>3 DEF ChainPosted, c, t
<1>2. CASE tx.type = "DkgRound1"
  <2>1. /\ b # None /\ t.group = s.group
        /\ c.params = b.params /\ c.validators = b.validators /\ c.finalize = b.finalize
        /\ tx.from \in Keys(b.validators) /\ tx.from \notin Keys(b.round1)
        /\ Keys(c.round1) = Keys(b.round1) \cup {tx.from}
        /\ c.round1[tx.from] = tx.package
        /\ \A q \in Keys(b.round1) : c.round1[q] = b.round1[q]
    BY <1>2, Round1Effect
  <2>2. /\ s.group = None /\ RoundsCounted(b) /\ RoundsCovered(b) /\ CeremonyPosted(b, L)
        /\ b \in DkgCeremony
    BY <2>1, StateParts DEF OneGroup, CeremonyInOrder, ChainPosted
  <2>3. Keys(b.finalize) = {}
    <3> SUFFICES ASSUME Keys(b.finalize) # {} PROVE FALSE
      OBVIOUS
    <3>1. ~r1_complete(b)
      BY <2>1, <2>2 DEF RoundsCovered
    <3>2. Keys(b.round2) = {}
      BY <2>2, <3>1 DEF RoundsCounted
    <3>3. r2_complete(b) /\ part1_ok(b.params)
      BY <2>2 DEF RoundsCounted, CeremonyPosted
    <3>4. Pairs(Participants) = {}
      BY <2>2, <3>2, <3>3 DEF RoundsCovered, CeremonyPosted
    <3>5. PICK w \in Participants : w # tx.from
      BY <2>2, <3>3, TwoParticipants DEF CeremonyPosted
    <3>6. <<tx.from, w>> \in Pairs(Participants)
      BY <2>1, <2>2, <3>5 DEF Pairs, CeremonyPosted
    <3> QED BY <3>4, <3>6
  <2>4. tx = Round1Tx(tx.from, tx.package)
    BY <1>2 DEF Tx, Round1Tx
  <2> HIDE DEF t, c, b
  <2>5. CeremonyPosted(c, K)
    BY <2>1, <2>2, <2>3, <2>4 DEF CeremonyPosted
  <2> QED BY <2>1, <2>2, <2>5 DEF ChainPosted, c, t
<1>3. CASE tx.type = "DkgRound2"
  <2>1. /\ b # None /\ t.group = s.group
        /\ c.params = b.params /\ c.validators = b.validators
        /\ c.round1 = b.round1 /\ c.finalize = b.finalize
    BY <1>3, Round2Effect
  <2>2. s.group = None /\ CeremonyPosted(b, L)
    BY <2>1 DEF OneGroup, ChainPosted
  <2> HIDE DEF t, c, b
  <2>3. CeremonyPosted(c, K)
    BY <2>1, <2>2 DEF CeremonyPosted, KeyFrom
  <2> QED BY <2>1, <2>2, <2>3 DEF ChainPosted, c, t
<1>4. CASE tx.type = "DkgFinalize"
  <2>1. b # None
    BY <1>4 DEF Accepts, DkgFinalizeOk
  <2>2. s.group = None /\ CeremonyPosted(b, L)
    BY <2>1 DEF OneGroup, ChainPosted
  <2>3. OneGroup(t)
    BY ApplyOneGroup
  <2>4. CASE t.group # None
    <3>1. GroupPosted(t.group, K)
      BY <2>1, <2>4, PromotionPosted
    <3> QED BY <2>3, <2>4, <3>1 DEF ChainPosted, OneGroup
  <2>5. CASE t.group = None /\ c # None
    <3>1. /\ c.params = b.params /\ c.validators = b.validators /\ c.round1 = b.round1
          /\ Keys(c.finalize) = Keys(b.finalize) \cup {tx.from}
          /\ \A v \in Keys(b.finalize) : b.finalize[v] = tx.pkp
          /\ \A v \in Keys(c.finalize) : c.finalize[v] = tx.pkp
      BY <1>4, <2>5, FinalizeEffect
    <3>2. tx = FinalizeTx(tx.from, tx.pkp)
      BY <1>4 DEF Tx, FinalizeTx
    <3>3. KeyFrom(b, tx.from, tx.pkp) /\ part1_ok(b.params)
      BY <1>4, <2>1 DEF DueTx, Fit
    <3> HIDE DEF t, c, b
    <3>4. CeremonyPosted(c, K)
      BY <2>2, <3>1, <3>2, <3>3 DEF CeremonyPosted, KeyFrom
    <3> QED BY <2>5, <3>4 DEF ChainPosted, c, t
  <2>6. CASE t.group = None /\ c = None
    BY <2>6 DEF ChainPosted
  <2> QED BY <2>4, <2>5, <2>6
<1> QED BY <1>1, <1>2, <1>3, <1>4 DEF DueTx

(* Round 1 stays over, and its polynomials stay. *)
LEMMA RoundOneStays ==
    ASSUME NEW s \in State, NEW tx \in Tx, Accepts(s, tx), OneGroup(s), CeremonyInOrder(s),
           PastRoundOne(s)
    PROVE  /\ PastRoundOne(apply_tx(s, tx))
           /\ apply_tx(s, tx).ceremony # None =>
                 s.ceremony # None /\ apply_tx(s, tx).ceremony.round1 = s.ceremony.round1
<1> DEFINE t == apply_tx(s, tx)
           b == s.ceremony
           c == t.ceremony
<1>1. CASE s.group # None
  <2>1. t.group = s.group
    BY <1>1, ApplyKeepsGroup
  <2>2. OneGroup(t)
    BY ApplyOneGroup
  <2> QED BY <1>1, <2>1, <2>2 DEF PastRoundOne, OneGroup
<1>2. CASE s.group = None
  <2>1. b # None /\ r1_complete(b) /\ RoundsCovered(b) /\ RoundsCounted(b)
    BY <1>2 DEF PastRoundOne, CeremonyInOrder
  <2>2. CASE tx.type = "DkgRound2"
    <3>1. c # None /\ c.params = b.params /\ c.round1 = b.round1
      BY <2>2, Round2Effect
    <3> HIDE DEF t, c, b
    <3>2. r1_complete(c)
      BY <2>1, <3>1 DEF r1_complete
    <3> QED BY <2>1, <3>1, <3>2 DEF PastRoundOne, c, b, t
  <2>3. CASE tx.type = "DkgFinalize"
    <3>1. t.group # None \/ c # None
      BY <1>2, <2>1, CeremonyGrows
    <3>2. OneGroup(t)
      BY ApplyOneGroup
    <3>3. c # None => c.params = b.params /\ c.round1 = b.round1
      BY <2>3, FinalizeEffect
    <3> HIDE DEF t, c, b
    <3>4. c # None => r1_complete(c)
      BY <2>1, <3>3 DEF r1_complete
    <3> QED BY <2>1, <3>1, <3>2, <3>3, <3>4 DEF PastRoundOne, OneGroup, c, b, t
  <2>4. tx.type \in {"DkgRound2", "DkgFinalize"}
    BY <1>2, <2>1 DEF Accepts, InitGroupOk, DkgBeginOk, DkgRound1Ok, SubmitRequestOk,
                      SubmitCommitmentOk, SubmitShareOk, RoundsCovered
  <2> QED BY <2>2, <2>3, <2>4
<1> QED BY <1>1, <1>2

(* So do the parameters of a ceremony. *)
LEMMA FitStays ==
    ASSUME NEW s \in State, NEW tx \in Tx, Accepts(s, tx), OneGroup(s), CeremonyInOrder(s), Fit(s)
    PROVE  Fit(apply_tx(s, tx))
<1> DEFINE t == apply_tx(s, tx)
           b == s.ceremony
           c == t.ceremony
<1>1. CASE s.group # None
  <2>1. t.group = s.group
    BY <1>1, ApplyKeepsGroup
  <2>2. OneGroup(t)
    BY ApplyOneGroup
  <2> QED BY <1>1, <2>1, <2>2 DEF Fit, OneGroup
<1>2. CASE s.group = None
  <2>1. b # None /\ part1_ok(b.params)
    BY <1>2 DEF Fit
  <2>2. t.group # None \/ c # None
    BY <2>1, CeremonyGrows
  <2>3. tx.type \in {"DkgRound1", "DkgRound2", "DkgFinalize"}
    BY <1>2, <2>1 DEF Accepts, InitGroupOk, DkgBeginOk, SubmitRequestOk,
                      SubmitCommitmentOk, SubmitShareOk
  <2>4. c # None => c.params = b.params
    BY <2>3, Round1Effect, Round2Effect, FinalizeEffect
  <2> QED BY <2>1, <2>2, <2>4 DEF Fit
<1> QED BY <1>1, <1>2

LEMMA ApplyLater ==
    ASSUME NEW s \in State, NEW tx \in Tx, Accepts(s, tx), OneGroup(s), CeremonyInOrder(s)
    PROVE  Later(s, apply_tx(s, tx))
BY RoundOneStays, FitStays DEF Later

LEMMA DueStays ==
    ASSUME NEW s, NEW t, Later(s, t), NEW old, DueTx(s, old)
    PROVE  DueTx(t, old)
BY DEF DueTx, KeyFrom, Later

----------------------------------------------------------------------------
(* The invariant.                                                          *)

(* Everything that was submitted and not dropped. *)
Posted == log \cup ToSet(mempool)

Round1By(p) == {tx \in Posted : tx.type = "DkgRound1" /\ tx.from = p}

FinalizedBy(p) == {tx \in Posted : tx.type = "DkgFinalize" /\ tx.from = p}

(* A participant that has finalized has spent its secrets, and after a     *)
(* restart it gets no new ones, round 1 being over: the key it holds, if   *)
(* it holds one, is the one it has announced.  One that was never          *)
(* restarted holds it, and has posted the first polynomial it drew; what   *)
(* else is posted in its name is faulty.                                   *)
OwnInv(p) ==
    /\ secret_r1[p] # None => Fit(working) /\ secret_r1[p][1] = p
    /\ secret_r2[p] # None =>
          /\ submitted_r1[p] /\ secret_r1[p] = None /\ secret_r2[p][1] = p
          /\ Fit(working) /\ PastRoundOne(working) /\ Verified(working, p)
    /\ FinalizedBy(p) # {} => PastRoundOne(working) /\ secret_r1[p] = None /\ secret_r2[p] = None
    /\ \A tx \in FinalizedBy(p) : public_key_package[p] # None => tx.pkp = public_key_package[p]
    /\ p \notin restarted =>
          /\ FinalizedBy(p) # {} => public_key_package[p] # None
          /\ submitted_r1[p] \/ drawn[p] = 1
          /\ \A tx \in Round1By(p) : tx.package = <<p, 1>> \/ tx.package[1] # p

DkgInv ==
    /\ SimInv
    /\ DkgTypeOK
    /\ \A tx \in ToSet(mempool) : DueTx(working, tx)
    /\ ChainPosted(working, log)
    /\ \A p \in Participants : OwnInv(p)

LEMMA InitDkg == Init => DkgInv
<1> SUFFICES ASSUME Init PROVE DkgInv
  OBVIOUS
<1>1. SimInv
  BY SimInitInv DEF Init
<1>2. mempool = <<>> /\ log = {} /\ working = DefaultState
  BY DEF Init, SimInit
<1>3. ToSet(mempool) = {} /\ Posted = {}
  BY <1>2 DEF ToSet, Posted
<1>4. \A p \in Participants : <<p, 0>> \in Draw
  BY DkgAssumption DEF Draw
<1>5. DkgTypeOK
  BY <1>1, <1>4, DkgAssumption DEF Init, DkgTypeOK, SimInv
<1>6. ChainPosted(working, log)
  BY <1>2 DEF ChainPosted, DefaultState
<1>7. \A p \in Participants : OwnInv(p)
  BY <1>3 DEF OwnInv, Init, Round1By, FinalizedBy
<1> QED BY <1>1, <1>3, <1>5, <1>6, <1>7 DEF DkgInv

(* Participant q's memory is left alone. *)
Same(q) ==
    /\ secret_r1'[q] = secret_r1[q]
    /\ secret_r2'[q] = secret_r2[q]
    /\ submitted_r1'[q] = submitted_r1[q]
    /\ public_key_package'[q] = public_key_package[q]
    /\ drawn'[q] = drawn[q]
    /\ q \in restarted' <=> q \in restarted

LEMMA OwnStays ==
    ASSUME NEW q, OwnInv(q), Same(q), FinalizedBy(q)' \subseteq FinalizedBy(q),
           Round1By(q)' \subseteq Round1By(q), Later(working, working')
    PROVE  OwnInv(q)'
<1> DEFINE F == FinalizedBy(q)
           R == Round1By(q)
           w == working
<1>1. /\ secret_r1[q] # None => Fit(w) /\ secret_r1[q][1] = q
      /\ secret_r2[q] # None =>
            /\ submitted_r1[q] /\ secret_r1[q] = None /\ secret_r2[q][1] = q
            /\ Fit(w) /\ PastRoundOne(w) /\ Verified(w, q)
      /\ F # {} => PastRoundOne(w) /\ secret_r1[q] = None /\ secret_r2[q] = None
      /\ \A tx \in F : public_key_package[q] # None => tx.pkp = public_key_package[q]
      /\ q \notin restarted =>
            /\ F # {} => public_key_package[q] # None
            /\ submitted_r1[q] \/ drawn[q] = 1
            /\ \A tx \in R : tx.package = <<q, 1>> \/ tx.package[1] # q
  BY DEF OwnInv
<1>2. F' \subseteq F /\ R' \subseteq R
  OBVIOUS
<1>3. /\ Fit(w) => Fit(w')
      /\ PastRoundOne(w) => PastRoundOne(w')
      /\ PastRoundOne(w) /\ Verified(w, q) => Verified(w', q)
  BY DEF Later, Verified
<1> HIDE DEF F, R, w
<1>4. /\ secret_r1'[q] # None => Fit(w') /\ secret_r1'[q][1] = q
      /\ secret_r2'[q] # None =>
            /\ submitted_r1'[q] /\ secret_r1'[q] = None /\ secret_r2'[q][1] = q
            /\ Fit(w') /\ PastRoundOne(w') /\ Verified(w', q)
      /\ F' # {} => PastRoundOne(w') /\ secret_r1'[q] = None /\ secret_r2'[q] = None
      /\ \A tx \in F' : public_key_package'[q] # None => tx.pkp = public_key_package'[q]
      /\ q \notin restarted' =>
            /\ F' # {} => public_key_package'[q] # None
            /\ submitted_r1'[q] \/ drawn'[q] = 1
            /\ \A tx \in R' : tx.package = <<q, 1>> \/ tx.package[1] # q
  BY <1>1, <1>2, <1>3 DEF Same
<1> QED BY <1>4 DEF OwnInv, F, R, w, PastRoundOne, Fit, Verified

LEMMA SameLater == \A s : Later(s, s)
BY DEF Later

(* A call of p that submits nothing. *)
LEMMA QuietStep ==
    ASSUME DkgInv, UNCHANGED simVars, DkgTypeOK', NEW p, \A q \in Participants \ {p} : Same(q),
           p \in Participants => OwnInv(p)'
    PROVE  DkgInv'
<1>1. /\ state' = state /\ working' = working /\ mempool' = mempool /\ log' = log
      /\ in_block' = in_block /\ accepted' = accepted /\ last_block' = last_block
      /\ block_height' = block_height
  BY DEF simVars
<1>2. SimInv'
  BY <1>1 DEF DkgInv, SimInv, TypeOK
<1>3. \A q : FinalizedBy(q)' = FinalizedBy(q) /\ Round1By(q)' = Round1By(q)
  BY <1>1 DEF FinalizedBy, Round1By, Posted
<1>4. \A q \in Participants \ {p} : OwnInv(q)'
  BY <1>1, <1>3, SameLater, OwnStays DEF DkgInv
<1> QED BY <1>1, <1>2, <1>4 DEF DkgInv

(* A call of p that submits txs. *)
LEMMA PostStep ==
    ASSUME DkgInv, NEW txs \in Seq(Tx), SubmitAll(txs), DkgTypeOK', NEW p,
           \A tx \in ToSet(txs) :
               /\ DueTx(working, tx)
               /\ tx.type \in {"DkgRound1", "DkgFinalize"} => tx.from = p,
           \A q \in Participants \ {p} : Same(q), p \in Participants => OwnInv(p)'
    PROVE  DkgInv'
<1>1. working' = working /\ mempool' = mempool \o txs /\ log' = log /\ mempool \in Seq(Tx)
  BY DEF SubmitAll, DkgInv, SimInv, TypeOK
<1>2. SimInv'
  BY SubmitAllInv DEF DkgInv
<1>3. ToSet(mempool \o txs) = ToSet(mempool) \cup ToSet(txs)
  BY <1>1, ToSetConcat, ZenonT(30)
<1>4. Posted' = Posted \cup ToSet(txs)
  BY <1>1, <1>3 DEF Posted
<1>5. \A q : q # p => FinalizedBy(q)' \subseteq FinalizedBy(q) /\ Round1By(q)' \subseteq Round1By(q)
  BY <1>4 DEF FinalizedBy, Round1By
<1>6. \A q \in Participants \ {p} : OwnInv(q)'
  BY <1>1, <1>5, SameLater, OwnStays DEF DkgInv
<1>7. \A tx \in ToSet(mempool') : DueTx(working', tx)
  BY <1>1, <1>3 DEF DkgInv
<1> QED BY <1>1, <1>2, <1>6, <1>7 DEF DkgInv

----------------------------------------------------------------------------
(* The steps.                                                              *)

(* What a call of react in a ceremony finds. *)
LEMMA InCeremonyFacts ==
    ASSUME DkgInv, NEW p \in Participants, InCeremony(p)
    PROVE  /\ working = state /\ state \in State /\ state.group = None
           /\ ceremony # None /\ ceremony \in DkgCeremony /\ CeremonyPosted(ceremony, log)
           /\ RoundsCounted(ceremony) /\ RoundsCovered(ceremony)
           /\ PastRoundOne(working) <=> r1_complete(ceremony)
<1>1. ~in_block /\ state.group = None /\ ceremony # None
  BY DEF InCeremony
<1>2. working = state /\ state \in State /\ CeremonyInOrder(state) /\ ChainPosted(working, log)
  BY <1>1 DEF DkgInv, SimInv, Safe, TypeOK
<1>3. ceremony \in DkgCeremony
  BY <1>1, <1>2, StateParts DEF ceremony
<1> QED BY <1>1, <1>2, <1>3 DEF ceremony, CeremonyInOrder, ChainPosted, PastRoundOne

LEMMA BeginDkg == DkgInv /\ Begin => DkgInv'
<1> SUFFICES ASSUME DkgInv, Begin PROVE DkgInv'
  OBVIOUS
<1> DEFINE V == [i \in Ids |-> IF i \in Participants THEN enc_secret[i] ELSE None]
<1>0. PICK params \in Offered : SubmitAll(<<[type |-> "DkgBegin", params |-> params, validators |-> V]>>)
  BY DEF Begin, Submit
<1> DEFINE tx == [type |-> "DkgBegin", params |-> params, validators |-> V]
<1>1. /\ SubmitAll(<<tx>>) /\ enc_secret' = enc_secret /\ secret_r1' = secret_r1
      /\ secret_r2' = secret_r2 /\ public_key_package' = public_key_package /\ drawn' = drawn
      /\ submitted_r1' = submitted_r1 /\ submitted_r2' = submitted_r2
      /\ submitted_finalize' = submitted_finalize /\ restarts' = restarts /\ restarted' = restarted
  BY <1>0 DEF Begin, secretVars, flagVars, restartVars
<1>2. enc_secret \in [Participants -> Draw]
  BY DEF DkgInv, DkgTypeOK
<1>3. V \in Map(Ids, Draw) /\ Keys(V) = Participants
  BY <1>2, DkgAssumption, NoneAssumption DEF Map, Keys
<1>4. tx \in Tx /\ DueTx(working, tx) /\ tx.type = "DkgBegin"
  BY <1>3, DkgAssumption DEF Tx, DueTx
<1> HIDE DEF tx
<1>5. <<tx>> \in Seq(Tx) /\ ToSet(<<tx>>) = {tx}
  BY <1>4 DEF ToSet
<1>6. TypeOK'
  BY <1>1, <1>5, SubmitAllInv DEF DkgInv, SimInv
<1>7. DkgTypeOK'
  BY <1>1, <1>6 DEF DkgInv, DkgTypeOK
<1>8. \A q \in Participants : Same(q)
  BY <1>1 DEF Same
<1>9. -1 \notin Participants
  BY DkgAssumption, IdsAssumption
<1> QED BY <1>1, <1>4, <1>5, <1>7, <1>8, <1>9, PostStep

(* A faulty package arrives. *)
LEMMA PostFaultyDkg ==
    ASSUME DkgInv, NEW post \in Faulty, PostFaulty(post)
    PROVE  DkgInv'
<1> DEFINE p == post.from
           tx == Round1Tx(p, post.package)
<1>1. /\ SubmitAll(<<tx>>) /\ enc_secret' = enc_secret /\ secret_r1' = secret_r1
      /\ secret_r2' = secret_r2 /\ public_key_package' = public_key_package /\ drawn' = drawn
      /\ submitted_r1' = submitted_r1 /\ submitted_r2' = submitted_r2
      /\ submitted_finalize' = submitted_finalize /\ restarts' = restarts /\ restarted' = restarted
  BY DEF PostFaulty, Submit, Round1Tx, secretVars, flagVars, restartVars
<1>2. p \in Participants /\ p \in Ids /\ post.package \in Draw /\ post.package[1] # p
  BY DkgAssumption
<1>3. /\ tx \in Tx /\ DueTx(working, tx) /\ tx.type = "DkgRound1" /\ tx.from = p
      /\ tx.package[1] # p
  BY <1>2 DEF Tx, DueTx, Round1Tx
<1> HIDE DEF tx, p
<1>4. <<tx>> \in Seq(Tx) /\ ToSet(<<tx>>) = {tx}
  BY <1>3 DEF ToSet
<1>5. TypeOK'
  BY <1>1, <1>4, SubmitAllInv DEF DkgInv, SimInv
<1>6. DkgTypeOK'
  BY <1>1, <1>5 DEF DkgInv, DkgTypeOK
<1>7. \A q \in Participants : Same(q)
  BY <1>1 DEF Same
<1>8. FinalizedBy(p)' = FinalizedBy(p) /\ Round1By(p)' = Round1By(p) \cup {tx} /\ working' = working
  <2>1. mempool' = mempool \o <<tx>> /\ log' = log /\ working' = working /\ mempool \in Seq(Tx)
    BY <1>1 DEF SubmitAll, DkgInv, SimInv, TypeOK
  <2>2. ToSet(mempool') = ToSet(mempool) \cup {tx}
    BY <1>3, <2>1, ToSetAppend
  <2>3. Posted' = Posted \cup {tx}
    BY <2>1, <2>2 DEF Posted
  <2> QED BY <1>3, <2>1, <2>3 DEF FinalizedBy, Round1By
<1>9. OwnInv(p)'
  BY <1>1, <1>2, <1>3, <1>8 DEF DkgInv, OwnInv, PastRoundOne, Fit, Verified
<1> QED BY <1>1, <1>3, <1>4, <1>6, <1>7, <1>9, PostStep

LEMMA PostRound1Dkg ==
    ASSUME DkgInv, NEW p \in Participants, PostRound1(p)
    PROVE  DkgInv'
<1> DEFINE d == <<p, drawn[p]>>
           tx == Round1Tx(p, d)
<1>1. /\ InCeremony(p) /\ submitted_r1[p] # TRUE /\ p \notin Keys(ceremony.round1)
      /\ part1_ok(ceremony.params) /\ secret_r1' = [secret_r1 EXCEPT ![p] = d] /\ drawn' = [drawn EXCEPT ![p] = drawn[p] + 1]
      /\ submitted_r1' = [submitted_r1 EXCEPT ![p] = TRUE] /\ SubmitAll(<<tx>>)
      /\ enc_secret' = enc_secret /\ secret_r2' = secret_r2
      /\ public_key_package' = public_key_package /\ submitted_r2' = submitted_r2
      /\ submitted_finalize' = submitted_finalize /\ restarts' = restarts /\ restarted' = restarted
  BY DEF PostRound1, Submit, Round1Tx, restartVars
<1>2. /\ secret_r1 \in [Participants -> Draw \cup {None}] /\ drawn \in [Participants -> Nat]
      /\ submitted_r1 \in [Participants -> BOOLEAN] /\ p \in Ids
  BY DkgAssumption DEF DkgInv, DkgTypeOK
<1>3. d \in Draw /\ d[1] = p
  BY <1>2 DEF Draw
<1>4. tx \in Tx /\ DueTx(working, tx) /\ tx.type = "DkgRound1" /\ tx.from = p /\ tx.package = d
  BY <1>2, <1>3 DEF Tx, DueTx, Round1Tx
<1> HIDE DEF tx, d
<1>5. <<tx>> \in Seq(Tx) /\ ToSet(<<tx>>) = {tx}
  BY <1>4 DEF ToSet
<1>6. TypeOK'
  BY <1>1, <1>5, SubmitAllInv DEF DkgInv, SimInv
<1>7. DkgTypeOK'
  BY <1>1, <1>2, <1>3, <1>6 DEF DkgInv, DkgTypeOK
<1>8. \A q \in Participants \ {p} : Same(q)
  BY <1>1, <1>2 DEF Same
<1>9. FinalizedBy(p) = {}
  <2>1. ~PastRoundOne(working)
    BY <1>1, InCeremonyFacts DEF InCeremony, RoundsCovered
  <2> QED BY <2>1 DEF DkgInv, OwnInv
<1>10. FinalizedBy(p)' = {} /\ Round1By(p)' = Round1By(p) \cup {tx}
  <2>1. Posted' = Posted \cup {tx}
    <3>1. mempool' = mempool \o <<tx>> /\ log' = log /\ mempool \in Seq(Tx)
      BY <1>1 DEF SubmitAll, DkgInv, SimInv, TypeOK
    <3>2. ToSet(mempool') = ToSet(mempool) \cup {tx}
      BY <1>4, <3>1, ToSetAppend
    <3> QED BY <3>1, <3>2 DEF Posted
  <2> QED BY <1>4, <1>9, <2>1 DEF FinalizedBy, Round1By
<1>11. OwnInv(p)'
  <2>1. OwnInv(p)
    BY DEF DkgInv
  <2>2. secret_r2[p] = None /\ (p \notin restarted => drawn[p] = 1)
    BY <1>1, <2>1 DEF OwnInv
  <2>3. p \notin restarted => d = <<p, 1>>
    BY <2>2 DEF d
  <2>4. secret_r2'[p] = None /\ submitted_r1'[p] /\ secret_r1'[p][1] = p
    BY <1>1, <1>2, <1>3, <2>2
  <2>5. Fit(working)'
    <3>1. working = state /\ state.ceremony # None /\ working' = working
      BY <1>1, InCeremonyFacts DEF ceremony, SubmitAll
    <3> QED BY <1>1, <3>1 DEF Fit, ceremony
  <2> QED BY <1>1, <1>4, <1>10, <2>1, <2>3, <2>4, <2>5 DEF OwnInv
<1> QED BY <1>1, <1>4, <1>5, <1>7, <1>8, <1>11, PostStep

(* A call that only remembers that round 1 is behind it, or loses its secret. *)
LEMMA RememberDkg ==
    ASSUME DkgInv, NEW p \in Participants, RememberRound1(p) \/ MissingSecretR1(p) \/ FailRound2(p)
    PROVE  DkgInv'
<1>1. /\ submitted_r1' = [submitted_r1 EXCEPT ![p] = TRUE] /\ UNCHANGED simVars
      /\ secret_r1' = secret_r1 \/ secret_r1' = [secret_r1 EXCEPT ![p] = None]
      /\ enc_secret' = enc_secret /\ secret_r2' = secret_r2
      /\ public_key_package' = public_key_package /\ drawn' = drawn
      /\ submitted_r2' = submitted_r2 /\ submitted_finalize' = submitted_finalize
      /\ restarts' = restarts /\ restarted' = restarted
  BY DEF RememberRound1, MissingSecretR1, FailRound2, Round2Due, PastRound1, secretVars, restartVars
<1>2. /\ submitted_r1 \in [Participants -> BOOLEAN]
      /\ secret_r1 \in [Participants -> Draw \cup {None}]
  BY DEF DkgInv, DkgTypeOK
<1>3. DkgTypeOK'
  BY <1>1, <1>2 DEF DkgInv, DkgTypeOK, TypeOK, simVars
<1>4. \A q \in Participants \ {p} : Same(q)
  BY <1>1, <1>2 DEF Same
<1>5. FinalizedBy(p)' = FinalizedBy(p) /\ Round1By(p)' = Round1By(p) /\ working' = working
  BY <1>1 DEF FinalizedBy, Round1By, Posted, simVars
<1>6. submitted_r1'[p] /\ (secret_r1'[p] = secret_r1[p] \/ secret_r1'[p] = None)
  BY <1>1, <1>2
<1>7. OwnInv(p)'
  BY <1>1, <1>5, <1>6 DEF DkgInv, OwnInv, PastRoundOne, Fit, Verified
<1> QED BY <1>1, <1>3, <1>4, <1>7, QuietStep

LEMMA ListTyped == ASSUME NEW T, NEW n \in Nat, NEW f \in [1 .. n -> T] PROVE f \in Seq(T)
OBVIOUS

(* The envelopes of a round 2. *)
LEMMA EnvelopesTyped ==
    ASSUME NEW p \in Ids, ceremony \in DkgCeremony, Keys(ceremony.round1) \subseteq Keys(ceremony.validators),
           secret_r1[p] \in Draw, NEW others, others = InOrder(Keys(ceremony.round1) \ {p}),
           NEW txs, txs = [i \in 1 .. Len(others) |-> EnvelopeTo(p, others[i])]
    PROVE  txs \in Seq(Tx) /\ \A tx \in ToSet(txs) : tx.type = "DkgRound2"
<1> DEFINE S == Keys(ceremony.round1) \ {p}
           n == Cardinality(S)
<1>1. ceremony.round1 \in Map(Ids, Draw) /\ ceremony.validators \in Map(Ids, Draw)
  BY DEF DkgCeremony
<1>2. S \subseteq Ids /\ S \subseteq Keys(ceremony.validators) /\ IsFiniteSet(S) /\ S \subseteq Nat
  <2>1. Keys(ceremony.round1) \subseteq Ids /\ IsFiniteSet(Keys(ceremony.round1))
    BY <1>1, KeysTyped, KeysFinite
  <2>2. IsFiniteSet(S)
    BY <2>1, FS_Subset
  <2> QED BY <2>1, <2>2, IdsAssumption
<1>3. n \in Nat /\ others \in [1 .. n -> S]
  BY <1>2, InOrderLists
<1> HIDE DEF n, S
<1>4. Len(others) = n
  BY <1>3
<1>5. \A q \in S : ceremony.validators[q] \in Draw /\ q \in Ids
  BY <1>1, <1>2, KeysTyped
<1>6. \A q \in S : EnvelopeTo(p, q) \in Tx /\ EnvelopeTo(p, q).type = "DkgRound2"
  BY <1>5 DEF EnvelopeTo, Tx, Sealed
<1>7. txs \in [1 .. n -> Tx] /\ \A i \in 1 .. n : txs[i].type = "DkgRound2"
  BY <1>3, <1>4, <1>6
<1>8. DOMAIN txs = 1 .. n
  BY <1>7
<1>9. txs \in Seq(Tx)
  BY <1>3, <1>7, ListTyped
<1>10. \A tx \in ToSet(txs) : tx.type = "DkgRound2"
  BY <1>7, <1>8 DEF ToSet
<1> QED BY <1>9, <1>10

LEMMA PostRound2Dkg ==
    ASSUME DkgInv, NEW p \in Participants, PostRound2(p)
    PROVE  DkgInv'
<1> DEFINE others == InOrder(Keys(ceremony.round1) \ {p})
           txs == [i \in 1 .. Len(others) |-> EnvelopeTo(p, others[i])]
<1>1. /\ InCeremony(p) /\ r1_complete(ceremony) /\ secret_r1[p] # None /\ part2_ok(p)
      /\ SubmitAll(txs) /\ secret_r1' = [secret_r1 EXCEPT ![p] = None]
      /\ secret_r2' = [secret_r2 EXCEPT ![p] = secret_r1[p]]
      /\ submitted_r1' = [submitted_r1 EXCEPT ![p] = TRUE]
      /\ submitted_r2' = [submitted_r2 EXCEPT ![p] = TRUE]
      /\ enc_secret' = enc_secret /\ public_key_package' = public_key_package /\ drawn' = drawn
      /\ submitted_finalize' = submitted_finalize /\ restarts' = restarts /\ restarted' = restarted
  BY DEF PostRound2, Round2Due, PastRound1, restartVars
<1>2. /\ secret_r1 \in [Participants -> Draw \cup {None}] /\ p \in Ids
      /\ secret_r2 \in [Participants -> Draw \cup {None}]
      /\ submitted_r1 \in [Participants -> BOOLEAN] /\ submitted_r2 \in [Participants -> BOOLEAN]
  BY DkgAssumption DEF DkgInv, DkgTypeOK
<1>3. secret_r1[p] \in Draw
  BY <1>1, <1>2
<1>4. ceremony \in DkgCeremony /\ Keys(ceremony.round1) \subseteq Keys(ceremony.validators)
  BY <1>1, InCeremonyFacts DEF RoundsCounted
<1>5. txs \in Seq(Tx) /\ \A tx \in ToSet(txs) : tx.type = "DkgRound2"
  BY <1>2, <1>3, <1>4, EnvelopesTyped
<1> HIDE DEF txs
<1>6. TypeOK'
  BY <1>1, <1>5, SubmitAllInv DEF DkgInv, SimInv
<1>7. DkgTypeOK'
  BY <1>1, <1>2, <1>3, <1>6 DEF DkgInv, DkgTypeOK
<1>8. \A q \in Participants \ {p} : Same(q)
  BY <1>1, <1>2 DEF Same
<1>9. FinalizedBy(p) = {}
  BY <1>1 DEF DkgInv, OwnInv
<1>10. FinalizedBy(p)' = {} /\ Round1By(p)' = Round1By(p)
  <2>1. Posted' = Posted \cup ToSet(txs)
    <3>1. mempool' = mempool \o txs /\ log' = log /\ mempool \in Seq(Tx)
      BY <1>1 DEF SubmitAll, DkgInv, SimInv, TypeOK
    <3>2. ToSet(mempool \o txs) = ToSet(mempool) \cup ToSet(txs)
      BY <1>5, <3>1, ToSetConcat, ZenonT(30)
    <3> QED BY <3>1, <3>2 DEF Posted
  <2> QED BY <1>5, <1>9, <2>1 DEF FinalizedBy, Round1By
<1>11. OwnInv(p)'
  <2>1. /\ secret_r1'[p] = None /\ submitted_r1'[p] /\ secret_r2'[p] = secret_r1[p]
        /\ working' = working
    BY <1>1, <1>2 DEF SubmitAll
  <2>2. OwnInv(p)
    BY DEF DkgInv
  <2>3. PastRoundOne(working) /\ Verified(working, p)
    BY <1>1, InCeremonyFacts DEF part2_ok, Verified, ceremony
  <2>4. Fit(working)' /\ PastRoundOne(working)' /\ Verified(working, p)'
    BY <1>1, <2>1, <2>2, <2>3 DEF OwnInv, Fit, PastRoundOne, Verified
  <2>5. secret_r2'[p][1] = p
    BY <1>1, <2>1, <2>2 DEF OwnInv
  <2> QED BY <1>1, <1>10, <2>1, <2>2, <2>4, <2>5 DEF OwnInv
<1>12. \A tx \in ToSet(txs) : DueTx(working, tx)
  BY <1>5 DEF DueTx
<1> QED BY <1>1, <1>5, <1>7, <1>8, <1>11, <1>12, PostStep

(* A call that ends before part3 or in its error. *)
LEMMA NoFinalizeDkg ==
    ASSUME DkgInv, NEW p \in Participants, StopBeforePart3(p) \/ FailFinalize(p)
    PROVE  DkgInv'
<1>1. /\ submitted_r1' = [submitted_r1 EXCEPT ![p] = TRUE] /\ UNCHANGED simVars
      /\ secret_r2' = secret_r2 \/ secret_r2' = [secret_r2 EXCEPT ![p] = None]
      /\ enc_secret' = enc_secret /\ secret_r1' = secret_r1
      /\ public_key_package' = public_key_package /\ drawn' = drawn
      /\ submitted_r2' = submitted_r2
      /\ \/ submitted_finalize' = submitted_finalize
         \/ submitted_finalize' = [submitted_finalize EXCEPT ![p] = p \in Keys(ceremony.finalize)]
      /\ restarts' = restarts /\ restarted' = restarted
  BY DEF StopBeforePart3, FailFinalize, FinalizeDue, PastRound1, secretVars, restartVars
<1>2. /\ submitted_r1 \in [Participants -> BOOLEAN] /\ submitted_finalize \in [Participants -> BOOLEAN]
      /\ secret_r2 \in [Participants -> Draw \cup {None}]
  BY DEF DkgInv, DkgTypeOK
<1>3. submitted_finalize' \in [Participants -> BOOLEAN]
  <2> DEFINE seen == p \in Keys(ceremony.finalize)
  <2>1. seen \in BOOLEAN
    OBVIOUS
  <2>2. \/ submitted_finalize' = submitted_finalize
        \/ submitted_finalize' = [submitted_finalize EXCEPT ![p] = seen]
    BY <1>1
  <2> HIDE DEF seen
  <2> QED BY <1>2, <2>1, <2>2
<1>4. /\ secret_r2' \in [Participants -> Draw \cup {None}]
      /\ secret_r2'[p] = secret_r2[p] \/ secret_r2'[p] = None
      /\ \A q \in Participants \ {p} : secret_r2'[q] = secret_r2[q]
  BY <1>1, <1>2
<1>5. DkgTypeOK'
  BY <1>1, <1>2, <1>3, <1>4 DEF DkgInv, DkgTypeOK, TypeOK, simVars
<1>6. \A q \in Participants \ {p} : Same(q)
  BY <1>1, <1>2, <1>4 DEF Same
<1>7. FinalizedBy(p)' = FinalizedBy(p) /\ Round1By(p)' = Round1By(p) /\ working' = working
  BY <1>1 DEF FinalizedBy, Round1By, Posted, simVars
<1>8. submitted_r1'[p]
  BY <1>1, <1>2
<1>9. OwnInv(p)'
  BY <1>1, <1>4, <1>7, <1>8 DEF DkgInv, OwnInv, PastRoundOne, Fit, Verified
<1> QED BY <1>1, <1>5, <1>6, <1>9, QuietStep

LEMMA PostFinalizeDkg ==
    ASSUME DkgInv, NEW p \in Participants, PostFinalize(p)
    PROVE  DkgInv'
<1> DEFINE k == part3_pkp(p)
           tx == FinalizeTx(p, k)
<1>1. /\ InCeremony(p) /\ r1_complete(ceremony) /\ secret_r2[p] # None
      /\ secret_r2' = [secret_r2 EXCEPT ![p] = None]
      /\ public_key_package' = [public_key_package EXCEPT ![p] = k]
      /\ submitted_r1' = [submitted_r1 EXCEPT ![p] = TRUE]
      /\ submitted_finalize' = [submitted_finalize EXCEPT ![p] = TRUE] /\ SubmitAll(<<tx>>)
      /\ enc_secret' = enc_secret /\ secret_r1' = secret_r1 /\ drawn' = drawn
      /\ submitted_r2' = submitted_r2 /\ restarts' = restarts /\ restarted' = restarted
  BY DEF PostFinalize, FinalizeDue, PastRound1, KeyAfterPart3, Submit, FinalizeTx, restartVars
<1>2. /\ secret_r2 \in [Participants -> Draw \cup {None}] /\ p \in Ids
      /\ public_key_package \in [Participants -> PublicKeyPackage \cup {None}]
      /\ submitted_r1 \in [Participants -> BOOLEAN] /\ submitted_finalize \in [Participants -> BOOLEAN]
  BY DkgAssumption DEF DkgInv, DkgTypeOK
<1>3. ceremony \in DkgCeremony /\ PastRoundOne(working) /\ working.ceremony = ceremony
  BY <1>1, InCeremonyFacts DEF ceremony
<1>4. k = [ceremony.round1 EXCEPT ![p] = secret_r2[p]] /\ ceremony.round1 \in Map(Ids, Draw)
      /\ secret_r2[p] \in Draw
  BY <1>1, <1>2, <1>3 DEF part3_pkp, DkgCeremony
<1>0. OwnInv(p)
  BY DEF DkgInv
<1>5. k \in PublicKeyPackage /\ KeyFrom(ceremony, p, k) /\ k # None /\ Fit(working)
  <2>1. Fit(working) /\ Verified(working, p) /\ secret_r2[p][1] = p
    BY <1>0, <1>1 DEF OwnInv
  <2>2. Keys(ceremony.round1) = Participants /\ ceremony # None
    BY <1>1, InCeremonyFacts DEF RoundsCovered, CeremonyPosted
  <2>3. \A q \in Participants \ {p} : ceremony.round1[q][1] = q
    BY <1>3, <2>1, <2>2 DEF Verified
  <2>4. \A q \in Participants : k[q][1] = q
    BY <1>4, <2>1, <2>3, DkgAssumption DEF Map
  <2> QED BY <1>2, <1>4, <2>1, <2>4, NoneAssumption DEF PublicKeyPackage, Map, KeyFrom
<1> HIDE DEF k
<1>6. /\ tx \in Tx /\ tx.type = "DkgFinalize" /\ tx.from = p /\ tx.pkp = k
  BY <1>2, <1>5 DEF Tx, FinalizeTx
<1> HIDE DEF tx
<1>7. DueTx(working, tx)
  BY <1>3, <1>5, <1>6 DEF DueTx
<1>8. <<tx>> \in Seq(Tx) /\ ToSet(<<tx>>) = {tx}
  BY <1>6 DEF ToSet
<1>9. TypeOK'
  BY <1>1, <1>8, SubmitAllInv DEF DkgInv, SimInv
<1>10. DkgTypeOK'
  BY <1>1, <1>2, <1>5, <1>9 DEF DkgInv, DkgTypeOK
<1>11. \A q \in Participants \ {p} : Same(q)
  BY <1>1, <1>2 DEF Same
<1>12. OwnInv(p) /\ FinalizedBy(p) = {}
  BY <1>1 DEF DkgInv, OwnInv
<1>13. FinalizedBy(p)' = {tx} /\ Round1By(p)' = Round1By(p) /\ working' = working
  <2>1. mempool' = mempool \o <<tx>> /\ log' = log /\ working' = working /\ mempool \in Seq(Tx)
    BY <1>1 DEF SubmitAll, DkgInv, SimInv, TypeOK
  <2>2. ToSet(mempool') = ToSet(mempool) \cup {tx}
    BY <1>6, <2>1, ToSetAppend
  <2>3. Posted' = Posted \cup {tx}
    BY <2>1, <2>2 DEF Posted
  <2> QED BY <1>6, <1>12, <2>1, <2>3 DEF FinalizedBy, Round1By
<1>14. OwnInv(p)'
  <2>1. secret_r1'[p] = None /\ secret_r2'[p] = None /\ submitted_r1'[p] /\ public_key_package'[p] = k
    BY <1>1, <1>2, <1>12 DEF OwnInv
  <2>2. PastRoundOne(working)'
    BY <1>3, <1>13 DEF PastRoundOne
  <2> QED BY <1>1, <1>5, <1>6, <1>12, <1>13, <2>1, <2>2 DEF OwnInv
<1> QED BY <1>1, <1>6, <1>7, <1>8, <1>10, <1>11, <1>14, PostStep

LEMMA RestartDkg ==
    ASSUME DkgInv, NEW p \in Participants, Restart(p)
    PROVE  DkgInv'
<1> DEFINE d == <<p, drawn[p]>>
<1>1. /\ restarts < MaxRestarts /\ restarts' = restarts + 1 /\ restarted' = restarted \cup {p}
      /\ enc_secret' = [enc_secret EXCEPT ![p] = d] /\ drawn' = [drawn EXCEPT ![p] = drawn[p] + 1]
      /\ secret_r1' = [secret_r1 EXCEPT ![p] = None] /\ secret_r2' = [secret_r2 EXCEPT ![p] = None]
      /\ submitted_r1' = [submitted_r1 EXCEPT ![p] = FALSE]
      /\ submitted_r2' = [submitted_r2 EXCEPT ![p] = FALSE]
      /\ submitted_finalize' = [submitted_finalize EXCEPT ![p] = FALSE]
      /\ public_key_package' = [public_key_package EXCEPT ![p] = None] /\ UNCHANGED simVars
  BY DEF Restart
<1>2. /\ enc_secret \in [Participants -> Draw] /\ drawn \in [Participants -> Nat] /\ p \in Ids
      /\ secret_r1 \in [Participants -> Draw \cup {None}]
      /\ secret_r2 \in [Participants -> Draw \cup {None}]
      /\ submitted_r1 \in [Participants -> BOOLEAN] /\ submitted_r2 \in [Participants -> BOOLEAN]
      /\ submitted_finalize \in [Participants -> BOOLEAN]
      /\ public_key_package \in [Participants -> PublicKeyPackage \cup {None}]
      /\ restarts \in 0 .. MaxRestarts /\ restarted \subseteq Participants
  BY DkgAssumption DEF DkgInv, DkgTypeOK
<1>3. d \in Draw
  BY <1>2 DEF Draw
<1> HIDE DEF d
<1>4. restarts' \in 0 .. MaxRestarts
  BY <1>1, <1>2, DkgAssumption
<1>5. TypeOK'
  BY <1>1 DEF DkgInv, SimInv, TypeOK, simVars
<1>6. DkgTypeOK'
  BY <1>1, <1>2, <1>3, <1>4, <1>5 DEF DkgTypeOK
<1>7. \A q \in Participants \ {p} : Same(q)
  BY <1>1, <1>2 DEF Same
<1>8. FinalizedBy(p)' = FinalizedBy(p) /\ working' = working
  BY <1>1 DEF FinalizedBy, Posted, simVars
<1>9. OwnInv(p)'
  <2>1. /\ secret_r1'[p] = None /\ secret_r2'[p] = None /\ public_key_package'[p] = None
        /\ p \in restarted'
    BY <1>1, <1>2
  <2>2. FinalizedBy(p)' # {} => PastRoundOne(working)'
    BY <1>8 DEF DkgInv, OwnInv, PastRoundOne
  <2> QED BY <2>1, <2>2 DEF OwnInv
<1> QED BY <1>1, <1>6, <1>7, <1>9, QuietStep

(* A block begins or ends, or takes one transaction from the mempool. *)
LEMMA BlockDkg == DkgInv /\ CommitBlock => DkgInv'
<1> SUFFICES ASSUME DkgInv, CommitBlock PROVE DkgInv'
  OBVIOUS
<1>1. /\ enc_secret' = enc_secret /\ secret_r1' = secret_r1
      /\ secret_r2' = secret_r2 /\ public_key_package' = public_key_package /\ drawn' = drawn
      /\ submitted_r1' = submitted_r1 /\ submitted_r2' = submitted_r2
      /\ submitted_finalize' = submitted_finalize /\ restarts' = restarts /\ restarted' = restarted
      /\ BeginBlock \/ PopTx \/ EndBlock
  BY DEF CommitBlock, secretVars, flagVars, restartVars
<1>2. SimInv'
  BY <1>1, BeginBlockInv, PopTxInv, EndBlockInv DEF DkgInv
<1>3. DkgTypeOK'
  BY <1>1, <1>2 DEF DkgInv, DkgTypeOK, SimInv
<1>4. \A q : Same(q)
  BY <1>1 DEF Same
<1>5. ASSUME NEW q \in Participants, Posted' \subseteq Posted, Later(working, working')
      PROVE  OwnInv(q)'
  <2>1. FinalizedBy(q)' \subseteq FinalizedBy(q) /\ Round1By(q)' \subseteq Round1By(q)
    BY <1>5 DEF FinalizedBy, Round1By
  <2> QED BY <1>4, <1>5, <2>1, OwnStays DEF DkgInv
<1>6. CASE BeginBlock \/ EndBlock
  <2>1. working' = working /\ mempool' = mempool /\ log' = log
    BY <1>6 DEF BeginBlock, EndBlock
  <2>2. Posted' \subseteq Posted /\ Later(working, working')
    BY <2>1, SameLater DEF Posted
  <2>3. \A q \in Participants : OwnInv(q)'
    BY <1>5, <2>2
  <2> QED BY <1>2, <1>3, <2>1, <2>3 DEF DkgInv
<1>7. CASE PopTx
  <2> DEFINE tx == Head(mempool)
  <2>1. mempool # <<>> /\ mempool' = Tail(mempool) /\ mempool \in Seq(Tx) /\ working \in State
    BY <1>7 DEF PopTx, DkgInv, SimInv, TypeOK
  <2>2. tx \in Tx /\ ToSet(mempool) = {tx} \cup ToSet(mempool')
    BY <2>1, ToSetTail
  <2>3. \/ /\ Accepts(working, tx) /\ working' = apply_tx(working, tx) /\ log' = log \cup {tx}
        \/ working' = working /\ log' = log
    BY <1>7 DEF PopTx
  <2> HIDE DEF tx
  <2>4. OneGroup(working) /\ CeremonyInOrder(working) /\ ChainPosted(working, log) /\ DueTx(working, tx)
    BY <2>2 DEF DkgInv, SimInv, Safe
  <2>5. Posted' \subseteq Posted
    BY <2>2, <2>3 DEF Posted
  <2>6. Later(working, working')
    BY <2>1, <2>2, <2>3, <2>4, ApplyLater, SameLater
  <2>7. ChainPosted(working', log')
    BY <2>1, <2>2, <2>3, <2>4, ApplyPosted
  <2>8. \A old \in ToSet(mempool') : DueTx(working', old)
    <3>1. \A old \in ToSet(mempool') : DueTx(working, old)
      BY <2>2 DEF DkgInv
    <3> QED BY <2>6, <3>1, DueStays
  <2>9. \A q \in Participants : OwnInv(q)'
    BY <1>5, <2>5, <2>6
  <2> QED BY <1>2, <1>3, <2>7, <2>8, <2>9 DEF DkgInv
<1> QED BY <1>1, <1>6, <1>7

LEMMA NextDkg == DkgInv /\ [Next]_vars => DkgInv'
<1> SUFFICES ASSUME DkgInv, [Next]_vars PROVE DkgInv'
  OBVIOUS
<1>1. CASE Begin
  BY <1>1, BeginDkg
<1>2. ASSUME NEW p \in Participants, React(p) PROVE DkgInv'
  BY <1>2, PostRound1Dkg, RememberDkg, PostRound2Dkg, NoFinalizeDkg, PostFinalizeDkg DEF React
<1>3. ASSUME NEW p \in Participants, Restart(p) PROVE DkgInv'
  BY <1>3, RestartDkg
<1>4. CASE CommitBlock
  BY <1>4, BlockDkg
<1>6. ASSUME NEW post \in Faulty, PostFaulty(post) PROVE DkgInv'
  BY <1>6, PostFaultyDkg
<1>5. CASE UNCHANGED vars
  <2>1. /\ UNCHANGED simVars /\ enc_secret' = enc_secret /\ secret_r1' = secret_r1
        /\ secret_r2' = secret_r2 /\ public_key_package' = public_key_package /\ drawn' = drawn
        /\ submitted_r1' = submitted_r1 /\ submitted_r2' = submitted_r2
        /\ submitted_finalize' = submitted_finalize /\ restarts' = restarts /\ restarted' = restarted
    BY <1>5 DEF vars, secretVars, flagVars, restartVars
  <2>2. DkgTypeOK'
    BY <2>1 DEF DkgInv, DkgTypeOK, TypeOK, simVars
  <2>3. \A q : Same(q)
    BY <2>1 DEF Same
  <2>4. \A q \in Participants : OwnInv(q)'
    <3> TAKE q \in Participants
    <3>1. FinalizedBy(q)' = FinalizedBy(q) /\ Round1By(q)' = Round1By(q) /\ working' = working
      BY <2>1 DEF FinalizedBy, Round1By, Posted, simVars
    <3> QED BY <2>3, <3>1, SameLater, OwnStays DEF DkgInv
  <2> QED BY <2>1, <2>2, <2>3, <2>4, QuietStep
<1> QED BY <1>1, <1>2, <1>3, <1>4, <1>5, <1>6 DEF Next

----------------------------------------------------------------------------
(* The theorems.                                                           *)

(* Everything in a ceremony or a group was posted by whom it names, and a  *)
(* participant's memory agrees with what it has posted (apply_tx,          *)
(* DkgParticipant::react).                                                 *)
THEOREM DkgInvariant == Spec => []DkgInv
BY InitDkg, NextDkg, PTL DEF Spec

(* The chain's and the participants' variables keep their types. *)
THEOREM DkgTyped == Spec => []DkgTypeOK
<1>1. DkgInv => DkgTypeOK
  BY DEF DkgInv
<1> QED BY <1>1, DkgInvariant, PTL

(* Whoever was restarted and whenever, and whatever faulty package was     *)
(* posted, the promoted key is made of polynomials that were posted on the *)
(* chain, one per participant and each drawn by it, and nobody holds       *)
(* another key (part2 and part3 in react, the comparison of finalizes in   *)
(* apply_tx).                                                              *)
THEOREM DkgPromotedKeyIsPosted == Spec => []PromotedKeyIsPosted
<1>1. DkgInv => PromotedKeyIsPosted
  <2> SUFFICES ASSUME DkgInv, state.group # None
               PROVE  /\ Keys(state.group.pkp) = Participants
                      /\ \A p \in Participants :
                            /\ Round1Tx(p, state.group.pkp[p]) \in log
                            /\ state.group.pkp[p][1] = p
                            /\ public_key_package[p] \in {None, state.group.pkp}
    BY DEF PromotedKeyIsPosted, Round1Tx
  <2>1. GroupPosted(state.group, log)
    BY DEF DkgInv, SimInv, ChainPosted
  <2>2. ASSUME NEW p \in Participants PROVE public_key_package[p] \in {None, state.group.pkp}
    <3>1. FinalizeTx(p, state.group.pkp) \in FinalizedBy(p) /\ FinalizeTx(p, state.group.pkp).pkp = state.group.pkp
      BY <2>1 DEF GroupPosted, FinalizedBy, FinalizeTx, Posted
    <3> QED BY <3>1 DEF DkgInv, OwnInv
  <2> QED BY <2>1, <2>2 DEF GroupPosted
<1> QED BY <1>1, DkgInvariant, PTL

(* The key of the in-process generation for members that have drawn poly. *)
LEMMA GeneratedKey ==
    ASSUME NEW params \in MpcParams, part1_ok(params), NEW poly
    PROVE  generate_with_dkg(params, poly).pkp =
               [i \in Ids |-> IF i \in Members(params) THEN poly[i] ELSE None]
<1>1. \A i \in Members(params) : part3_accepts(poly, inbox_r2(params, poly, i), i)
  BY DEF part3_accepts, inbox_r2, sent_r2
<1> QED BY <1>1 DEF generate_with_dkg

(* A participant whose process has run all the time ends with exactly the  *)
(* key of the group, whatever the others went through; when nobody was     *)
(* restarted that is the key generate_with_dkg makes of the same draws.    *)
THEOREM DkgGroupKeyHeld == Spec => []GroupKeyHeld
<1>1. DkgInv => GroupKeyHeld
  <2> SUFFICES ASSUME DkgInv, state.group # None
               PROVE  /\ \A p \in Participants \ restarted : public_key_package[p] = state.group.pkp
                      /\ restarted = {} /\ Participants = Members(state.group.params) =>
                            state.group.pkp = generate_with_dkg(state.group.params,
                                                  [p \in Participants |-> <<p, 1>>]).pkp
    BY DEF GroupKeyHeld
  <2> DEFINE k == state.group.pkp
             params == state.group.params
  <2>1. GroupPosted(state.group, log)
    BY DEF DkgInv, SimInv, ChainPosted
  <2>2. state \in State /\ state.group \in GroupConfig
    BY StateParts DEF DkgInv, SimInv, TypeOK
  <2>3. k \in Map(Ids, Draw) /\ params \in MpcParams
    BY <2>2 DEF GroupConfig, PublicKeyPackage
  <2>4. /\ Keys(k) = Participants /\ part1_ok(params)
        /\ \A p \in Participants :
              Round1Tx(p, k[p]) \in log /\ FinalizeTx(p, k) \in log /\ k[p][1] = p
    BY <2>1 DEF GroupPosted
  <2> HIDE DEF k, params
  <2>5. ASSUME NEW p \in Participants, p \notin restarted PROVE public_key_package[p] = k
    <3>1. FinalizeTx(p, k) \in FinalizedBy(p) /\ FinalizeTx(p, k).pkp = k
      BY <2>4 DEF FinalizedBy, FinalizeTx, Posted
    <3> QED BY <2>5, <3>1 DEF DkgInv, OwnInv
  <2>6. ASSUME restarted = {}, Participants = Members(params)
        PROVE  k = generate_with_dkg(params, [p \in Participants |-> <<p, 1>>]).pkp
    <3> DEFINE poly == [p \in Participants |-> <<p, 1>>]
    <3>1. ASSUME NEW p \in Participants PROVE k[p] = poly[p]
      <4>1. Round1Tx(p, k[p]) \in Round1By(p) /\ Round1Tx(p, k[p]).package = k[p]
        BY <2>4 DEF Round1By, Round1Tx, Posted
      <4> QED BY <2>4, <2>6, <4>1 DEF DkgInv, OwnInv
    <3> HIDE DEF poly
    <3>2. k = [i \in Ids |-> IF i \in Participants THEN poly[i] ELSE None]
      BY <2>3, <2>4, <3>1 DEF Map, Keys
    <3>3. generate_with_dkg(params, poly).pkp = [i \in Ids |-> IF i \in Participants THEN poly[i] ELSE None]
      BY <2>3, <2>4, <2>6, GeneratedKey
    <3> QED BY <3>2, <3>3 DEF poly
  <2> QED BY <2>5, <2>6 DEF k, params
<1> QED BY <1>1, DkgInvariant, PTL
=============================================================================
