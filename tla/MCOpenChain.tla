---------------------------- MODULE MCOpenChain -----------------------------
(***************************************************************************)
(* OpenChain with three scenarios: everything around setting up a group    *)
(* (DkgInputs), everything around one signing request (SignInputs), and a  *)
(* request under parameters MpcParams::new would refuse and serde does not *)
(* (OddInputs).  The first two contain the transactions of a regular run   *)
(* and the ones that must be turned away: from a stranger, to oneself, with *)
(* a different key, with stale nonces, with a second content for one id.   *)
(***************************************************************************)
EXTENDS OpenChain, TLC

(* A BTreeMap over K given by the entries of f. *)
AsMap(f, K) == [k \in K |-> IF k \in DOMAIN f THEN f[k] ELSE None]

MCIds == 1 .. 3
MCUuids == {1}

TwoOfTwo == [threshold |-> 2, total |-> 2]
TwoOfThree == [threshold |-> 2, total |-> 3]

KeysOfTwo == AsMap(1 :> <<1, 0>> @@ 2 :> <<2, 0>>, MCIds)
KeyA == AsMap(1 :> <<1, 1>> @@ 2 :> <<2, 1>>, MCIds)
KeyB == AsMap(1 :> <<1, 1>> @@ 2 :> <<2, 2>>, MCIds)

SealedTo(from, to) == [key |-> <<to, 0>>, package |-> [poly |-> <<from, 1>>, to |-> to]]

DkgInputs ==
    {[type |-> "InitGroup", params |-> TwoOfTwo, pkp |-> KeyA, validators |-> {1, 2}]}
    \cup {[type |-> "InitGroup", params |-> TwoOfTwo, pkp |-> KeyB, validators |-> {1, 2}]}
    \cup {[type |-> "DkgBegin", params |-> TwoOfTwo, validators |-> KeysOfTwo]}
    \cup {[type |-> "DkgRound1", from |-> i, package |-> <<i, 1>>] : i \in {1, 2}}
    \cup {[type |-> "DkgRound2", from |-> p[1], to |-> p[2], sealed |-> SealedTo(p[1], p[2])]
             : p \in {<<1, 2>>, <<2, 1>>, <<2, 2>>, <<1, 3>>}}
    \cup {[type |-> "DkgFinalize", from |-> i, pkp |-> k] : i \in {1, 2}, k \in {KeyA}}
    \cup {[type |-> "DkgFinalize", from |-> 2, pkp |-> KeyB]}

GroupKey == [i \in MCIds |-> <<i, 0>>]

PackageOf(S) ==
    [commitments |-> [i \in MCIds |-> IF i \in S THEN <<i, 1>> ELSE None], message |-> "m1"]

ShareOf(i, S) ==
    [nonces |-> <<i, 1>>, signing_package |-> PackageOf(S), randomizer |-> "alpha",
     pkp |-> GroupKey]

SignInputs ==
    {[type |-> "InitGroup", params |-> TwoOfThree, pkp |-> GroupKey, validators |-> MCIds]}
    \cup {[type |-> "SubmitRequest", request_id |-> 1, message |-> m, randomizer |-> "alpha"]
             : m \in {"m1", "m2"}}
    \cup {[type |-> "SubmitCommitment", request_id |-> 1, validator |-> i,
           commitments |-> <<i, 1>>] : i \in MCIds}
    \cup {[type |-> "SubmitShare", request_id |-> 1, validator |-> i, share |-> ShareOf(i, S)]
             : i \in MCIds, S \in {{1, 2}, {1, 3}, {2, 3}}}

(* No signer at all, more signers than validators, a ceremony of nobody. *)
OddInputs ==
    {[type |-> "InitGroup", params |-> [threshold |-> t, total |-> 3], pkp |-> GroupKey,
      validators |-> MCIds] : t \in {0, 4}}
    \cup {[type |-> "DkgBegin", params |-> [threshold |-> 0, total |-> 0],
           validators |-> Empty(MCIds)]}
    \cup {[type |-> "SubmitRequest", request_id |-> 1, message |-> "m1", randomizer |-> "alpha"]}
    \cup {[type |-> "SubmitCommitment", request_id |-> 1, validator |-> i,
           commitments |-> <<i, 1>>] : i \in MCIds}
    \cup {[type |-> "SubmitShare", request_id |-> 1, validator |-> 1, share |-> ShareOf(1, {})]}
    \cup {[type |-> "DkgFinalize", from |-> 1, pkp |-> GroupKey]}

MCScenarios == {DkgInputs, SignInputs, OddInputs}
=============================================================================
