----------------------------- MODULE LossyFifo ------------------------------
(***************************************************************************)
(* What the mesh (sapphire-net) promises its callers, and all of it: on    *)
(* each link a payload arrives at most once and behind the ones sent       *)
(* before it; any of them may be lost; links are independent of each       *)
(* other.  Mesh is shown to implement this; Replicas is built on it.       *)
(***************************************************************************)
EXTENDS Naturals, Sequences

CONSTANTS
    Links,    \* the pairs <<sender, receiver>>
    Payloads  \* what is sent

VARIABLES
    sent,  \* sent[s]: all that s has sent
    queue  \* queue[l]: sent over link l, neither delivered nor lost

Senders == {l[1] : l \in Links}
Receivers == {l[2] : l \in Links}

Init ==
    /\ sent = [s \in Senders |-> <<>>]
    /\ queue = [l \in Links |-> <<>>]

(* s sends the list ps, which sets out for the receivers in R only. *)
Send(s, ps, R) ==
    /\ sent' = [sent EXCEPT ![s] = @ \o ps]
    /\ queue' = [l \in Links |-> IF l[1] = s /\ l[2] \in R THEN queue[l] \o ps ELSE queue[l]]

(* The receiver takes the oldest payload of the link. *)
Deliver(l) ==
    /\ UNCHANGED sent
    /\ queue[l] # <<>>
    /\ queue' = [queue EXCEPT ![l] = Tail(@)]

(* b is what is left of a after some of its elements are taken out. *)
Remains(b, a) ==
    \E f \in [DOMAIN b -> DOMAIN a] :
        /\ \A i, j \in DOMAIN b : i < j => f[i] < f[j]
        /\ \A i \in DOMAIN b : b[i] = a[f[i]]

(* Payloads are lost, and the others keep their order. *)
Lose ==
    /\ UNCHANGED sent
    /\ DOMAIN queue' = Links
    /\ \A l \in Links : Remains(queue'[l], queue[l])

Next ==
    \/ Lose
    \/ \E l \in Links : Deliver(l)
    \/ \E s \in Senders, p \in Payloads, R \in SUBSET Receivers : Send(s, <<p>>, R)

Spec == Init /\ [][Next]_<<sent, queue>>
=============================================================================
