----------------------------- MODULE MeshProofs -----------------------------
(***************************************************************************)
(* The properties of Mesh, for every set of nodes and lists of peers, all  *)
(* capacities of the queues, and any number of broadcasts and faults.      *)
(***************************************************************************)
EXTENDS Mesh, TLAPS

----------------------------------------------------------------------------
(* Connections and their ends.                                             *)

Dialer(c) == <<c, c[1]>>
Responder(c) == <<c, c[3]>>

LEMMA ConnEnds ==
    ASSUME NEW c \in Conns
    PROVE  /\ c[1] \in Nodes /\ c[3] \in Nodes /\ c[2] \in 0 .. MaxFaults
           /\ c[1] \in Nat /\ c[3] \in Nat /\ c[1] < c[3] /\ c[1] # c[3]
           /\ c = <<c[1], c[2], c[3]>>
           /\ Dialer(c) \in Ends /\ Responder(c) \in Ends /\ Dialer(c) # Responder(c)
           /\ Other(Dialer(c)) = Responder(c) /\ Other(Responder(c)) = Dialer(c)
           /\ Dialer(c)[1] = c /\ Dialer(c)[2] = c[1]
           /\ Responder(c)[1] = c /\ Responder(c)[2] = c[3]
           /\ Dialer(c) = <<c, c[1]>> /\ Responder(c) = <<c, c[3]>>
<1>1. /\ c \in Nodes \X (0 .. MaxFaults) \X Nodes /\ Dials(c[1], c[3])
  BY DEF Conns
<1>2. c[1] \in Nodes /\ c[3] \in Nodes /\ c[2] \in 0 .. MaxFaults /\ c = <<c[1], c[2], c[3]>>
  BY <1>1
<1>3. c[1] \in Nat /\ c[3] \in Nat /\ c[1] < c[3]
  BY <1>1, <1>2, MeshAssumption DEF Dials
<1>4. c[1] # c[3]
  BY <1>3
<1> DEFINE d == <<c, c[1]>>
           r == <<c, c[3]>>
<1>5. d[1] = c /\ d[2] = c[1] /\ r[1] = c /\ r[2] = c[3] /\ d # r
  BY <1>4
<1>6. d \in Ends /\ r \in Ends
  BY <1>2, <1>5 DEF Ends
<1>7. Other(d) = r /\ Other(r) = d
  BY <1>4, <1>5 DEF Other
<1> QED BY <1>2, <1>3, <1>4, <1>5, <1>6, <1>7 DEF Dialer, Responder

LEMMA EndOf ==
    ASSUME NEW e \in Ends
    PROVE  /\ e[1] \in Conns /\ e[2] \in Nodes
           /\ e = Dialer(e[1]) \/ e = Responder(e[1])
           /\ Other(e) \in Ends /\ Other(Other(e)) = e /\ Other(e) # e
           /\ Other(e)[1] = e[1] /\ Other(e)[2] \in Nodes
<1>1. e \in Conns \X Nodes /\ e[2] \in {e[1][1], e[1][3]}
  BY DEF Ends
<1>2. e[1] \in Conns /\ e[2] \in Nodes /\ e = <<e[1], e[2]>>
  BY <1>1
<1>3. e = Dialer(e[1]) \/ e = Responder(e[1])
  BY <1>1, <1>2 DEF Dialer, Responder
<1> DEFINE c == e[1]
<1>4. /\ Other(Dialer(c)) = Responder(c) /\ Other(Responder(c)) = Dialer(c)
      /\ Dialer(c) \in Ends /\ Responder(c) \in Ends /\ Dialer(c) # Responder(c)
      /\ Dialer(c)[1] = c /\ Responder(c)[1] = c
      /\ Dialer(c)[2] \in Nodes /\ Responder(c)[2] \in Nodes
  BY <1>2, ConnEnds
<1> HIDE DEF c
<1>5. CASE e = Dialer(c)
  BY <1>2, <1>3, <1>4, <1>5 DEF c
<1>6. CASE e = Responder(c)
  BY <1>2, <1>3, <1>4, <1>6 DEF c
<1> QED BY <1>3, <1>5, <1>6 DEF c

----------------------------------------------------------------------------
(* The invariant.                                                          *)

Packet == Frame \cup [kind : Handshake]

MeshTyped ==
    /\ peers \in Configs
    /\ up \in [Nodes -> BOOLEAN]
    /\ process \in [Nodes -> Nat]
    /\ ring \in [Processes -> Seq(Sizes)]
    /\ incoming \in [Nodes -> Seq(Frame)]
    /\ socket \in [Conns -> {"none", "up", "down"}]
    /\ end \in [Ends -> End]
    /\ wire \in [Ends -> Seq(Packet)]
    /\ attempts \in [Conns -> Nat]
    /\ budget \in [broadcasts : 0 .. MaxBroadcasts, faults : 0 .. MaxFaults]
    /\ received \in [Nodes -> SUBSET Frame]
    /\ dropped \in [Ends -> SUBSET (1 .. MaxBroadcasts)]
    /\ receiver \in [Nodes -> BOOLEAN]

AllFrames(q) == \A i \in DOMAIN q : q[i] \in Frame
FramesBehind(q) == \A i \in DOMAIN q : i > 1 => q[i] \in Frame

(* How far the two ends of a connection are with the handshake, and which  *)
(* of its messages can be on the wire: d and r are the stages of dialer    *)
(* and responder, wd and wr what they have written, sock the socket.  At   *)
(* most the first packet on a wire is a handshake message, and none is     *)
(* left on the wire to an end that is live.                                *)
InStep(d, r, wd, wr, sock) ==
    /\ d \in {"idle", "dialing", "msg2", "live", "closed"}
    /\ r \in {"idle", "msg1", "msg3", "live", "closed"}
    /\ d \in {"idle", "dialing"} => sock = "none"
    /\ sock = "none" => r = "idle" /\ wd = <<>> /\ wr = <<>>
    /\ r \in {"idle", "msg1"} => wr = <<>> /\ d # "live"
    /\ d = "msg2" => /\ Len(wd) <= 1 /\ \A i \in DOMAIN wd : wd[i] = Msg("msg1")
                     /\ r # "live"
                     /\ wr # <<>> => wd = <<>>
    /\ FramesBehind(wd) /\ FramesBehind(wr)
    /\ r = "live" => AllFrames(wd)
    /\ d = "live" => AllFrames(wr)

(* A connection: its attempts are counted, and an end that has dialled, or *)
(* gone live, is connected to a peer.                                      *)
ConnOK(c) ==
    /\ InStep(end[Dialer(c)].stage, end[Responder(c)].stage, wire[Dialer(c)], wire[Responder(c)],
              socket[c])
    /\ attempts[c] <= MaxAttempts
    /\ end[Dialer(c)].stage \in {"idle", "dialing"} => attempts[c] < MaxAttempts
    /\ end[Dialer(c)].stage \in {"dialing", "msg2", "live"} => c[3] \in peers[c[1]]
    /\ end[Responder(c)].stage = "live" => c[1] \in peers[c[3]]

(* An end: only a live one has tasks, and the frames on its wire are its own. *)
EndOK(e) ==
    /\ Len(wire[e]) <= MaxWire + 1
    /\ 1 <= end[e].first /\ end[e].first <= end[e].cursor
    /\ end[e].tasks # {} => end[e].stage = "live"
    /\ \A i \in DOMAIN wire[e] : wire[e][i] \in Frame => wire[e][i].from[1] = e[2]

(* A node: a process that is down will be followed by another, and its     *)
(* crash has been counted already; what it has been given is from peers.   *)
NodeOK(n) ==
    /\ process[n] <= budget.faults
    /\ ~up[n] => process[n] < budget.faults
    /\ Len(incoming[n]) <= MaxIncoming
    /\ \A i \in DOMAIN incoming[n] : incoming[n][i].from[1] \in peers[n]
    /\ \A f \in received[n] : f.from[1] \in peers[n]

MeshInv ==
    /\ MeshTyped
    /\ \A p \in Processes : Len(ring[p]) <= budget.broadcasts
    /\ \A c \in Conns : ConnOK(c)
    /\ \A e \in Ends : EndOK(e)
    /\ \A n \in Nodes : NodeOK(n)

LEMMA MeshInit == Init => MeshInv
<1> SUFFICES ASSUME Init PROVE MeshInv
  OBVIOUS
<1>1. /\ peers \in Configs /\ up = [n \in Nodes |-> TRUE] /\ process = [n \in Nodes |-> 0]
      /\ ring = [p \in Processes |-> <<>>] /\ incoming = [n \in Nodes |-> <<>>]
      /\ socket = [c \in Conns |-> "none"] /\ end = [e \in Ends |-> IdleEnd]
      /\ wire = [e \in Ends |-> <<>>] /\ attempts = [c \in Conns |-> 0]
      /\ budget = [broadcasts |-> 0, faults |-> 0]
      /\ received = [n \in Nodes |-> {}] /\ dropped = [e \in Ends |-> {}]
      /\ receiver = [n \in Nodes |-> TRUE]
  BY DEF Init
<1>2. /\ MaxBroadcasts \in Nat /\ MaxFaults \in Nat /\ MaxAttempts \in Nat \ {0}
      /\ MaxWire \in Nat \ {0} /\ MaxIncoming \in Nat \ {0}
  BY MeshAssumption
<1>3. IdleEnd \in End /\ IdleEnd.stage = "idle" /\ IdleEnd.first = 1 /\ IdleEnd.cursor = 1
      /\ IdleEnd.tasks = {}
  BY DEF IdleEnd, End, Stages
<1>4. MeshTyped
  <2>1. 0 \in 0 .. MaxBroadcasts /\ 0 \in 0 .. MaxFaults
    BY <1>2
  <2> QED BY <1>1, <1>3, <2>1 DEF MeshTyped
<1>5. \A p \in Processes : Len(ring[p]) <= budget.broadcasts
  BY <1>1
<1>6. ASSUME NEW c \in Conns PROVE ConnOK(c)
  <2>1. Dialer(c) \in Ends /\ Responder(c) \in Ends
    BY ConnEnds
  <2>2. InStep("idle", "idle", <<>>, <<>>, "none")
    BY DEF InStep, AllFrames, FramesBehind
  <2> QED BY <1>1, <1>2, <1>3, <2>1, <2>2 DEF ConnOK
<1>7. ASSUME NEW e \in Ends PROVE EndOK(e)
  BY <1>1, <1>2, <1>3 DEF EndOK
<1>8. ASSUME NEW n \in Nodes PROVE NodeOK(n)
  BY <1>1, <1>2 DEF NodeOK
<1> QED BY <1>4, <1>5, <1>6, <1>7, <1>8 DEF MeshInv

(* The invariant as plain facts. *)
LEMMA MeshFacts ==
    ASSUME MeshInv
    PROVE  /\ MaxBroadcasts \in Nat /\ MaxFaults \in Nat /\ MaxAttempts \in Nat \ {0}
           /\ MaxWire \in Nat \ {0} /\ MaxIncoming \in Nat \ {0} /\ MaxRing \in Nat \ {0}
           /\ budget.broadcasts \in 0 .. MaxBroadcasts /\ budget.faults \in 0 .. MaxFaults
           /\ \A n \in Nodes : Current(n) \in Processes /\ Current(n)[1] = n
           /\ \A p \in Processes : /\ ring[p] \in Seq(Sizes) /\ Len(ring[p]) \in Nat
                                   /\ Len(ring[p]) <= MaxBroadcasts
           /\ \A e \in Ends :
                /\ end[e] \in End /\ end[e].first \in Nat /\ end[e].cursor \in Nat
                /\ end[e].tasks \in SUBSET {"reader", "writer"} /\ end[e].stage \in Stages
                /\ wire[e] \in Seq(Packet) /\ Len(wire[e]) \in Nat
                /\ Current(e[2]) \in Processes
<1>1. /\ MaxBroadcasts \in Nat /\ MaxFaults \in Nat /\ MaxAttempts \in Nat \ {0}
      /\ MaxWire \in Nat \ {0} /\ MaxIncoming \in Nat \ {0} /\ MaxRing \in Nat \ {0}
  BY MeshAssumption
<1>2. budget.broadcasts \in 0 .. MaxBroadcasts /\ budget.faults \in 0 .. MaxFaults
  BY DEF MeshInv, MeshTyped
<1>3. \A n \in Nodes : process[n] \in Nat /\ process[n] <= budget.faults
  BY DEF MeshInv, MeshTyped, NodeOK
<1>4. \A n \in Nodes : process[n] \in 0 .. MaxFaults
  BY <1>1, <1>2, <1>3
<1>5. \A n \in Nodes : Current(n) \in Processes /\ Current(n)[1] = n
  BY <1>4 DEF Current, Processes
<1>6. \A p \in Processes : ring[p] \in Seq(Sizes) /\ Len(ring[p]) \in Nat
  BY DEF MeshInv, MeshTyped
<1>7. \A p \in Processes : Len(ring[p]) <= MaxBroadcasts
  BY <1>1, <1>2, <1>6 DEF MeshInv
<1>8. ASSUME NEW e \in Ends
      PROVE  /\ end[e] \in End /\ end[e].first \in Nat /\ end[e].cursor \in Nat
             /\ end[e].tasks \in SUBSET {"reader", "writer"} /\ end[e].stage \in Stages
             /\ wire[e] \in Seq(Packet) /\ Len(wire[e]) \in Nat
             /\ Current(e[2]) \in Processes
  <2>1. end[e] \in End /\ wire[e] \in Seq(Packet)
    BY DEF MeshInv, MeshTyped
  <2>2. end[e].first \in Nat /\ end[e].cursor \in Nat
        /\ end[e].tasks \in SUBSET {"reader", "writer"} /\ end[e].stage \in Stages
    BY <2>1 DEF End
  <2>3. Len(wire[e]) \in Nat
    BY <2>1
  <2> QED BY <1>5, <2>1, <2>2, <2>3, EndOf
<1> QED BY <1>1, <1>2, <1>5, <1>6, <1>7, <1>8

----------------------------------------------------------------------------
(* A step of one connection.                                               *)

(* When only connection c, and what the nodes have been given, changes,    *)
(* what must be shown is about c.                                          *)
LEMMA LocalStep ==
    ASSUME MeshInv, MeshTyped', NEW c \in Conns,
           peers' = peers, ring' = ring, budget' = budget,
           \A e \in Ends : e[1] # c => end'[e] = end[e] /\ wire'[e] = wire[e],
           \A b \in Conns : b # c => socket'[b] = socket[b] /\ attempts'[b] = attempts[b],
           ConnOK(c)', EndOK(Dialer(c))', EndOK(Responder(c))',
           \A n \in Nodes : NodeOK(n)'
    PROVE  MeshInv'
<1>1. ASSUME NEW b \in Conns PROVE ConnOK(b)'
  <2>1. CASE b = c
    BY <2>1
  <2>2. CASE b # c
    <3>1. Dialer(b) \in Ends /\ Responder(b) \in Ends /\ Dialer(b)[1] = b /\ Responder(b)[1] = b
      BY ConnEnds
    <3>2. /\ end'[Dialer(b)] = end[Dialer(b)] /\ wire'[Dialer(b)] = wire[Dialer(b)]
          /\ end'[Responder(b)] = end[Responder(b)] /\ wire'[Responder(b)] = wire[Responder(b)]
          /\ socket'[b] = socket[b] /\ attempts'[b] = attempts[b]
      BY <2>2, <3>1
    <3>3. ConnOK(b)
      BY DEF MeshInv
    <3> QED BY <3>2, <3>3 DEF ConnOK
  <2> QED BY <2>1, <2>2
<1>2. ASSUME NEW e \in Ends PROVE EndOK(e)'
  <2>1. CASE e[1] = c
    BY <2>1, EndOf
  <2>2. CASE e[1] # c
    <3>1. EndOK(e) /\ end'[e] = end[e] /\ wire'[e] = wire[e]
      BY <2>2 DEF MeshInv
    <3> QED BY <3>1 DEF EndOK
  <2> QED BY <2>1, <2>2
<1>3. \A p \in Processes : (Len(ring[p]) <= budget.broadcasts)'
  BY DEF MeshInv
<1> QED BY <1>1, <1>2, <1>3 DEF MeshInv

(* Most steps leave the nodes alone. *)
LEMMA NodesStay ==
    ASSUME MeshInv, peers' = peers, process' = process, up' = up, budget' = budget,
           incoming' = incoming, received' = received
    PROVE  \A n \in Nodes : NodeOK(n)'
BY DEF MeshInv, NodeOK

(* One end changes, and its wire does not. *)
LEMMA OneEnd ==
    ASSUME MeshInv, NEW e \in Ends, NEW new, end' = [end EXCEPT ![e] = new]
    PROVE  end'[e] = new /\ end'[Other(e)] = end[Other(e)] /\ \A f \in Ends : f # e => end'[f] = end[f]
<1>1. end \in [Ends -> End] /\ Other(e) \in Ends /\ Other(e) # e
  BY EndOf DEF MeshInv, MeshTyped
<1> QED BY <1>1

(* The stages of the two ends, and where a stage can be met. *)
LEMMA StageOf ==
    ASSUME MeshInv, NEW e \in Ends
    PROVE  /\ end[e].stage \in {"msg1", "msg3"} => e = Responder(e[1])
           /\ end[e].stage \in {"dialing", "msg2"} => e = Dialer(e[1])
<1>1. e[1] \in Conns /\ (e = Dialer(e[1]) \/ e = Responder(e[1]))
  BY EndOf
<1>2. /\ end[Dialer(e[1])].stage \in {"idle", "dialing", "msg2", "live", "closed"}
      /\ end[Responder(e[1])].stage \in {"idle", "msg1", "msg3", "live", "closed"}
  BY <1>1 DEF MeshInv, ConnOK, InStep
<1>3. CASE e = Dialer(e[1])
  BY <1>2, <1>3
<1>4. CASE e = Responder(e[1])
  BY <1>2, <1>4
<1> QED BY <1>1, <1>3, <1>4

(* A writer moves its cursor, or a task ends: the stage, the wires and the *)
(* sockets stay.                                                           *)
LEMMA EndMoves ==
    ASSUME MeshInv, NEW e \in Ends, NEW new \in End, end' = [end EXCEPT ![e] = new],
           new.stage = end[e].stage, new.tasks \subseteq end[e].tasks,
           new.first = end[e].first, end[e].cursor <= new.cursor,
           dropped' \in [Ends -> SUBSET (1 .. MaxBroadcasts)],
           UNCHANGED <<peers, up, process, ring, incoming, socket, wire, attempts, budget, received, receiver>>
    PROVE  MeshInv'
<1>1. e[1] \in Conns /\ (e = Dialer(e[1]) \/ e = Responder(e[1])) /\ Other(e) \in Ends /\ Other(e)[1] = e[1]
  BY EndOf
<1>2. end'[e] = new /\ end'[Other(e)] = end[Other(e)] /\ \A f \in Ends : f # e => end'[f] = end[f]
  BY OneEnd
<1>3. MeshTyped'
  BY DEF MeshInv, MeshTyped
<1>4. \A n \in Nodes : NodeOK(n)'
  BY NodesStay
<1> DEFINE c == e[1]
<1>5. \A f \in Ends : end'[f].stage = end[f].stage
  BY <1>2
<1>6. ConnOK(c)'
  <2>1. ConnOK(c) /\ Dialer(c) \in Ends /\ Responder(c) \in Ends
    BY <1>1, ConnEnds DEF MeshInv
  <2> HIDE DEF c
  <2> QED BY <1>5, <2>1 DEF ConnOK
<1>7. ASSUME NEW f \in Ends PROVE EndOK(f)'
  <2>1. EndOK(f)
    BY DEF MeshInv
  <2>2. CASE f = e
    <3>1. new.first \in Nat /\ new.cursor \in Nat /\ end[e].cursor \in Nat
      BY MeshFacts DEF End
    <3>2. 1 <= new.first /\ new.first <= new.cursor
      BY <2>1, <2>2, <3>1 DEF EndOK
    <3>3. new.tasks # {} => new.stage = "live"
      BY <2>1, <2>2 DEF EndOK
    <3> QED BY <1>2, <2>1, <2>2, <3>2, <3>3 DEF EndOK
  <2>3. CASE f # e
    BY <1>2, <2>1, <2>3 DEF EndOK
  <2> QED BY <2>2, <2>3
<1>8. Dialer(c) \in Ends /\ Responder(c) \in Ends
  BY <1>1, ConnEnds
<1>9. \A f \in Ends : f[1] # c => end'[f] = end[f] /\ wire'[f] = wire[f]
  BY <1>2
<1> HIDE DEF c
<1>10. c \in Conns
  BY <1>1 DEF c
<1> QED BY <1>3, <1>4, <1>6, <1>7, <1>8, <1>9, <1>10, LocalStep

LEMMA WritingStep ==
    ASSUME MeshInv, NEW e \in Ends,
           Lag(e) \/ DropOversize(e) \/ WriteIntoBroken(e) \/ WriterEnds(e)
    PROVE  MeshInv'
<1> DEFINE p == Current(e[2])
           old == end[e]
<1>1. /\ old \in End /\ old.first \in Nat /\ old.cursor \in Nat
      /\ old.tasks \in SUBSET {"reader", "writer"} /\ old.stage \in Stages
      /\ p \in Processes /\ Len(ring[p]) \in Nat /\ Len(ring[p]) <= MaxBroadcasts
      /\ MaxBroadcasts \in Nat /\ MaxRing \in Nat \ {0}
  BY MeshFacts
<1>2. 1 <= old.first /\ old.first <= old.cursor
  BY DEF MeshInv, EndOK
<1>3. dropped \in [Ends -> SUBSET (1 .. MaxBroadcasts)] /\ end \in [Ends -> End]
  BY DEF MeshInv, MeshTyped
<1>4. CASE Lag(e)
  <2> DEFINE o == Oldest(e[2])
             new == [old EXCEPT !.cursor = o]
  <2>1. /\ old.cursor < o /\ end' = [end EXCEPT ![e].cursor = o]
        /\ dropped' = [dropped EXCEPT ![e] = @ \cup (old.cursor .. o - 1)]
        /\ UNCHANGED <<peers, up, process, ring, incoming, socket, wire, attempts, budget, received, receiver>>
    BY <1>4 DEF Lag, Lagging
  <2>2. o \in Nat /\ o <= MaxBroadcasts + 1
    BY <1>1 DEF Oldest
  <2> HIDE DEF o
  <2>3. old.cursor .. o - 1 \in SUBSET (1 .. MaxBroadcasts)
    BY <1>1, <1>2, <2>2
  <2>4. dropped' \in [Ends -> SUBSET (1 .. MaxBroadcasts)]
    BY <1>3, <2>1, <2>3
  <2>5. end' = [end EXCEPT ![e] = new]
    BY <1>3, <2>1
  <2>6. new \in End /\ new.stage = old.stage /\ new.tasks = old.tasks /\ new.first = old.first
        /\ new.cursor = o
    BY <1>1, <2>2 DEF End
  <2>7. old.cursor <= new.cursor
    BY <1>1, <2>1, <2>2, <2>6
  <2> HIDE DEF new
  <2> QED BY <2>1, <2>4, <2>5, <2>6, <2>7, EndMoves
<1>5. CASE DropOversize(e) \/ WriteIntoBroken(e)
  <2> DEFINE new == [old EXCEPT !.cursor = old.cursor + 1]
  <2>1. /\ old.cursor <= Len(ring[p]) /\ end' = [end EXCEPT ![e].cursor = @ + 1]
        /\ dropped' = [dropped EXCEPT ![e] = @ \cup {old.cursor}] \/ dropped' = dropped
        /\ UNCHANGED <<peers, up, process, ring, incoming, socket, wire, attempts, budget, received, receiver>>
    BY <1>5 DEF DropOversize, WriteIntoBroken, HasNext
  <2>2. old.cursor \in 1 .. MaxBroadcasts
    BY <1>1, <1>2, <2>1
  <2>3. dropped' \in [Ends -> SUBSET (1 .. MaxBroadcasts)]
    BY <1>3, <2>1, <2>2
  <2>4. end' = [end EXCEPT ![e] = new]
    BY <1>3, <2>1
  <2>5. new \in End /\ new.stage = old.stage /\ new.tasks = old.tasks /\ new.first = old.first
        /\ new.cursor = old.cursor + 1
    BY <1>1 DEF End
  <2>6. old.cursor <= new.cursor
    BY <1>1, <2>5
  <2> HIDE DEF new
  <2> QED BY <2>1, <2>3, <2>4, <2>5, <2>6, EndMoves
<1>6. CASE WriterEnds(e)
  <2> DEFINE new == [old EXCEPT !.tasks = old.tasks \ {"writer"}]
  <2>1. /\ end' = [end EXCEPT ![e].tasks = @ \ {"writer"}] /\ dropped' = dropped
        /\ UNCHANGED <<peers, up, process, ring, incoming, socket, wire, attempts, budget, received, receiver>>
    BY <1>6 DEF WriterEnds
  <2>2. end' = [end EXCEPT ![e] = new]
    BY <1>3, <2>1
  <2>3. new \in End /\ new.stage = old.stage /\ new.tasks \subseteq old.tasks
        /\ new.first = old.first /\ new.cursor = old.cursor
    BY <1>1 DEF End
  <2>4. old.cursor <= new.cursor
    BY <1>1, <2>3
  <2> HIDE DEF new
  <2> QED BY <1>3, <2>1, <2>2, <2>3, <2>4, EndMoves
<1> QED BY <1>4, <1>5, <1>6

(* A step at end e of connection c that leaves the nodes and the other     *)
(* connections alone.                                                      *)
LEMMA EndStep ==
    ASSUME MeshInv, NEW e \in Ends, NEW new \in End, end' = [end EXCEPT ![e] = new],
           1 <= new.first, new.first <= new.cursor, new.tasks # {} => new.stage = "live",
           wire' \in [Ends -> Seq(Packet)],
           \A f \in Ends : f[1] # e[1] => wire'[f] = wire[f],
           socket' \in [Conns -> {"none", "up", "down"}],
           \A b \in Conns : b # e[1] => socket'[b] = socket[b],
           attempts' \in [Conns -> Nat],
           \A b \in Conns : b # e[1] => attempts'[b] = attempts[b],
           UNCHANGED <<peers, up, process, ring, incoming, budget, received, dropped, receiver>>,
           ConnOK(e[1])',
           \A f \in {e, Other(e)} :
              /\ Len(wire'[f]) <= MaxWire + 1
              /\ \A i \in DOMAIN wire'[f] : wire'[f][i] \in Frame => wire'[f][i].from[1] = f[2]
    PROVE  MeshInv'
<1>1. /\ e[1] \in Conns /\ (e = Dialer(e[1]) \/ e = Responder(e[1])) /\ Other(e) \in Ends
      /\ Other(e)[1] = e[1] /\ Other(e) # e
  BY EndOf
<1>2. end'[e] = new /\ end'[Other(e)] = end[Other(e)] /\ \A f \in Ends : f # e => end'[f] = end[f]
  BY OneEnd
<1>3. MeshTyped'
  BY DEF MeshInv, MeshTyped
<1>4. \A n \in Nodes : NodeOK(n)'
  BY NodesStay
<1>5. EndOK(e)'
  BY <1>2 DEF EndOK
<1>6. EndOK(Other(e))'
  <2>1. EndOK(Other(e))
    BY <1>1 DEF MeshInv
  <2> QED BY <1>2, <2>1 DEF EndOK
<1> DEFINE c == e[1]
<1>7. EndOK(Dialer(c))' /\ EndOK(Responder(c))'
  <2>1. Other(Dialer(c)) = Responder(c) /\ Other(Responder(c)) = Dialer(c)
    BY <1>1, ConnEnds
  <2> QED BY <1>1, <1>5, <1>6, <2>1
<1>8. \A f \in Ends : f[1] # c => end'[f] = end[f] /\ wire'[f] = wire[f]
  BY <1>2
<1> HIDE DEF c
<1>9. c \in Conns /\ ConnOK(c)' /\ \A b \in Conns : b # c => socket'[b] = socket[b] /\ attempts'[b] = attempts[b]
  BY <1>1 DEF c
<1> QED BY <1>3, <1>4, <1>7, <1>8, <1>9, LocalStep

(* What EndOK says of the wires of a connection. *)
LEMMA WiresOK ==
    ASSUME MeshInv, NEW e \in Ends
    PROVE  \A f \in {e, Other(e)} :
              /\ Len(wire[f]) <= MaxWire + 1
              /\ \A i \in DOMAIN wire[f] : wire[f][i] \in Frame => wire[f][i].from[1] = f[2]
BY EndOf DEF MeshInv, EndOK

(* A task subscribes to the ring. *)
LEMMA SubscribeStep ==
    ASSUME MeshInv, NEW e \in Ends, NEW stage \in Stages, Subscribe(e, stage)
    PROVE  \E new \in End :
              /\ end' = [end EXCEPT ![e] = new] /\ new.stage = stage
              /\ 1 <= new.first /\ new.first <= new.cursor /\ new.tasks = {}
<1> DEFINE k == Len(ring[Current(e[2])]) + 1
           new == [stage |-> stage, first |-> k, cursor |-> k, tasks |-> {}]
<1>1. end' = [end EXCEPT ![e] = new]
  BY DEF Subscribe
<1>2. k \in Nat /\ 1 <= k /\ k <= k
  BY MeshFacts
<1> HIDE DEF k
<1>3. new \in End /\ new.stage = stage /\ new.first = k /\ new.cursor = k /\ new.tasks = {}
  BY <1>2 DEF End
<1> QED BY <1>1, <1>2, <1>3

LEMMA StartDialerStep ==
    ASSUME MeshInv, NEW c \in Conns, StartDialer(c)
    PROVE  MeshInv'
<1> DEFINE e == Dialer(c)
<1>1. /\ e \in Ends /\ e[1] = c /\ Other(e) = Responder(c) /\ Responder(c) \in Ends /\ e # Responder(c)
  BY ConnEnds
<1>2. /\ end[e].stage = "idle" /\ Subscribe(e, "dialing") /\ c[3] \in peers[c[1]]
      /\ UNCHANGED <<peers, up, process, ring, incoming, socket, wire, attempts, budget, received, dropped, receiver>>
  BY DEF StartDialer, Dialer
<1>3. PICK new \in End :
         /\ end' = [end EXCEPT ![e] = new] /\ new.stage = "dialing"
         /\ 1 <= new.first /\ new.first <= new.cursor /\ new.tasks = {}
  <2>1. "dialing" \in Stages
    BY DEF Stages
  <2> QED BY <1>1, <1>2, <2>1, SubscribeStep
<1>4. end'[e] = new /\ end'[Responder(c)] = end[Responder(c)]
  BY <1>1, <1>3, OneEnd
<1>5. ConnOK(c)'
  <2>1. ConnOK(c)
    BY DEF MeshInv
  <2>2. InStep("dialing", end[Responder(c)].stage, wire[e], wire[Responder(c)], socket[c])
    BY <1>2, <2>1 DEF ConnOK, InStep
  <2> QED BY <1>2, <1>3, <1>4, <2>1, <2>2 DEF ConnOK
<1>6. wire \in [Ends -> Seq(Packet)] /\ socket \in [Conns -> {"none", "up", "down"}]
      /\ attempts \in [Conns -> Nat]
  BY DEF MeshInv, MeshTyped
<1> HIDE DEF e
<1>7. \A f \in {e, Other(e)} :
        /\ Len(wire'[f]) <= MaxWire + 1
        /\ \A i \in DOMAIN wire'[f] : wire'[f][i] \in Frame => wire'[f][i].from[1] = f[2]
  BY <1>1, <1>2, WiresOK
<1> QED BY <1>1, <1>2, <1>3, <1>5, <1>6, <1>7, EndStep

LEMMA AcceptStep ==
    ASSUME MeshInv, NEW c \in Conns, Accept(c)
    PROVE  MeshInv'
<1> DEFINE e == Responder(c)
<1>1. /\ e \in Ends /\ e[1] = c /\ Other(e) = Dialer(c) /\ Dialer(c) \in Ends /\ e # Dialer(c)
  BY ConnEnds
<1>2. /\ end[e].stage = "idle" /\ Subscribe(e, "msg1") /\ socket[c] # "none"
      /\ UNCHANGED <<peers, up, process, ring, incoming, socket, wire, attempts, budget, received, dropped, receiver>>
  BY DEF Accept, Responder
<1>3. PICK new \in End :
         /\ end' = [end EXCEPT ![e] = new] /\ new.stage = "msg1"
         /\ 1 <= new.first /\ new.first <= new.cursor /\ new.tasks = {}
  <2>1. "msg1" \in Stages
    BY DEF Stages
  <2> QED BY <1>1, <1>2, <2>1, SubscribeStep
<1>4. end'[e] = new /\ end'[Dialer(c)] = end[Dialer(c)]
  BY <1>1, <1>3, OneEnd
<1>5. ConnOK(c)'
  <2>1. ConnOK(c)
    BY DEF MeshInv
  <2>2. InStep(end[Dialer(c)].stage, "msg1", wire[Dialer(c)], wire[e], socket[c])
    BY <1>2, <2>1 DEF ConnOK, InStep
  <2> QED BY <1>2, <1>3, <1>4, <2>1, <2>2 DEF ConnOK
<1>6. wire \in [Ends -> Seq(Packet)] /\ socket \in [Conns -> {"none", "up", "down"}]
      /\ attempts \in [Conns -> Nat]
  BY DEF MeshInv, MeshTyped
<1> HIDE DEF e
<1>7. \A f \in {e, Other(e)} :
        /\ Len(wire'[f]) <= MaxWire + 1
        /\ \A i \in DOMAIN wire'[f] : wire'[f][i] \in Frame => wire'[f][i].from[1] = f[2]
  BY <1>1, <1>2, WiresOK
<1> QED BY <1>1, <1>2, <1>3, <1>5, <1>6, <1>7, EndStep

LEMMA ClosedEndTyped ==
    /\ ClosedEnd \in End /\ ClosedEnd.stage = "closed" /\ ClosedEnd.first = 1
    /\ ClosedEnd.cursor = 1 /\ ClosedEnd.tasks = {}
BY DEF ClosedEnd, IdleEnd, End, Stages

(* An end that is closed is in step with the other, whatever that does. *)
LEMMA InStepClosed ==
    ASSUME NEW d, NEW r, NEW wd, NEW wr, NEW sock, InStep(d, r, wd, wr, sock)
    PROVE  /\ InStep("closed", r, wd, wr, sock)
           /\ sock # "none" => InStep(d, "closed", wd, wr, sock)
           /\ sock = "up" => InStep(d, r, wd, wr, "down")
BY DEF InStep

LEMMA ConnectFailsStep ==
    ASSUME MeshInv, NEW c \in Conns, ConnectFails(c)
    PROVE  MeshInv'
<1> DEFINE e == Dialer(c)
           new == IF attempts[c] + 1 = MaxAttempts THEN ClosedEnd ELSE end[e]
<1>1. /\ e \in Ends /\ e[1] = c /\ Other(e) = Responder(c) /\ Responder(c) \in Ends /\ e # Responder(c)
  BY ConnEnds
<1>2. /\ end[e].stage = "dialing" /\ attempts' = [attempts EXCEPT ![c] = @ + 1]
      /\ end' = IF attempts[c] + 1 = MaxAttempts THEN [end EXCEPT ![e] = ClosedEnd] ELSE end
      /\ UNCHANGED <<peers, up, process, ring, incoming, socket, wire, budget, received, dropped, receiver>>
  BY DEF ConnectFails, Dialer
<1>3. /\ wire \in [Ends -> Seq(Packet)] /\ socket \in [Conns -> {"none", "up", "down"}]
      /\ attempts \in [Conns -> Nat] /\ end \in [Ends -> End]
  BY DEF MeshInv, MeshTyped
<1>4. end' = [end EXCEPT ![e] = new]
  BY <1>1, <1>2, <1>3
<1>5. /\ new \in End /\ 1 <= new.first /\ new.first <= new.cursor
      /\ new.tasks # {} => new.stage = "live"
      /\ new.stage = IF attempts[c] + 1 = MaxAttempts THEN "closed" ELSE "dialing"
  <2>1. EndOK(e) /\ end[e] \in End
    BY <1>1, <1>3 DEF MeshInv
  <2> QED BY <1>2, <2>1, ClosedEndTyped DEF EndOK
<1> HIDE DEF new, e
<1>6. end'[e] = new /\ end'[Responder(c)] = end[Responder(c)]
  BY <1>1, <1>4, OneEnd
<1>7. attempts'[c] = attempts[c] + 1 /\ attempts' \in [Conns -> Nat]
      /\ \A b \in Conns : b # c => attempts'[b] = attempts[b]
  BY <1>2, <1>3
<1>8. ConnOK(c)'
  <2>1. ConnOK(c) /\ attempts[c] \in Nat /\ MaxAttempts \in Nat
    BY <1>3, MeshFacts DEF MeshInv
  <2>2. attempts[c] < MaxAttempts /\ c[3] \in peers[c[1]]
    BY <1>2, <2>1 DEF ConnOK, e
  <2>3. InStep(new.stage, end[Responder(c)].stage, wire[e], wire[Responder(c)], socket[c])
    BY <1>2, <1>5, <2>1, InStepClosed DEF ConnOK, e
  <2>4. attempts'[c] <= MaxAttempts /\ (new.stage = "dialing" => attempts'[c] < MaxAttempts)
        /\ new.stage # "idle"
    BY <1>5, <1>7, <2>1, <2>2
  <2> QED BY <1>2, <1>6, <2>1, <2>2, <2>3, <2>4 DEF ConnOK, e
<1>9. \A f \in {e, Other(e)} :
        /\ Len(wire'[f]) <= MaxWire + 1
        /\ \A i \in DOMAIN wire'[f] : wire'[f][i] \in Frame => wire'[f][i].from[1] = f[2]
  BY <1>1, <1>2, WiresOK
<1> QED BY <1>1, <1>2, <1>3, <1>4, <1>5, <1>7, <1>8, <1>9, EndStep

----------------------------------------------------------------------------
(* The handshake.                                                          *)

(* A handshake message is a packet and no frame. *)
LEMMA MsgPacket ==
    ASSUME NEW m \in Handshake
    PROVE  Msg(m) \in Packet /\ Msg(m) \notin Frame /\ Msg(m).kind = m
<1>1. m # "frame"
  BY DEF Handshake
<1>2. Msg(m) \in [kind : Handshake] /\ Msg(m).kind = m
  BY DEF Msg
<1>3. \A f \in Frame : f.kind = "frame"
  BY DEF Frame
<1> QED BY <1>1, <1>2, <1>3 DEF Packet

(* A wire after one packet was put on it, or taken off it. *)
LEMMA WirePut ==
    ASSUME NEW q \in Seq(Packet), NEW x \in Packet
    PROVE  /\ Append(q, x) \in Seq(Packet) /\ Len(Append(q, x)) = Len(q) + 1 /\ Append(q, x) # <<>>
           /\ DOMAIN Append(q, x) = 1 .. Len(q) + 1 /\ DOMAIN q = 1 .. Len(q) /\ Len(q) \in Nat
           /\ \A i \in 1 .. Len(q) : Append(q, x)[i] = q[i]
           /\ Append(q, x)[Len(q) + 1] = x
           /\ q = <<>> => Len(q) = 0
OBVIOUS

LEMMA WireTake ==
    ASSUME NEW q \in Seq(Packet), q # <<>>
    PROVE  /\ Tail(q) \in Seq(Packet) /\ Len(Tail(q)) = Len(q) - 1 /\ Len(q) \in Nat \ {0}
           /\ DOMAIN q = 1 .. Len(q) /\ Head(q) = q[1] /\ 1 \in DOMAIN q
           /\ \A i \in DOMAIN Tail(q) : i \in Nat /\ i >= 1 /\ i + 1 \in DOMAIN q /\ Tail(q)[i] = q[i + 1]
           /\ Len(q) <= 1 => Tail(q) = <<>>
<1>1. Tail(q) \in Seq(Packet) /\ Len(Tail(q)) = Len(q) - 1 /\ Len(q) \in Nat \ {0}
      /\ DOMAIN q = 1 .. Len(q) /\ Head(q) = q[1] /\ 1 \in DOMAIN q
  OBVIOUS
<1>2. DOMAIN Tail(q) = 1 .. Len(q) - 1
  BY <1>1
<1>3. \A i \in 1 .. Len(q) - 1 : i \in Nat /\ i >= 1 /\ i + 1 \in DOMAIN q /\ Tail(q)[i] = q[i + 1]
  BY <1>1
<1>4. Len(q) <= 1 => Tail(q) = <<>>
  BY <1>1
<1> QED BY <1>1, <1>2, <1>3, <1>4

(* Behind the first packet there are frames only, also after either. *)
LEMMA FramesKept ==
    ASSUME NEW q \in Seq(Packet), FramesBehind(q)
    PROVE  /\ \A x \in Packet : q = <<>> => FramesBehind(Append(q, x))
           /\ \A x \in Frame : FramesBehind(Append(q, x))
           /\ \A x \in Frame : AllFrames(q) => AllFrames(Append(q, x))
           /\ q # <<>> => AllFrames(Tail(q)) /\ FramesBehind(Tail(q))
<1>1. ASSUME NEW x \in Packet, q = <<>> PROVE FramesBehind(Append(q, x))
  BY <1>1, WirePut DEF FramesBehind
<1>2. ASSUME NEW x \in Frame PROVE FramesBehind(Append(q, x))
  <2>1. x \in Packet
    BY DEF Packet
  <2>2. ASSUME NEW i \in DOMAIN Append(q, x), i > 1 PROVE Append(q, x)[i] \in Frame
    <3>1. i \in 1 .. Len(q) \/ i = Len(q) + 1
      BY <2>1, WirePut
    <3>2. CASE i \in 1 .. Len(q)
      BY <2>1, <2>2, <3>2, WirePut DEF FramesBehind
    <3>3. CASE i = Len(q) + 1
      BY <2>1, <3>3, WirePut
    <3> QED BY <3>1, <3>2, <3>3
  <2> QED BY <2>2 DEF FramesBehind
<1>3. ASSUME NEW x \in Frame, AllFrames(q) PROVE AllFrames(Append(q, x))
  <2>1. x \in Packet
    BY DEF Packet
  <2>2. ASSUME NEW i \in DOMAIN Append(q, x) PROVE Append(q, x)[i] \in Frame
    <3>1. i \in 1 .. Len(q) \/ i = Len(q) + 1
      BY <2>1, WirePut
    <3>2. CASE i \in 1 .. Len(q)
      BY <1>3, <2>1, <3>2, WirePut DEF AllFrames
    <3>3. CASE i = Len(q) + 1
      BY <2>1, <3>3, WirePut
    <3> QED BY <3>1, <3>2, <3>3
  <2> QED BY <2>2 DEF AllFrames
<1>4. ASSUME q # <<>> PROVE AllFrames(Tail(q)) /\ FramesBehind(Tail(q))
  <2>1. ASSUME NEW i \in DOMAIN Tail(q) PROVE Tail(q)[i] \in Frame
    <3>1. i \in Nat /\ i >= 1 /\ i + 1 \in DOMAIN q /\ Tail(q)[i] = q[i + 1]
      BY <1>4, WireTake
    <3>2. i + 1 > 1
      BY <3>1
    <3> QED BY <3>1, <3>2 DEF FramesBehind
  <2> QED BY <2>1 DEF AllFrames, FramesBehind
<1> QED BY <1>1, <1>2, <1>3, <1>4

(* A wire holds the frames of one node; taking a packet off it, or putting *)
(* on one of this node's, keeps that, and a handshake message is no frame. *)
OwnFrames(q, n) == \A i \in DOMAIN q : q[i] \in Frame => q[i].from[1] = n

LEMMA OwnKept ==
    ASSUME NEW q \in Seq(Packet), NEW n, OwnFrames(q, n)
    PROVE  /\ q # <<>> => OwnFrames(Tail(q), n)
           /\ \A x \in Packet : (x \in Frame => x.from[1] = n) => OwnFrames(Append(q, x), n)
<1>1. ASSUME q # <<>> PROVE OwnFrames(Tail(q), n)
  <2>1. ASSUME NEW i \in DOMAIN Tail(q), Tail(q)[i] \in Frame PROVE Tail(q)[i].from[1] = n
    <3>1. i + 1 \in DOMAIN q /\ Tail(q)[i] = q[i + 1]
      BY <1>1, WireTake
    <3> QED BY <2>1, <3>1 DEF OwnFrames
  <2> QED BY <2>1 DEF OwnFrames
<1>2. ASSUME NEW x \in Packet, x \in Frame => x.from[1] = n PROVE OwnFrames(Append(q, x), n)
  <2>1. ASSUME NEW i \in DOMAIN Append(q, x), Append(q, x)[i] \in Frame
        PROVE  Append(q, x)[i].from[1] = n
    <3>1. i \in 1 .. Len(q) \/ i = Len(q) + 1
      BY WirePut
    <3>2. CASE i \in 1 .. Len(q)
      BY <2>1, <3>2, WirePut DEF OwnFrames
    <3>3. CASE i = Len(q) + 1
      BY <1>2, <2>1, <3>3, WirePut
    <3> QED BY <3>1, <3>2, <3>3
  <2> QED BY <2>1 DEF OwnFrames
<1> QED BY <1>1, <1>2

(* EndStep for a step that takes a packet off the wire to e, or puts one   *)
(* on the wire from e, or both.                                            *)
LEMMA WireStep ==
    ASSUME MeshInv, NEW c \in Conns, NEW e \in Ends, NEW o, e[1] = c, o = Other(e),
           NEW new \in End, end' = [end EXCEPT ![e] = new],
           1 <= new.first, new.first <= new.cursor, new.tasks # {} => new.stage = "live",
           NEW out \in Seq(Packet), NEW in \in Seq(Packet),
           wire' = [wire EXCEPT ![o] = in, ![e] = out],
           Len(out) <= MaxWire + 1, Len(in) <= MaxWire + 1,
           OwnFrames(out, e[2]), OwnFrames(in, o[2]),
           socket' \in [Conns -> {"none", "up", "down"}],
           \A b \in Conns : b # c => socket'[b] = socket[b],
           UNCHANGED <<peers, up, process, ring, incoming, attempts, budget, received, dropped, receiver>>,
           ConnOK(c)'
    PROVE  MeshInv'
<1>1. wire \in [Ends -> Seq(Packet)] /\ attempts \in [Conns -> Nat]
  BY DEF MeshInv, MeshTyped
<1>2. o \in Ends /\ o # e /\ o[1] = c
  BY EndOf
<1>3. /\ wire' \in [Ends -> Seq(Packet)] /\ wire'[e] = out /\ wire'[o] = in
      /\ \A f \in Ends : f[1] # e[1] => wire'[f] = wire[f]
  BY <1>1, <1>2
<1>4. ASSUME NEW f \in {e, o}
      PROVE  /\ Len(wire'[f]) <= MaxWire + 1
             /\ \A i \in DOMAIN wire'[f] : wire'[f][i] \in Frame => wire'[f][i].from[1] = f[2]
  <2>1. OwnFrames(wire'[f], f[2]) /\ Len(wire'[f]) <= MaxWire + 1
    BY <1>3
  <2> QED BY <2>1 DEF OwnFrames
<1>5. \A f \in {e, Other(e)} :
        /\ Len(wire'[f]) <= MaxWire + 1
        /\ \A i \in DOMAIN wire'[f] : wire'[f][i] \in Frame => wire'[f][i].from[1] = f[2]
  BY <1>4
<1>6. ConnOK(e[1])' /\ attempts' \in [Conns -> Nat]
      /\ \A b \in Conns : b # e[1] => socket'[b] = socket[b] /\ attempts'[b] = attempts[b]
  BY <1>1
<1> QED BY <1>3, <1>5, <1>6, EndStep

(* What the invariant says of an end that changes, and of its wires. *)
LEMMA EndFacts ==
    ASSUME MeshInv, NEW e \in Ends
    PROVE  /\ wire[e] \in Seq(Packet) /\ Len(wire[e]) \in Nat /\ Len(wire[e]) <= MaxWire + 1
           /\ OwnFrames(wire[e], e[2])
           /\ 1 <= end[e].first /\ end[e].first <= end[e].cursor
           /\ end[e].tasks # {} => end[e].stage = "live"
BY MeshFacts DEF MeshInv, EndOK, OwnFrames

LEMMA ConnectsStep ==
    ASSUME MeshInv, NEW c \in Conns, Connects(c)
    PROVE  MeshInv'
<1> DEFINE e == Dialer(c)
           o == Responder(c)
           new == [end[e] EXCEPT !.stage = "msg2"]
           out == <<Msg("msg1")>>
<1>1. /\ e \in Ends /\ e[1] = c /\ Other(e) = o /\ o \in Ends /\ e # o
  BY ConnEnds
<1>2. /\ end[e].stage = "dialing" /\ socket' = [socket EXCEPT ![c] = "up"]
      /\ wire' = [wire EXCEPT ![e] = <<Msg("msg1")>>]
      /\ end' = [end EXCEPT ![e].stage = "msg2"]
      /\ UNCHANGED <<peers, up, process, ring, incoming, attempts, budget, received, dropped, receiver>>
  BY DEF Connects, Dialer
<1>3. /\ wire \in [Ends -> Seq(Packet)] /\ socket \in [Conns -> {"none", "up", "down"}]
      /\ end \in [Ends -> End]
  BY DEF MeshInv, MeshTyped
<1>4. end' = [end EXCEPT ![e] = new]
  BY <1>1, <1>2, <1>3
<1>5. /\ new \in End /\ new.stage = "msg2" /\ new.first = end[e].first
      /\ new.cursor = end[e].cursor /\ new.tasks = end[e].tasks
  BY <1>1, <1>3 DEF End, Stages
<1>6. 1 <= new.first /\ new.first <= new.cursor /\ new.tasks = {}
  BY <1>1, <1>2, <1>5, EndFacts
<1>7. wire' = [wire EXCEPT ![o] = wire[o], ![e] = out]
  BY <1>1, <1>2, <1>3
<1>8. out \in Seq(Packet) /\ Len(out) = 1 /\ out[1] = Msg("msg1") /\ DOMAIN out = {1}
      /\ Msg("msg1") \notin Frame
  BY MsgPacket DEF Handshake
<1>9. OwnFrames(out, e[2]) /\ Len(out) <= MaxWire + 1
  BY <1>8, MeshFacts DEF OwnFrames
<1>10. socket' \in [Conns -> {"none", "up", "down"}] /\ socket'[c] = "up"
       /\ \A b \in Conns : b # c => socket'[b] = socket[b]
  BY <1>2, <1>3
<1> HIDE DEF new, out, e, o
<1>11. end'[e] = new /\ end'[o] = end[o] /\ wire'[e] = out /\ wire'[o] = wire[o]
  BY <1>1, <1>3, <1>4, <1>7, OneEnd
<1>12. ConnOK(c)'
  <2>1. ConnOK(c)
    BY DEF MeshInv
  <2>2. InStep("dialing", end[o].stage, wire[e], wire[o], socket[c])
    BY <1>2, <2>1 DEF ConnOK, e, o
  <2>3. end[o].stage = "idle" /\ wire[o] = <<>>
    BY <2>2 DEF InStep
  <2>4. FramesBehind(out)
    BY <1>8 DEF FramesBehind
  <2>5. InStep("msg2", end[o].stage, out, wire[o], "up")
    BY <1>8, <2>2, <2>3, <2>4 DEF InStep
  <2> QED BY <1>2, <1>5, <1>10, <1>11, <2>1, <2>5 DEF ConnOK, e, o
<1>13. wire[o] \in Seq(Packet) /\ Len(wire[o]) <= MaxWire + 1 /\ OwnFrames(wire[o], o[2])
  BY <1>1, EndFacts
<1> QED BY <1>1, <1>2, <1>4, <1>5, <1>6, <1>7, <1>8, <1>9, <1>10, <1>12, <1>13, WireStep

LEMMA HandshakeFailsStep ==
    ASSUME MeshInv, NEW e \in Ends, HandshakeFails(e)
    PROVE  MeshInv'
<1> DEFINE c == e[1]
           o == Other(e)
<1>1. /\ c \in Conns /\ o \in Ends /\ e # o /\ (e = Dialer(c) \/ e = Responder(c))
      /\ Other(Dialer(c)) = Responder(c) /\ Other(Responder(c)) = Dialer(c)
  BY EndOf, ConnEnds
<1>2. /\ socket[c] = "down" /\ end' = [end EXCEPT ![e] = ClosedEnd]
      /\ UNCHANGED <<peers, up, process, ring, incoming, socket, wire, attempts, budget, received, dropped, receiver>>
  BY DEF HandshakeFails
<1>3. wire \in [Ends -> Seq(Packet)] /\ socket \in [Conns -> {"none", "up", "down"}]
  BY DEF MeshInv, MeshTyped
<1>4. end'[e] = ClosedEnd /\ end'[o] = end[o]
  BY <1>2, OneEnd
<1>5. wire' = [wire EXCEPT ![o] = wire[o], ![e] = wire[e]]
  BY <1>2, <1>3
<1>6. ConnOK(c)'
  <2> HIDE DEF c, o
  <2>1. ConnOK(c) /\ InStep(end[Dialer(c)].stage, end[Responder(c)].stage, wire[Dialer(c)],
                            wire[Responder(c)], socket[c])
    BY <1>1 DEF MeshInv, ConnOK
  <2>2. CASE e = Dialer(c)
    <3>1. InStep("closed", end[Responder(c)].stage, wire[Dialer(c)], wire[Responder(c)], socket[c])
      BY <2>1, InStepClosed
    <3> QED BY <1>1, <1>2, <1>4, <2>1, <2>2, <3>1, ClosedEndTyped DEF ConnOK, o
  <2>3. CASE e = Responder(c)
    <3>1. InStep(end[Dialer(c)].stage, "closed", wire[Dialer(c)], wire[Responder(c)], socket[c])
      BY <1>2, <2>1, InStepClosed
    <3> QED BY <1>1, <1>2, <1>4, <2>1, <2>3, <3>1, ClosedEndTyped DEF ConnOK, o
  <2> QED BY <1>1, <2>2, <2>3
<1>7. /\ wire[o] \in Seq(Packet) /\ Len(wire[o]) <= MaxWire + 1 /\ OwnFrames(wire[o], o[2])
      /\ wire[e] \in Seq(Packet) /\ Len(wire[e]) <= MaxWire + 1 /\ OwnFrames(wire[e], e[2])
  BY <1>1, EndFacts
<1> HIDE DEF c, o
<1>8. e[1] = c /\ o = Other(e)
  BY DEF c, o
<1>9. /\ ClosedEnd \in End /\ 1 <= ClosedEnd.first /\ ClosedEnd.first <= ClosedEnd.cursor
      /\ ClosedEnd.tasks # {} => ClosedEnd.stage = "live"
  BY ClosedEndTyped
<1>10. /\ socket' \in [Conns -> {"none", "up", "down"}] /\ \A b \in Conns : b # c => socket'[b] = socket[b]
       /\ UNCHANGED <<peers, up, process, ring, incoming, attempts, budget, received, dropped, receiver>>
  BY <1>2, <1>3
<1>11. end' = [end EXCEPT ![e] = ClosedEnd]
  BY <1>2
<1> QED BY <1>1, <1>5, <1>6, <1>7, <1>8, <1>9, <1>10, <1>11, WireStep

(* run_responder reads message 1: the dialer waits for message 2, or is    *)
(* gone, and the wire back to it is empty.                                 *)
LEMMA ReadMsg1Step ==
    ASSUME MeshInv, NEW e \in Ends, ReadMsg1(e)
    PROVE  MeshInv'
<1> DEFINE c == e[1]
           o == Other(e)
           new == [end[e] EXCEPT !.stage = "msg3"]
           out == Append(wire[e], Msg("msg2"))
           in == Tail(wire[o])
<1>1. /\ end[e].stage = "msg1" /\ wire[o] # <<>>
      /\ wire' = [wire EXCEPT ![o] = Tail(@), ![e] = Append(@, Msg("msg2"))]
      /\ end' = [end EXCEPT ![e].stage = "msg3"]
      /\ UNCHANGED <<peers, up, process, ring, incoming, socket, attempts, budget, received, dropped, receiver>>
  BY DEF ReadMsg1, ReadsMsg
<1>2. c \in Conns /\ e = Responder(c) /\ o = Dialer(c) /\ o \in Ends /\ e # o
  BY <1>1, EndOf, StageOf, ConnEnds
<1>3. /\ wire \in [Ends -> Seq(Packet)] /\ socket \in [Conns -> {"none", "up", "down"}]
      /\ end \in [Ends -> End]
  BY DEF MeshInv, MeshTyped
<1>4. end' = [end EXCEPT ![e] = new]
  BY <1>1, <1>3
<1>5. /\ new \in End /\ new.stage = "msg3" /\ new.first = end[e].first
      /\ new.cursor = end[e].cursor /\ new.tasks = end[e].tasks
  BY <1>3 DEF End, Stages
<1>6. 1 <= new.first /\ new.first <= new.cursor /\ new.tasks = {}
  BY <1>1, <1>5, EndFacts
<1>7. wire' = [wire EXCEPT ![o] = in, ![e] = out]
  BY <1>1, <1>2, <1>3
<1>8. Msg("msg2") \in Packet /\ Msg("msg2") \notin Frame
  BY MsgPacket DEF Handshake
<1>9. /\ wire[o] \in Seq(Packet) /\ Len(wire[o]) <= MaxWire + 1 /\ OwnFrames(wire[o], o[2])
      /\ wire[e] \in Seq(Packet) /\ OwnFrames(wire[e], e[2]) /\ MaxWire \in Nat \ {0}
  BY <1>2, EndFacts, MeshFacts
<1>10. InStep(end[o].stage, "msg1", wire[o], wire[e], socket[c]) /\ ConnOK(c)
  BY <1>1, <1>2 DEF MeshInv, ConnOK
<1>11. wire[e] = <<>> /\ end[o].stage \in {"msg2", "closed"} /\ FramesBehind(wire[o])
       /\ FramesBehind(wire[e]) /\ socket[c] # "none" /\ (end[o].stage = "msg2" => Len(wire[o]) <= 1)
  BY <1>10 DEF InStep
<1>12. in \in Seq(Packet) /\ Len(in) <= MaxWire + 1 /\ OwnFrames(in, o[2])
       /\ (end[o].stage = "msg2" => in = <<>>) /\ FramesBehind(in)
  <2>1. in \in Seq(Packet) /\ Len(in) = Len(wire[o]) - 1 /\ Len(wire[o]) \in Nat \ {0}
        /\ (Len(wire[o]) <= 1 => in = <<>>)
    BY <1>1, <1>9, WireTake
  <2>2. OwnFrames(in, o[2]) /\ FramesBehind(in)
    BY <1>1, <1>9, <1>11, OwnKept, FramesKept
  <2> HIDE DEF in
  <2>3. Len(in) <= MaxWire + 1
    BY <1>9, <2>1
  <2> QED BY <1>11, <2>1, <2>2, <2>3
<1>13. out \in Seq(Packet) /\ Len(out) = 1 /\ OwnFrames(out, e[2]) /\ FramesBehind(out) /\ out # <<>>
  <2>1. out \in Seq(Packet) /\ Len(out) = 1 /\ out # <<>>
    BY <1>8, <1>9, <1>11, WirePut
  <2>2. OwnFrames(out, e[2])
    BY <1>8, <1>9, OwnKept
  <2>3. FramesBehind(out)
    BY <1>8, <1>9, <1>11, FramesKept
  <2> QED BY <2>1, <2>2, <2>3
<1> HIDE DEF c, o, new, in, out
<1>14. end'[e] = new /\ end'[o] = end[o] /\ wire'[e] = out /\ wire'[o] = in
  BY <1>2, <1>3, <1>4, <1>7, OneEnd DEF o
<1>15. ConnOK(c)'
  <2>0. \A i \in DOMAIN <<>> : FALSE
    OBVIOUS
  <2>1. end[o].stage = "msg2" => Len(in) <= 1 /\ \A i \in DOMAIN in : in[i] = Msg("msg1")
    BY <1>12, <2>0
  <2>2. InStep(end[o].stage, "msg3", in, out, socket[c])
    BY <1>11, <1>12, <1>13, <2>1 DEF InStep
  <2> QED BY <1>1, <1>2, <1>5, <1>10, <1>14, <2>2 DEF ConnOK
<1>16. e[1] = c /\ o = Other(e) /\ Len(out) <= MaxWire + 1
  BY <1>9, <1>13 DEF c, o
<1> QED BY <1>1, <1>2, <1>3, <1>4, <1>5, <1>6, <1>7, <1>12, <1>13, <1>15, <1>16, WireStep

(* run_initiator reads message 2: the responder waits for message 3, or is *)
(* gone, and message 1 has left the wire.                                  *)
LEMMA ReadMsg2Step ==
    ASSUME MeshInv, NEW e \in Ends, ReadMsg2(e)
    PROVE  MeshInv'
<1> DEFINE c == e[1]
           o == Other(e)
           new == [end[e] EXCEPT !.stage = "live", !.tasks = {"reader", "writer"}]
           out == Append(wire[e], Msg("msg3"))
           in == Tail(wire[o])
<1>1. /\ end[e].stage = "msg2" /\ wire[o] # <<>>
      /\ wire' = [wire EXCEPT ![o] = Tail(@), ![e] = Append(@, Msg("msg3"))]
      /\ end' = [end EXCEPT ![e].stage = "live", ![e].tasks = {"reader", "writer"}]
      /\ UNCHANGED <<peers, up, process, ring, incoming, socket, attempts, budget, received, dropped, receiver>>
  BY DEF ReadMsg2, ReadsMsg, GoLive
<1>2. c \in Conns /\ e = Dialer(c) /\ o = Responder(c) /\ o \in Ends /\ e # o
  BY <1>1, EndOf, StageOf, ConnEnds
<1>3. /\ wire \in [Ends -> Seq(Packet)] /\ socket \in [Conns -> {"none", "up", "down"}]
      /\ end \in [Ends -> End]
  BY DEF MeshInv, MeshTyped
<1>4. end' = [end EXCEPT ![e] = new]
  BY <1>1, <1>3
<1>5. /\ new \in End /\ new.stage = "live" /\ new.first = end[e].first
      /\ new.cursor = end[e].cursor
  BY <1>3 DEF End, Stages
<1>6. 1 <= new.first /\ new.first <= new.cursor
  BY <1>1, <1>5, EndFacts
<1>7. wire' = [wire EXCEPT ![o] = in, ![e] = out]
  BY <1>1, <1>2, <1>3
<1>8. Msg("msg3") \in Packet /\ Msg("msg3") \notin Frame
  BY MsgPacket DEF Handshake
<1>9. /\ wire[o] \in Seq(Packet) /\ Len(wire[o]) <= MaxWire + 1 /\ OwnFrames(wire[o], o[2])
      /\ wire[e] \in Seq(Packet) /\ OwnFrames(wire[e], e[2]) /\ MaxWire \in Nat \ {0}
  BY <1>2, EndFacts, MeshFacts
<1>10. InStep("msg2", end[o].stage, wire[e], wire[o], socket[c]) /\ ConnOK(c)
  BY <1>1, <1>2 DEF MeshInv, ConnOK
<1>11. wire[e] = <<>> /\ end[o].stage \in {"msg3", "closed"} /\ FramesBehind(wire[o])
       /\ FramesBehind(wire[e]) /\ socket[c] # "none"
  BY <1>1, <1>10 DEF InStep
<1>12. in \in Seq(Packet) /\ Len(in) <= MaxWire + 1 /\ OwnFrames(in, o[2])
       /\ FramesBehind(in) /\ AllFrames(in)
  <2>1. in \in Seq(Packet) /\ Len(in) = Len(wire[o]) - 1 /\ Len(wire[o]) \in Nat \ {0}
    BY <1>1, <1>9, WireTake
  <2>2. OwnFrames(in, o[2]) /\ FramesBehind(in) /\ AllFrames(in)
    BY <1>1, <1>9, <1>11, OwnKept, FramesKept
  <2> HIDE DEF in
  <2>3. Len(in) <= MaxWire + 1
    BY <1>9, <2>1
  <2> QED BY <2>1, <2>2, <2>3
<1>13. out \in Seq(Packet) /\ Len(out) = 1 /\ OwnFrames(out, e[2]) /\ FramesBehind(out)
  <2>1. out \in Seq(Packet) /\ Len(out) = 1
    BY <1>8, <1>9, <1>11, WirePut
  <2>2. OwnFrames(out, e[2])
    BY <1>8, <1>9, OwnKept
  <2>3. FramesBehind(out)
    BY <1>8, <1>9, <1>11, FramesKept
  <2> QED BY <2>1, <2>2, <2>3
<1> HIDE DEF c, o, new, in, out
<1>14. end'[e] = new /\ end'[o] = end[o] /\ wire'[e] = out /\ wire'[o] = in
  BY <1>2, <1>3, <1>4, <1>7, OneEnd DEF o
<1>15. ConnOK(c)'
  <2>1. InStep("live", end[o].stage, out, in, socket[c])
    BY <1>11, <1>12, <1>13 DEF InStep
  <2> QED BY <1>1, <1>2, <1>5, <1>10, <1>14, <2>1 DEF ConnOK
<1>16. e[1] = c /\ o = Other(e) /\ Len(out) <= MaxWire + 1
  BY <1>9, <1>13 DEF c, o
<1> QED BY <1>1, <1>2, <1>3, <1>4, <1>5, <1>6, <1>7, <1>12, <1>13, <1>15, <1>16, WireStep

(* The responder reads message 3: the dialer has gone live, or is gone,    *)
(* for what a dialer in the handshake has written is message 1.            *)
LEMMA ReadMsg3Step ==
    ASSUME MeshInv, NEW e \in Ends, ReadMsg3(e)
    PROVE  MeshInv'
<1> DEFINE c == e[1]
           o == Other(e)
           live == [end[e] EXCEPT !.stage = "live", !.tasks = {"reader", "writer"}]
           in == Tail(wire[o])
<1>1. /\ end[e].stage = "msg3" /\ wire[o] # <<>> /\ Head(wire[o]) = Msg("msg3")
      /\ wire' = [wire EXCEPT ![o] = Tail(@)]
      /\ UNCHANGED <<peers, up, process, ring, incoming, attempts, budget, received, dropped, receiver>>
  BY DEF ReadMsg3, ReadsMsg
<1>2. c \in Conns /\ e = Responder(c) /\ o = Dialer(c) /\ o \in Ends /\ e # o
      /\ e[2] = c[3] /\ o[2] = c[1]
  BY <1>1, EndOf, StageOf, ConnEnds
<1>3. /\ wire \in [Ends -> Seq(Packet)] /\ socket \in [Conns -> {"none", "up", "down"}]
      /\ end \in [Ends -> End]
  BY DEF MeshInv, MeshTyped
<1>4. wire' = [wire EXCEPT ![o] = in, ![e] = wire[e]]
  BY <1>1, <1>2, <1>3
<1>5. /\ wire[o] \in Seq(Packet) /\ Len(wire[o]) <= MaxWire + 1 /\ OwnFrames(wire[o], o[2])
      /\ wire[e] \in Seq(Packet) /\ Len(wire[e]) <= MaxWire + 1 /\ OwnFrames(wire[e], e[2])
      /\ MaxWire \in Nat \ {0} /\ 1 <= end[e].first /\ end[e].first <= end[e].cursor
  BY <1>2, EndFacts, MeshFacts
<1>6. InStep(end[o].stage, "msg3", wire[o], wire[e], socket[c]) /\ ConnOK(c)
  BY <1>1, <1>2 DEF MeshInv, ConnOK
<1>7. end[o].stage \in {"live", "closed"} /\ FramesBehind(wire[o]) /\ FramesBehind(wire[e])
      /\ socket[c] # "none" /\ (end[o].stage = "live" => AllFrames(wire[e]))
  <2>1. wire[o][1] = Msg("msg3") /\ 1 \in DOMAIN wire[o]
    BY <1>1, <1>5, WireTake
  <2>2. Msg("msg3") # Msg("msg1")
    <3>1. Msg("msg3").kind = "msg3" /\ Msg("msg1").kind = "msg1"
      BY MsgPacket DEF Handshake
    <3> QED BY <3>1
  <2> QED BY <1>6, <2>1, <2>2 DEF InStep
<1>8. in \in Seq(Packet) /\ Len(in) <= MaxWire + 1 /\ OwnFrames(in, o[2])
      /\ FramesBehind(in) /\ AllFrames(in)
  <2>1. in \in Seq(Packet) /\ Len(in) = Len(wire[o]) - 1 /\ Len(wire[o]) \in Nat \ {0}
    BY <1>1, <1>5, WireTake
  <2>2. OwnFrames(in, o[2]) /\ FramesBehind(in) /\ AllFrames(in)
    BY <1>1, <1>5, <1>7, OwnKept, FramesKept
  <2> HIDE DEF in
  <2>3. Len(in) <= MaxWire + 1
    BY <1>5, <2>1
  <2> QED BY <2>1, <2>2, <2>3
<1>9. e[1] = c /\ o = Other(e)
  OBVIOUS
<1>10. CASE c[1] \in peers[c[3]] /\ GoLive(e) /\ UNCHANGED socket
  <2>1. end' = [end EXCEPT ![e].stage = "live", ![e].tasks = {"reader", "writer"}]
    BY <1>10 DEF GoLive
  <2>2. end' = [end EXCEPT ![e] = live]
    BY <1>3, <2>1
  <2>3. live \in End /\ live.stage = "live" /\ live.first = end[e].first /\ live.cursor = end[e].cursor
    BY <1>3 DEF End, Stages
  <2> HIDE DEF c, o, live, in
  <2>4. end'[e] = live /\ end'[o] = end[o] /\ wire'[e] = wire[e] /\ wire'[o] = in
    BY <1>2, <1>3, <1>4, <2>2, OneEnd DEF o
  <2>5. ConnOK(c)'
    <3>1. InStep(end[o].stage, "live", in, wire[e], socket[c])
      BY <1>6, <1>7, <1>8 DEF InStep
    <3> QED BY <1>1, <1>2, <1>6, <1>10, <2>3, <2>4, <3>1 DEF ConnOK
  <2>6. 1 <= live.first /\ live.first <= live.cursor
    BY <1>5, <2>3
  <2>7. socket' \in [Conns -> {"none", "up", "down"}] /\ \A b \in Conns : b # c => socket'[b] = socket[b]
    BY <1>3, <1>10
  <2> QED BY <1>1, <1>2, <1>4, <1>5, <1>8, <1>9, <2>2, <2>3, <2>5, <2>6, <2>7, WireStep
<1>11. CASE end' = [end EXCEPT ![e] = ClosedEnd] /\ socket' = [socket EXCEPT ![c] = "down"]
  <2> HIDE DEF c, o, in
  <2>1. end'[e] = ClosedEnd /\ end'[o] = end[o] /\ wire'[e] = wire[e] /\ wire'[o] = in
    BY <1>2, <1>3, <1>4, <1>11, OneEnd DEF o
  <2>2. socket' \in [Conns -> {"none", "up", "down"}] /\ socket'[c] = "down"
        /\ \A b \in Conns : b # c => socket'[b] = socket[b]
    BY <1>2, <1>3, <1>11
  <2>3. /\ ClosedEnd \in End /\ 1 <= ClosedEnd.first /\ ClosedEnd.first <= ClosedEnd.cursor
        /\ ClosedEnd.tasks # {} => ClosedEnd.stage = "live"
    BY ClosedEndTyped
  <2>4. ConnOK(c)'
    <3>1. InStep(end[o].stage, "closed", in, wire[e], "down")
      BY <1>6, <1>7, <1>8 DEF InStep
    <3> QED BY <1>1, <1>2, <1>6, <2>1, <2>2, <3>1, ClosedEndTyped DEF ConnOK
  <2>5. end' = [end EXCEPT ![e] = ClosedEnd]
    BY <1>11
  <2> QED BY <1>1, <1>2, <1>4, <1>5, <1>8, <1>9, <2>2, <2>3, <2>4, <2>5, WireStep
<1> QED BY <1>2, <1>10, <1>11 DEF ReadMsg3

----------------------------------------------------------------------------
(* Frames.                                                                 *)

(* The frame at a writer's cursor. *)
LEMMA NextFrame ==
    ASSUME MeshInv, NEW e \in Ends, NEW size, HasNext(e, size)
    PROVE  /\ FrameOf(Current(e[2]), end[e].cursor) \in Frame
           /\ FrameOf(Current(e[2]), end[e].cursor).from = Current(e[2])
           /\ FrameOf(Current(e[2]), end[e].cursor).at = end[e].cursor
           /\ end[e].cursor \in 1 .. MaxBroadcasts /\ end[e].stage = "live"
<1>1. /\ "writer" \in end[e].tasks /\ end[e].cursor <= Len(ring[Current(e[2])])
  BY DEF HasNext
<1>2. /\ Current(e[2]) \in Processes /\ end[e].cursor \in Nat /\ end[e].first \in Nat
      /\ Len(ring[Current(e[2])]) \in Nat /\ Len(ring[Current(e[2])]) <= MaxBroadcasts
      /\ MaxBroadcasts \in Nat
  BY MeshFacts
<1>3. 1 <= end[e].first /\ end[e].first <= end[e].cursor /\ end[e].stage = "live"
  BY <1>1, EndFacts
<1>4. end[e].cursor \in 1 .. MaxBroadcasts
  BY <1>1, <1>2, <1>3
<1> QED BY <1>2, <1>3, <1>4 DEF FrameOf, Frame

LEMMA WriteStep ==
    ASSUME MeshInv, NEW e \in Ends, Write(e)
    PROVE  MeshInv'
<1> DEFINE c == e[1]
           o == Other(e)
           new == [end[e] EXCEPT !.cursor = end[e].cursor + 1]
           x == FrameOf(Current(e[2]), end[e].cursor)
           out == Append(wire[e], x)
<1>1. /\ HasNext(e, "fits") /\ socket[c] = "up" /\ Len(wire[e]) < MaxWire
      /\ wire' = [wire EXCEPT ![e] = Append(@, x)]
      /\ end' = [end EXCEPT ![e].cursor = @ + 1]
      /\ UNCHANGED <<peers, up, process, ring, incoming, socket, attempts, budget, received, dropped, receiver>>
  BY DEF Write
<1>2. /\ c \in Conns /\ o \in Ends /\ e # o /\ e[2] \in Nodes
      /\ (e = Dialer(c) /\ o = Responder(c)) \/ (e = Responder(c) /\ o = Dialer(c))
  BY EndOf, ConnEnds
<1>3. /\ wire \in [Ends -> Seq(Packet)] /\ socket \in [Conns -> {"none", "up", "down"}]
      /\ end \in [Ends -> End]
  BY DEF MeshInv, MeshTyped
<1>4. x \in Frame /\ x \in Packet /\ x.from[1] = e[2] /\ end[e].stage = "live"
  <2>1. Current(e[2])[1] = e[2]
    BY <1>2, MeshFacts
  <2> QED BY <1>1, <2>1, NextFrame DEF Packet
<1>5. end' = [end EXCEPT ![e] = new]
  BY <1>1, <1>3
<1>6. /\ new \in End /\ new.stage = "live" /\ new.first = end[e].first
      /\ new.cursor = end[e].cursor + 1 /\ new.tasks = end[e].tasks
      /\ 1 <= new.first /\ new.first <= new.cursor
  <2>1. end[e] \in End /\ end[e].cursor \in Nat /\ end[e].first \in Nat
    BY MeshFacts
  <2>2. /\ new \in End /\ new.stage = "live" /\ new.first = end[e].first
        /\ new.cursor = end[e].cursor + 1 /\ new.tasks = end[e].tasks
    BY <1>4, <2>1 DEF End
  <2> HIDE DEF new
  <2> QED BY <2>1, <2>2, EndFacts
<1>7. wire' = [wire EXCEPT ![o] = wire[o], ![e] = out]
  BY <1>1, <1>2, <1>3
<1>8. /\ wire[o] \in Seq(Packet) /\ Len(wire[o]) <= MaxWire + 1 /\ OwnFrames(wire[o], o[2])
      /\ wire[e] \in Seq(Packet) /\ OwnFrames(wire[e], e[2]) /\ MaxWire \in Nat \ {0}
  BY <1>2, EndFacts, MeshFacts
<1>9. FramesBehind(wire[e])
  BY <1>2 DEF MeshInv, ConnOK, InStep
<1>10. out \in Seq(Packet) /\ Len(out) <= MaxWire + 1 /\ OwnFrames(out, e[2])
       /\ FramesBehind(out) /\ (AllFrames(wire[e]) => AllFrames(out))
  <2> HIDE DEF x
  <2>1. out \in Seq(Packet) /\ Len(out) = Len(wire[e]) + 1 /\ Len(wire[e]) \in Nat
    BY <1>4, <1>8, WirePut
  <2>2. OwnFrames(out, e[2])
    BY <1>4, <1>8, OwnKept
  <2>3. FramesBehind(out) /\ (AllFrames(wire[e]) => AllFrames(out))
    BY <1>4, <1>8, <1>9, FramesKept
  <2> HIDE DEF out
  <2>4. Len(out) <= MaxWire + 1
    BY <1>1, <1>8, <2>1
  <2> QED BY <2>1, <2>2, <2>3, <2>4
<1> HIDE DEF c, o, new, out, x
<1>11. end'[e] = new /\ end'[o] = end[o] /\ wire'[e] = out /\ wire'[o] = wire[o]
  BY <1>2, <1>3, <1>5, <1>7, OneEnd DEF o
<1>12. ConnOK(c)'
  <2>1. ConnOK(c)
    BY <1>2 DEF MeshInv
  <2>2. CASE e = Dialer(c) /\ o = Responder(c)
    <3>1. InStep("live", end[o].stage, wire[e], wire[o], socket[c])
      BY <1>4, <2>1, <2>2 DEF ConnOK
    <3>2. InStep("live", end[o].stage, out, wire[o], socket[c])
      BY <1>1, <1>10, <3>1 DEF InStep
    <3> QED BY <1>1, <1>4, <1>6, <1>11, <2>1, <2>2, <3>2 DEF ConnOK
  <2>3. CASE e = Responder(c) /\ o = Dialer(c)
    <3>1. InStep(end[o].stage, "live", wire[o], wire[e], socket[c])
      BY <1>4, <2>1, <2>3 DEF ConnOK
    <3>2. InStep(end[o].stage, "live", wire[o], out, socket[c])
      BY <1>1, <1>10, <3>1 DEF InStep
    <3> QED BY <1>1, <1>4, <1>6, <1>11, <2>1, <2>3, <3>2 DEF ConnOK
  <2> QED BY <1>2, <2>2, <2>3
<1>13. e[1] = c /\ o = Other(e)
  BY DEF c, o
<1>14. socket' \in [Conns -> {"none", "up", "down"}] /\ \A b \in Conns : b # c => socket'[b] = socket[b]
  BY <1>1, <1>3
<1> QED BY <1>1, <1>2, <1>5, <1>6, <1>7, <1>8, <1>10, <1>12, <1>13, <1>14, WireStep

LEMMA ReaderEndsStep ==
    ASSUME MeshInv, NEW e \in Ends, ReaderEnds(e)
    PROVE  MeshInv'
<1> DEFINE c == e[1]
           o == Other(e)
           new == [end[e] EXCEPT !.tasks = end[e].tasks \ {"reader"}]
           in == <<>>
<1>1. /\ "reader" \in end[e].tasks
      /\ wire' = [wire EXCEPT ![o] = <<>>]
      /\ end' = [end EXCEPT ![e].tasks = @ \ {"reader"}]
      /\ UNCHANGED <<peers, up, process, ring, incoming, socket, attempts, budget, received, dropped, receiver>>
  BY DEF ReaderEnds
<1>2. /\ c \in Conns /\ o \in Ends /\ e # o
      /\ (e = Dialer(c) /\ o = Responder(c)) \/ (e = Responder(c) /\ o = Dialer(c))
  BY EndOf, ConnEnds
<1>3. /\ wire \in [Ends -> Seq(Packet)] /\ socket \in [Conns -> {"none", "up", "down"}]
      /\ end \in [Ends -> End]
  BY DEF MeshInv, MeshTyped
<1>4. end[e].stage = "live"
  BY <1>1, EndFacts
<1>5. end' = [end EXCEPT ![e] = new]
  BY <1>1, <1>3
<1>6. /\ new \in End /\ new.stage = "live" /\ 1 <= new.first /\ new.first <= new.cursor
  <2>1. end[e] \in End
    BY MeshFacts
  <2>2. new \in End /\ new.stage = "live" /\ new.first = end[e].first /\ new.cursor = end[e].cursor
    BY <1>4, <2>1 DEF End
  <2> HIDE DEF new
  <2> QED BY <2>1, <2>2, EndFacts
<1>7. wire' = [wire EXCEPT ![o] = in, ![e] = wire[e]]
  BY <1>1, <1>2, <1>3
<1>8. /\ wire[e] \in Seq(Packet) /\ Len(wire[e]) <= MaxWire + 1 /\ OwnFrames(wire[e], e[2])
      /\ MaxWire \in Nat \ {0}
  BY <1>2, EndFacts, MeshFacts
<1>9. in \in Seq(Packet) /\ Len(in) = 0 /\ DOMAIN in = {}
  OBVIOUS
<1>10. /\ Len(in) <= MaxWire + 1 /\ OwnFrames(in, o[2]) /\ FramesBehind(in) /\ AllFrames(in)
       /\ Len(in) <= 1 /\ \A i \in DOMAIN in : in[i] = Msg("msg1")
  BY <1>8, <1>9 DEF OwnFrames, FramesBehind, AllFrames
<1>11. in = <<>>
  OBVIOUS
<1> HIDE DEF c, o, new, in
<1>12. end'[e] = new /\ end'[o] = end[o] /\ wire'[e] = wire[e] /\ wire'[o] = in
  BY <1>2, <1>3, <1>5, <1>7, OneEnd DEF o
<1>13. ConnOK(c)'
  <2>1. ConnOK(c)
    BY <1>2 DEF MeshInv
  <2>2. CASE e = Dialer(c) /\ o = Responder(c)
    <3>1. InStep("live", end[o].stage, wire[e], wire[o], socket[c])
      BY <1>4, <2>1, <2>2 DEF ConnOK
    <3>2. InStep("live", end[o].stage, wire[e], in, socket[c])
      BY <1>10, <1>11, <3>1 DEF InStep
    <3> QED BY <1>1, <1>4, <1>6, <1>12, <2>1, <2>2, <3>2 DEF ConnOK
  <2>3. CASE e = Responder(c) /\ o = Dialer(c)
    <3>1. InStep(end[o].stage, "live", wire[o], wire[e], socket[c])
      BY <1>4, <2>1, <2>3 DEF ConnOK
    <3>2. InStep(end[o].stage, "live", in, wire[e], socket[c])
      BY <1>10, <1>11, <3>1 DEF InStep
    <3> QED BY <1>1, <1>4, <1>6, <1>12, <2>1, <2>3, <3>2 DEF ConnOK
  <2> QED BY <1>2, <2>2, <2>3
<1>14. e[1] = c /\ o = Other(e)
  BY DEF c, o
<1>15. socket' \in [Conns -> {"none", "up", "down"}] /\ \A b \in Conns : b # c => socket'[b] = socket[b]
  BY <1>1, <1>3
<1>16. new.tasks # {} => new.stage = "live"
  BY <1>6
<1>17. UNCHANGED <<peers, up, process, ring, incoming, attempts, budget, received, dropped, receiver>>
  BY <1>1
<1>18. /\ MeshInv /\ c \in Conns /\ new \in End /\ 1 <= new.first /\ new.first <= new.cursor
       /\ in \in Seq(Packet) /\ Len(in) <= MaxWire + 1 /\ OwnFrames(in, o[2])
       /\ wire[e] \in Seq(Packet) /\ Len(wire[e]) <= MaxWire + 1 /\ OwnFrames(wire[e], e[2])
  BY <1>2, <1>6, <1>8, <1>9, <1>10
<1> QED BY <1>5, <1>7, <1>13, <1>14, <1>15, <1>16, <1>17, <1>18, WireStep, Zenon

(* A reader takes a frame: its end is live, so the other side's handshake  *)
(* is over and the frame is a peer's.                                      *)
LEMMA ReadStep ==
    ASSUME MeshInv, NEW e \in Ends, Read(e)
    PROVE  MeshInv'
<1> DEFINE c == e[1]
           o == Other(e)
           n == e[2]
           x == Head(wire[o])
           in == Tail(wire[o])
<1>1. /\ "reader" \in end[e].tasks /\ wire[o] # <<>> /\ Len(incoming[n]) < MaxIncoming
      /\ incoming' = [incoming EXCEPT ![n] = Append(@, x)]
      /\ wire' = [wire EXCEPT ![o] = in]
      /\ UNCHANGED <<peers, up, process, ring, socket, end, attempts, budget, received, dropped, receiver>>
  BY DEF Read
<1>2. /\ c \in Conns /\ o \in Ends /\ e # o /\ n \in Nodes /\ o[1] = c
      /\ \/ e = Dialer(c) /\ o = Responder(c) /\ n = c[1] /\ o[2] = c[3]
         \/ e = Responder(c) /\ o = Dialer(c) /\ n = c[3] /\ o[2] = c[1]
  BY EndOf, ConnEnds
<1>3. /\ wire \in [Ends -> Seq(Packet)] /\ incoming \in [Nodes -> Seq(Frame)]
  BY DEF MeshInv, MeshTyped
<1>4. end[e].stage = "live"
  BY <1>1, EndFacts
<1>5. /\ wire[o] \in Seq(Packet) /\ Len(wire[o]) <= MaxWire + 1 /\ OwnFrames(wire[o], o[2])
      /\ MaxWire \in Nat \ {0} /\ MaxIncoming \in Nat \ {0}
  BY <1>2, EndFacts, MeshFacts
<1>6. AllFrames(wire[o]) /\ FramesBehind(wire[o]) /\ o[2] \in peers[n] /\ ConnOK(c)
  BY <1>2, <1>4 DEF MeshInv, ConnOK, InStep
<1>7. x \in Frame /\ x.from[1] = o[2] /\ x.from[1] \in peers[n]
  <2>1. x = wire[o][1] /\ 1 \in DOMAIN wire[o]
    BY <1>1, <1>5, WireTake
  <2>2. x \in Frame
    BY <1>6, <2>1 DEF AllFrames
  <2>3. x.from[1] = o[2]
    BY <1>5, <2>1, <2>2 DEF OwnFrames
  <2> QED BY <1>6, <2>2, <2>3
<1>8. /\ in \in Seq(Packet) /\ Len(in) <= MaxWire + 1 /\ OwnFrames(in, o[2]) /\ FramesBehind(in)
      /\ AllFrames(in)
  <2>1. in \in Seq(Packet) /\ Len(in) = Len(wire[o]) - 1 /\ Len(wire[o]) \in Nat \ {0}
    BY <1>1, <1>5, WireTake
  <2>2. OwnFrames(in, o[2]) /\ FramesBehind(in) /\ AllFrames(in)
    BY <1>1, <1>5, <1>6, OwnKept, FramesKept
  <2> HIDE DEF in
  <2>3. Len(in) <= MaxWire + 1
    BY <1>5, <2>1
  <2> QED BY <2>1, <2>2, <2>3
<1> HIDE DEF c, o, n, x, in
<1>9. wire'[o] = in /\ wire'[e] = wire[e] /\ \A f \in Ends : f[1] # c => wire'[f] = wire[f]
  BY <1>1, <1>2, <1>3
<1>10. MeshTyped'
  <2>1. wire' \in [Ends -> Seq(Packet)]
    BY <1>1, <1>2, <1>3, <1>8
  <2>2. incoming' \in [Nodes -> Seq(Frame)]
    BY <1>1, <1>2, <1>3, <1>7
  <2> QED BY <1>1, <2>1, <2>2 DEF MeshInv, MeshTyped
<1>11. ConnOK(c)'
  <2>1. CASE e = Dialer(c) /\ o = Responder(c)
    <3>1. InStep("live", end[o].stage, wire[e], wire[o], socket[c])
      BY <1>4, <1>6, <2>1 DEF ConnOK
    <3>2. InStep("live", end[o].stage, wire[e], in, socket[c])
      BY <1>1, <1>8, <3>1 DEF InStep
    <3> QED BY <1>1, <1>4, <1>6, <1>9, <2>1, <3>2 DEF ConnOK
  <2>2. CASE e = Responder(c) /\ o = Dialer(c)
    <3>1. InStep(end[o].stage, "live", wire[o], wire[e], socket[c])
      BY <1>4, <1>6, <2>2 DEF ConnOK
    <3>2. InStep(end[o].stage, "live", in, wire[e], socket[c])
      BY <1>1, <1>8, <3>1 DEF InStep
    <3> QED BY <1>1, <1>4, <1>6, <1>9, <2>2, <3>2 DEF ConnOK
  <2> QED BY <1>2, <2>1, <2>2
<1>12. EndOK(e)' /\ EndOK(o)'
  <2>1. EndOK(e) /\ EndOK(o)
    BY <1>2 DEF MeshInv
  <2>2. \A i \in DOMAIN in : in[i] \in Frame => in[i].from[1] = o[2]
    BY <1>8 DEF OwnFrames
  <2> QED BY <1>1, <1>8, <1>9, <2>1, <2>2 DEF EndOK
<1>13. EndOK(Dialer(c))' /\ EndOK(Responder(c))'
  BY <1>2, <1>12
<1>14. ASSUME NEW m \in Nodes PROVE NodeOK(m)'
  <2>1. NodeOK(m)
    BY DEF MeshInv
  <2>2. CASE m = n
    <3>1. incoming'[n] = Append(incoming[n], x) /\ incoming[n] \in Seq(Frame) /\ Len(incoming[n]) \in Nat
      BY <1>1, <1>2, <1>3
    <3>2. Len(incoming'[n]) <= MaxIncoming
      BY <1>1, <1>5, <1>7, <3>1
    <3>3. ASSUME NEW i \in DOMAIN incoming'[n] PROVE incoming'[n][i].from[1] \in peers[n]
      <4>1. /\ i \in 1 .. Len(incoming[n]) \/ i = Len(incoming[n]) + 1
            /\ DOMAIN incoming[n] = 1 .. Len(incoming[n])
        BY <1>7, <3>1
      <4>2. CASE i \in 1 .. Len(incoming[n])
        <5>1. incoming'[n][i] = incoming[n][i]
          BY <1>7, <3>1, <4>2
        <5> QED BY <2>1, <2>2, <4>1, <4>2, <5>1 DEF NodeOK
      <4>3. CASE i = Len(incoming[n]) + 1
        <5>1. incoming'[n][i] = x
          BY <1>7, <3>1, <4>3
        <5> QED BY <1>7, <5>1
      <4> QED BY <4>1, <4>2, <4>3
    <3> QED BY <1>1, <2>1, <2>2, <3>2, <3>3 DEF NodeOK
  <2>3. CASE m # n
    <3>1. incoming'[m] = incoming[m]
      BY <1>1, <1>3, <2>3
    <3> QED BY <1>1, <2>1, <3>1 DEF NodeOK
  <2> QED BY <2>2, <2>3
<1>15. /\ peers' = peers /\ ring' = ring /\ budget' = budget
       /\ \A f \in Ends : f[1] # c => end'[f] = end[f] /\ wire'[f] = wire[f]
       /\ \A b \in Conns : b # c => socket'[b] = socket[b] /\ attempts'[b] = attempts[b]
  BY <1>1, <1>9
<1> QED BY <1>2, <1>10, <1>11, <1>13, <1>14, <1>15, LocalStep

(* When all that changes is at the nodes, or in the budget and the rings,  *)
(* the connections are as they were.                                       *)
LEMMA ConnsStay ==
    ASSUME MeshInv, MeshTyped', UNCHANGED <<peers, socket, end, wire, attempts>>,
           \A p \in Processes : Len(ring'[p]) <= budget'.broadcasts,
           \A n \in Nodes : NodeOK(n)'
    PROVE  MeshInv'
<1>1. \A c \in Conns : ConnOK(c)'
  BY DEF MeshInv, ConnOK
<1>2. \A e \in Ends : EndOK(e)'
  BY DEF MeshInv, EndOK
<1> QED BY <1>1, <1>2 DEF MeshInv

LEMMA ReceiveStep ==
    ASSUME MeshInv, NEW n \in Nodes, Receive(n)
    PROVE  MeshInv'
<1> DEFINE q == incoming[n]
<1>1. /\ q # <<>> /\ received' = [received EXCEPT ![n] = @ \cup {Head(q)}]
      /\ incoming' = [incoming EXCEPT ![n] = Tail(q)]
      /\ UNCHANGED <<peers, up, process, ring, socket, end, wire, attempts, budget, dropped, receiver>>
  BY DEF Receive
<1>2. incoming \in [Nodes -> Seq(Frame)] /\ received \in [Nodes -> SUBSET Frame]
  BY DEF MeshInv, MeshTyped
<1>3. /\ q \in Seq(Frame) /\ Head(q) = q[1] /\ 1 \in DOMAIN q /\ Head(q) \in Frame
      /\ Tail(q) \in Seq(Frame) /\ Len(Tail(q)) = Len(q) - 1 /\ Len(q) \in Nat
      /\ \A i \in DOMAIN Tail(q) : i + 1 \in DOMAIN q /\ Tail(q)[i] = q[i + 1]
  <2>1. q \in Seq(Frame)
    BY <1>2
  <2> HIDE DEF q
  <2>2. /\ Head(q) = q[1] /\ 1 \in DOMAIN q /\ Head(q) \in Frame
        /\ Tail(q) \in Seq(Frame) /\ Len(Tail(q)) = Len(q) - 1 /\ Len(q) \in Nat
        /\ DOMAIN q = 1 .. Len(q) /\ DOMAIN Tail(q) = 1 .. Len(q) - 1
    BY <1>1, <2>1
  <2>3. \A i \in 1 .. Len(q) - 1 : i + 1 \in DOMAIN q /\ Tail(q)[i] = q[i + 1]
    BY <1>1, <2>1, <2>2
  <2> QED BY <2>1, <2>2, <2>3
<1> HIDE DEF q
<1>4. MeshTyped'
  <2>1. received' \in [Nodes -> SUBSET Frame] /\ incoming' \in [Nodes -> Seq(Frame)]
    BY <1>1, <1>2, <1>3
  <2> QED BY <1>1, <2>1 DEF MeshInv, MeshTyped
<1>5. ASSUME NEW m \in Nodes PROVE NodeOK(m)'
  <2>1. NodeOK(m)
    BY DEF MeshInv
  <2>2. CASE m = n
    <3>1. incoming'[m] = Tail(q) /\ received'[m] = received[m] \cup {Head(q)}
      BY <1>1, <1>2, <2>2
    <3>2. /\ Len(q) <= MaxIncoming /\ (\A i \in DOMAIN q : q[i].from[1] \in peers[n])
      BY <2>1, <2>2 DEF NodeOK, q
    <3>3. Len(Tail(q)) <= MaxIncoming
      BY <1>3, <3>2, MeshFacts
    <3>4. \A i \in DOMAIN Tail(q) : Tail(q)[i].from[1] \in peers[n]
      BY <1>3, <3>2
    <3>5. Head(q).from[1] \in peers[n]
      BY <1>3, <3>2
    <3>6. \A f \in received[m] \cup {Head(q)} : f.from[1] \in peers[m]
      BY <2>1, <2>2, <3>5 DEF NodeOK
    <3> QED BY <1>1, <2>1, <2>2, <3>1, <3>3, <3>4, <3>6 DEF NodeOK
  <2>3. CASE m # n
    <3>1. incoming'[m] = incoming[m] /\ received'[m] = received[m]
      BY <1>1, <1>2, <2>3
    <3> QED BY <1>1, <2>1, <3>1 DEF NodeOK
  <2> QED BY <2>2, <2>3
<1>6. \A p \in Processes : Len(ring'[p]) <= budget'.broadcasts
  BY <1>1 DEF MeshInv
<1> QED BY <1>1, <1>4, <1>5, <1>6, ConnsStay

LEMMA DropReceiverStep ==
    ASSUME MeshInv, NEW n \in Nodes, DropReceiver(n)
    PROVE  MeshInv'
<1>1. /\ budget.faults < MaxFaults /\ budget' = [budget EXCEPT !.faults = @ + 1]
      /\ receiver' = [receiver EXCEPT ![n] = FALSE]
      /\ incoming' = [incoming EXCEPT ![n] = <<>>]
      /\ UNCHANGED <<peers, up, process, ring, socket, end, wire, attempts, received, dropped>>
  BY DEF DropReceiver
<1>2. /\ incoming \in [Nodes -> Seq(Frame)] /\ receiver \in [Nodes -> BOOLEAN]
      /\ process \in [Nodes -> Nat]
      /\ budget \in [broadcasts : 0 .. MaxBroadcasts, faults : 0 .. MaxFaults]
      /\ budget.faults \in 0 .. MaxFaults /\ MaxFaults \in Nat
  BY MeshFacts DEF MeshInv, MeshTyped
<1>3. budget'.broadcasts = budget.broadcasts /\ budget'.faults = budget.faults + 1
      /\ budget' \in [broadcasts : 0 .. MaxBroadcasts, faults : 0 .. MaxFaults]
  <2>1. budget.faults < MaxFaults /\ budget' = [budget EXCEPT !.faults = @ + 1]
    BY <1>1
  <2>2. /\ budget \in [broadcasts : 0 .. MaxBroadcasts, faults : 0 .. MaxFaults]
        /\ budget.faults \in 0 .. MaxFaults /\ MaxFaults \in Nat
    BY <1>2
  <2> QED BY <2>1, <2>2
<1>4. <<>> \in Seq(Frame) /\ Len(<<>>) = 0 /\ \A i \in DOMAIN <<>> : FALSE
  OBVIOUS
<1>5. MeshTyped'
  <2>1. incoming' \in [Nodes -> Seq(Frame)] /\ receiver' \in [Nodes -> BOOLEAN]
    BY <1>1, <1>2, <1>4
  <2> QED BY <1>1, <1>3, <2>1 DEF MeshInv, MeshTyped
<1>6. ASSUME NEW m \in Nodes PROVE NodeOK(m)'
  <2>1. NodeOK(m) /\ process[m] \in Nat /\ MaxIncoming \in Nat
    BY <1>2, MeshFacts DEF MeshInv
  <2>2. process[m] <= budget'.faults /\ process[m] < budget'.faults
    BY <1>2, <1>3, <2>1 DEF NodeOK
  <2>3. incoming'[m] = incoming[m] \/ incoming'[m] = <<>>
    BY <1>1, <1>2
  <2> QED BY <1>1, <1>4, <2>1, <2>2, <2>3 DEF NodeOK
<1>7. \A p \in Processes : Len(ring'[p]) <= budget'.broadcasts
  BY <1>1, <1>3 DEF MeshInv
<1> QED BY <1>1, <1>5, <1>6, <1>7, ConnsStay

LEMMA BroadcastStep ==
    ASSUME MeshInv, NEW n \in Nodes, NEW size \in Sizes, Broadcast(n, size)
    PROVE  MeshInv'
<1> DEFINE p == Current(n)
<1>1. /\ budget.broadcasts < MaxBroadcasts
      /\ ring' = [ring EXCEPT ![p] = Append(@, size)]
      /\ budget' = [budget EXCEPT !.broadcasts = @ + 1]
      /\ UNCHANGED <<peers, up, process, incoming, socket, end, wire, attempts, received, dropped, receiver>>
  BY DEF Broadcast
<1>2. p \in Processes /\ budget.broadcasts \in 0 .. MaxBroadcasts /\ MaxBroadcasts \in Nat
  BY MeshFacts
<1>3. /\ ring \in [Processes -> Seq(Sizes)]
      /\ budget \in [broadcasts : 0 .. MaxBroadcasts, faults : 0 .. MaxFaults]
  BY DEF MeshInv, MeshTyped
<1> HIDE DEF p
<1>4. budget'.broadcasts = budget.broadcasts + 1 /\ budget'.faults = budget.faults
      /\ budget' \in [broadcasts : 0 .. MaxBroadcasts, faults : 0 .. MaxFaults]
  BY <1>1, <1>2, <1>3, SMTT(30)
<1>5. ring' \in [Processes -> Seq(Sizes)]
  BY <1>1, <1>2, <1>3
<1>6. MeshTyped'
  BY <1>1, <1>4, <1>5 DEF MeshInv, MeshTyped
<1>7. ASSUME NEW r \in Processes PROVE Len(ring'[r]) <= budget'.broadcasts
  <2>1. Len(ring[r]) <= budget.broadcasts /\ Len(ring[r]) \in Nat
    BY MeshFacts DEF MeshInv
  <2>2. ring'[r] = ring[r] \/ Len(ring'[r]) = Len(ring[r]) + 1
    BY <1>1, <1>3
  <2> QED BY <1>2, <1>4, <2>1, <2>2
<1>8. \A m \in Nodes : NodeOK(m)'
  BY <1>1, <1>4 DEF MeshInv, NodeOK
<1> QED BY <1>1, <1>6, <1>7, <1>8, ConnsStay

LEMMA RestartStep ==
    ASSUME MeshInv, NEW n \in Nodes, Restart(n)
    PROVE  MeshInv'
<1>1. /\ ~up[n] /\ up' = [up EXCEPT ![n] = TRUE] /\ process' = [process EXCEPT ![n] = @ + 1]
      /\ UNCHANGED <<peers, ring, incoming, socket, end, wire, attempts, budget, received, dropped, receiver>>
  BY DEF Restart
<1>2. up \in [Nodes -> BOOLEAN] /\ process \in [Nodes -> Nat]
  BY DEF MeshInv, MeshTyped
<1>3. up' \in [Nodes -> BOOLEAN] /\ process' \in [Nodes -> Nat]
  BY <1>1, <1>2
<1>4. MeshTyped'
  BY <1>1, <1>3 DEF MeshInv, MeshTyped
<1>5. ASSUME NEW m \in Nodes PROVE NodeOK(m)'
  <2>1. NodeOK(m) /\ process[m] \in Nat /\ budget.faults \in Nat
    BY <1>2, MeshFacts DEF MeshInv
  <2>2. CASE m = n
    <3>1. process'[m] = process[m] + 1 /\ up'[m]
      BY <1>1, <1>2, <2>2
    <3>2. process[m] < budget.faults
      BY <1>1, <2>1, <2>2 DEF NodeOK
    <3>3. process'[m] <= budget.faults
      BY <2>1, <3>1, <3>2
    <3> QED BY <1>1, <2>1, <3>1, <3>3 DEF NodeOK
  <2>3. CASE m # n
    <3>1. process'[m] = process[m] /\ up'[m] = up[m]
      BY <1>1, <1>2, <2>3
    <3> QED BY <1>1, <2>1, <3>1 DEF NodeOK
  <2> QED BY <2>2, <2>3
<1>6. \A p \in Processes : Len(ring'[p]) <= budget'.broadcasts
  BY <1>1 DEF MeshInv
<1> QED BY <1>1, <1>4, <1>5, <1>6, ConnsStay

LEMMA BreakStep ==
    ASSUME MeshInv, NEW c \in Conns, Break(c)
    PROVE  MeshInv'
<1>1. /\ socket[c] = "up" /\ budget.faults < MaxFaults
      /\ socket' = [socket EXCEPT ![c] = "down"]
      /\ budget' = [budget EXCEPT !.faults = @ + 1]
      /\ UNCHANGED <<peers, up, process, ring, incoming, end, wire, attempts, received, dropped, receiver>>
  BY DEF Break
<1>2. /\ socket \in [Conns -> {"none", "up", "down"}] /\ process \in [Nodes -> Nat]
      /\ budget \in [broadcasts : 0 .. MaxBroadcasts, faults : 0 .. MaxFaults]
      /\ budget.faults \in 0 .. MaxFaults /\ MaxFaults \in Nat
  BY MeshFacts DEF MeshInv, MeshTyped
<1>3. budget'.broadcasts = budget.broadcasts /\ budget'.faults = budget.faults + 1
      /\ budget' \in [broadcasts : 0 .. MaxBroadcasts, faults : 0 .. MaxFaults]
  BY <1>1, <1>2
<1>4. MeshTyped'
  <2>1. socket' \in [Conns -> {"none", "up", "down"}]
    BY <1>1, <1>2
  <2> QED BY <1>1, <1>3, <2>1 DEF MeshInv, MeshTyped
<1>5. ASSUME NEW m \in Nodes PROVE NodeOK(m)'
  <2>1. NodeOK(m) /\ process[m] \in Nat
    BY <1>2 DEF MeshInv
  <2>2. process[m] <= budget'.faults /\ (~up[m] => process[m] < budget'.faults)
    BY <1>2, <1>3, <2>1 DEF NodeOK
  <2> QED BY <1>1, <2>1, <2>2 DEF NodeOK
<1>6. ASSUME NEW b \in Conns PROVE ConnOK(b)'
  <2>1. ConnOK(b)
    BY DEF MeshInv
  <2>2. CASE b = c
    <3>1. socket'[b] = "down"
      BY <1>1, <1>2, <2>2
    <3>2. InStep(end[Dialer(b)].stage, end[Responder(b)].stage, wire[Dialer(b)], wire[Responder(b)], "up")
      BY <1>1, <2>1, <2>2 DEF ConnOK
    <3>3. InStep(end[Dialer(b)].stage, end[Responder(b)].stage, wire[Dialer(b)], wire[Responder(b)], "down")
      BY <3>2, InStepClosed
    <3> QED BY <1>1, <2>1, <3>1, <3>3 DEF ConnOK
  <2>3. CASE b # c
    <3>1. socket'[b] = socket[b]
      BY <1>1, <1>2, <2>3
    <3> QED BY <1>1, <2>1, <3>1 DEF ConnOK
  <2> QED BY <2>2, <2>3
<1>7. \A e \in Ends : EndOK(e)'
  BY <1>1 DEF MeshInv, EndOK
<1>8. \A p \in Processes : Len(ring'[p]) <= budget'.broadcasts
  BY <1>1, <1>3 DEF MeshInv
<1> QED BY <1>4, <1>5, <1>6, <1>7, <1>8 DEF MeshInv

(* A process ends.  The ends it held are closed, and what was on the wires *)
(* to them is gone.                                                        *)
LEMMA CrashStep ==
    ASSUME MeshInv, NEW n \in Nodes, Crash(n)
    PROVE  MeshInv'
<1>1. /\ budget.faults < MaxFaults /\ budget' = [budget EXCEPT !.faults = @ + 1]
      /\ up' = [up EXCEPT ![n] = FALSE]
      /\ incoming' = [incoming EXCEPT ![n] = <<>>]
      /\ received' = [received EXCEPT ![n] = {}]
      /\ receiver' = [receiver EXCEPT ![n] = TRUE]
      /\ end' = [e \in Ends |-> IF e[1] \in Held(n) /\ e[2] = n THEN ClosedEnd ELSE end[e]]
      /\ wire' = [e \in Ends |-> IF e[1] \in Held(n) /\ e[2] # n THEN <<>> ELSE wire[e]]
      /\ dropped' = [e \in Ends |-> IF e[2] = n THEN {} ELSE dropped[e]]
      /\ socket' = [c \in Conns |-> IF c \in Held(n) /\ socket[c] = "up" THEN "down" ELSE socket[c]]
      /\ UNCHANGED <<peers, process, ring, attempts>>
  BY DEF Crash
<1>2. /\ up \in [Nodes -> BOOLEAN] /\ incoming \in [Nodes -> Seq(Frame)]
      /\ received \in [Nodes -> SUBSET Frame] /\ end \in [Ends -> End]
      /\ wire \in [Ends -> Seq(Packet)] /\ dropped \in [Ends -> SUBSET (1 .. MaxBroadcasts)]
      /\ socket \in [Conns -> {"none", "up", "down"}] /\ process \in [Nodes -> Nat]
      /\ budget \in [broadcasts : 0 .. MaxBroadcasts, faults : 0 .. MaxFaults]
      /\ budget.faults \in 0 .. MaxFaults /\ MaxFaults \in Nat
      /\ receiver \in [Nodes -> BOOLEAN]
  BY MeshFacts DEF MeshInv, MeshTyped
<1>3. budget'.broadcasts = budget.broadcasts /\ budget'.faults = budget.faults + 1
      /\ budget' \in [broadcasts : 0 .. MaxBroadcasts, faults : 0 .. MaxFaults]
  <2>1. budget.faults < MaxFaults /\ budget' = [budget EXCEPT !.faults = @ + 1]
    BY <1>1
  <2>2. /\ budget \in [broadcasts : 0 .. MaxBroadcasts, faults : 0 .. MaxFaults]
        /\ budget.faults \in 0 .. MaxFaults /\ MaxFaults \in Nat
    BY <1>2
  <2> QED BY <2>1, <2>2
<1>4. /\ <<>> \in Seq(Frame) /\ <<>> \in Seq(Packet) /\ Len(<<>>) = 0
      /\ \A i \in DOMAIN <<>> : FALSE
  OBVIOUS
<1>5. MeshTyped'
  <2>1. /\ up' \in [Nodes -> BOOLEAN] /\ received' \in [Nodes -> SUBSET Frame]
        /\ receiver' \in [Nodes -> BOOLEAN]
    BY <1>1, <1>2
  <2>2. incoming' \in [Nodes -> Seq(Frame)]
    BY <1>1, <1>2, <1>4
  <2>3. end' \in [Ends -> End]
    BY <1>1, <1>2, ClosedEndTyped
  <2>4. wire' \in [Ends -> Seq(Packet)]
    BY <1>1, <1>2, <1>4
  <2>5. dropped' \in [Ends -> SUBSET (1 .. MaxBroadcasts)]
    BY <1>1, <1>2
  <2>6. socket' \in [Conns -> {"none", "up", "down"}]
    BY <1>1, <1>2
  <2> QED BY <1>1, <1>3, <2>1, <2>2, <2>3, <2>4, <2>5, <2>6 DEF MeshInv, MeshTyped
<1>6. ASSUME NEW m \in Nodes PROVE NodeOK(m)'
  <2>1. NodeOK(m) /\ process[m] \in Nat /\ MaxIncoming \in Nat
    BY <1>2, MeshFacts DEF MeshInv
  <2>2. process[m] <= budget'.faults /\ process[m] < budget'.faults
    BY <1>2, <1>3, <2>1 DEF NodeOK
  <2>3. CASE m = n
    <3>1. incoming'[m] = <<>> /\ received'[m] = {}
      BY <1>1, <1>2, <2>3
    <3> QED BY <1>1, <1>4, <2>1, <2>2, <3>1 DEF NodeOK
  <2>4. CASE m # n
    <3>1. incoming'[m] = incoming[m] /\ received'[m] = received[m]
      BY <1>1, <1>2, <2>4
    <3> QED BY <1>1, <2>1, <2>2, <3>1 DEF NodeOK
  <2> QED BY <2>3, <2>4
<1>7. ASSUME NEW e \in Ends PROVE EndOK(e)'
  <2>1. EndOK(e) /\ MaxWire \in Nat
    BY MeshFacts DEF MeshInv
  <2>2. (end'[e] = end[e] \/ end'[e] = ClosedEnd) /\ (wire'[e] = wire[e] \/ wire'[e] = <<>>)
    BY <1>1
  <2> QED BY <1>4, <2>1, <2>2, ClosedEndTyped DEF EndOK
<1>8. ASSUME NEW c \in Conns PROVE ConnOK(c)'
  <2> DEFINE d == Dialer(c)
             r == Responder(c)
  <2>1. /\ d \in Ends /\ r \in Ends /\ d[1] = c /\ r[1] = c /\ d[2] = c[1] /\ r[2] = c[3] /\ c[1] # c[3]
    BY ConnEnds
  <2>2. /\ end'[d] = IF c \in Held(n) /\ c[1] = n THEN ClosedEnd ELSE end[d]
        /\ end'[r] = IF c \in Held(n) /\ c[3] = n THEN ClosedEnd ELSE end[r]
        /\ wire'[d] = IF c \in Held(n) /\ c[1] # n THEN <<>> ELSE wire[d]
        /\ wire'[r] = IF c \in Held(n) /\ c[3] # n THEN <<>> ELSE wire[r]
        /\ socket'[c] = IF c \in Held(n) /\ socket[c] = "up" THEN "down" ELSE socket[c]
    BY <1>1, <2>1
  <2>3. ConnOK(c) /\ InStep(end[d].stage, end[r].stage, wire[d], wire[r], socket[c])
    BY DEF MeshInv, ConnOK
  <2>4. FramesBehind(<<>>) /\ AllFrames(<<>>) /\ Len(<<>>) <= 1
    BY <1>4 DEF FramesBehind, AllFrames
  <2> HIDE DEF d, r
  <2>5. CASE c \notin Held(n)
    BY <1>1, <2>2, <2>3, <2>5 DEF ConnOK, d, r
  <2>6. CASE c \in Held(n) /\ c[1] = n
    <3>1. InStep("closed", end[r].stage, wire[d], <<>>, socket'[c])
      BY <2>2, <2>3, <2>4, <2>6 DEF InStep
    <3> QED BY <1>1, <2>1, <2>2, <2>3, <2>6, <3>1, ClosedEndTyped DEF ConnOK, d, r
  <2>7. CASE c \in Held(n) /\ c[3] = n /\ socket[c] # "none"
    <3>1. InStep(end[d].stage, "closed", <<>>, wire[r], socket'[c])
      BY <1>4, <2>2, <2>3, <2>4, <2>7 DEF InStep
    <3> QED BY <1>1, <2>1, <2>2, <2>3, <2>7, <3>1, ClosedEndTyped DEF ConnOK, d, r
  <2> QED BY <2>5, <2>6, <2>7 DEF Held
<1>9. \A p \in Processes : Len(ring'[p]) <= budget'.broadcasts
  BY <1>1, <1>3 DEF MeshInv
<1> QED BY <1>5, <1>6, <1>7, <1>8, <1>9 DEF MeshInv

----------------------------------------------------------------------------
(* The theorems.                                                           *)

LEMMA MeshNext == MeshInv /\ [Next]_vars => MeshInv'
<1> SUFFICES ASSUME MeshInv, [Next]_vars PROVE MeshInv'
  OBVIOUS
<1>1. CASE UNCHANGED vars
  BY <1>1 DEF vars, MeshInv, MeshTyped, ConnOK, EndOK, NodeOK
<1>2. ASSUME NEW n \in Nodes, NEW size \in Sizes, Broadcast(n, size) PROVE MeshInv'
  BY <1>2, BroadcastStep
<1>3. ASSUME NEW c \in Conns, Dialing(c) \/ Accept(c) \/ Break(c) PROVE MeshInv'
  BY <1>3, StartDialerStep, ConnectFailsStep, ConnectsStep, AcceptStep, BreakStep DEF Dialing
<1>4. ASSUME NEW e \in Ends, Shaking(e) PROVE MeshInv'
  BY <1>4, ReadMsg1Step, ReadMsg2Step, ReadMsg3Step, HandshakeFailsStep DEF Shaking
<1>5. ASSUME NEW e \in Ends, Writing(e) \/ Reading(e) PROVE MeshInv'
  BY <1>5, WritingStep, WriteStep, ReadStep, ReaderEndsStep DEF Writing, Reading
<1>6. ASSUME NEW n \in Nodes, Receive(n) \/ DropReceiver(n) \/ Crash(n) \/ Restart(n) PROVE MeshInv'
  BY <1>6, ReceiveStep, DropReceiverStep, CrashStep, RestartStep
<1> QED BY <1>1, <1>2, <1>3, <1>4, <1>5, <1>6 DEF Next

(* The invariant holds in every reachable state: the two ends of each      *)
(* connection are in step with the handshake of handshake.rs, whatever is  *)
(* broken, refused, crashed or restarted in between.                       *)
THEOREM MeshInvariant == Spec => []MeshInv
<1> QED BY MeshInit, MeshNext, PTL DEF Spec

(* For all capacities, lists of peers, broadcasts and faults, the incoming *)
(* queue and the sockets' buffers stay within their capacities, a dialer   *)
(* makes no more than the attempts of retrying_connect, and nothing but    *)
(* frames reaches the caller of mesh.rs.                                   *)
THEOREM MeshTypes == Spec => []MeshTypeOK
<1>1. MeshInv => MeshTypeOK
  <2> SUFFICES ASSUME MeshInv PROVE MeshTypeOK
    OBVIOUS
  <2>1. /\ peers \in Configs /\ up \in [Nodes -> BOOLEAN]
        /\ DOMAIN ring = Processes /\ (\A p \in Processes : ring[p] \in Seq(Sizes))
        /\ socket \in [Conns -> {"none", "up", "down"}] /\ end \in [Ends -> End]
        /\ (\A n \in Nodes : received[n] \subseteq Frame)
        /\ (\A e \in Ends : dropped[e] \subseteq 1 .. MaxBroadcasts)
        /\ receiver \in [Nodes -> BOOLEAN]
    BY DEF MeshInv, MeshTyped
  <2>2. process \in [Nodes -> 0 .. MaxFaults]
    <3>1. process \in [Nodes -> Nat] /\ \A n \in Nodes : process[n] <= budget.faults
      BY DEF MeshInv, MeshTyped, NodeOK
    <3>2. \A n \in Nodes : process[n] \in 0 .. MaxFaults
      BY <3>1, MeshFacts
    <3> QED BY <3>1, <3>2
  <2>3. \A n \in Nodes : incoming[n] \in Seq(Frame) /\ Len(incoming[n]) <= MaxIncoming
    BY DEF MeshInv, MeshTyped, NodeOK
  <2>4. \A e \in Ends : /\ wire[e] \in Seq(Frame \cup [kind : Handshake])
                        /\ Len(wire[e]) <= MaxWire + 1
    BY DEF MeshInv, MeshTyped, EndOK, Packet
  <2>5. \A c \in Conns : attempts[c] \in 0 .. MaxAttempts
    <3>1. \A c \in Conns : attempts[c] \in Nat /\ attempts[c] <= MaxAttempts
      BY DEF MeshInv, MeshTyped, ConnOK
    <3> QED BY <3>1, MeshFacts
  <2> QED BY <2>1, <2>2, <2>3, <2>4, <2>5 DEF MeshTypeOK
<1> QED BY <1>1, MeshInvariant, PTL

(* No frame of a node that is not a peer ever reaches the caller of        *)
(* mesh.rs, although the listener accepts every connection and the dialer  *)
(* sends from the moment it has read message 2: the responder's lookup of  *)
(* the dialer's key stands between every frame and the incoming queue.     *)
THEOREM MeshOnlyPeersAreHeard == Spec => []OnlyPeersAreHeard
<1>1. MeshInv => OnlyPeersAreHeard
  BY DEF MeshInv, NodeOK, OnlyPeersAreHeard
<1> QED BY <1>1, MeshInvariant, PTL

----------------------------------------------------------------------------
(* No payload goes missing without a trace.                                *)

(* The two ends of a connection and its socket: an end that has gone, or   *)
(* whose reader has, has left a socket that is down, except for a dialer   *)
(* that gave up and a caller that no longer receives; and a socket that is up is one of the dialer's present    *)
(* process.                                                                *)
LinkOK(c) ==
    /\ end[Dialer(c)].stage = "closed" => socket[c] # "up"
    /\ end[Responder(c)].stage = "closed" => socket[c] = "down"
    /\ end[Dialer(c)].stage = "live" => 
          "reader" \in end[Dialer(c)].tasks \/ socket[c] = "down" \/ ~receiver[c[1]]
    /\ end[Responder(c)].stage = "live" => 
          "reader" \in end[Responder(c)].tasks \/ socket[c] = "down" \/ ~receiver[c[3]]
    /\ socket[c] = "up" => up[c[1]] /\ process[c[1]] = c[2]

(* A receiver of the ring: it belongs to the process that runs, it is not  *)
(* ahead of the ring, and it takes nothing before its end is live.         *)
ReceiverOK(e) ==
    /\ end[e].stage # "live" => end[e].cursor = end[e].first
    /\ Subscribed(e) =>
          /\ up[e[2]] /\ (e = Dialer(e[1]) => process[e[2]] = e[1][2])
          /\ end[e].cursor <= Len(ring[Current(e[2])]) + 1

InSeq(q, x) == \E j \in DOMAIN q : q[j] = x

Placed(e, i) ==
    \/ FrameOf(Current(e[2]), i) \in received[Other(e)[2]]
    \/ InSeq(incoming[Other(e)[2]], FrameOf(Current(e[2]), i))
    \/ InSeq(wire[e], FrameOf(Current(e[2]), i))
    \/ end[e].cursor <= i
    \/ i \in dropped[e]

NoGap(e) ==
    Subscribed(e) /\ socket[e[1]] # "down" /\ receiver[Other(e)[2]] =>
        \A i \in end[e].first .. Len(ring[Current(e[2])]) : Placed(e, i)

GapInv == (\A c \in Conns : LinkOK(c)) /\ (\A e \in Ends : ReceiverOK(e) /\ NoGap(e))

LEMMA GapInit == Init => GapInv
<1> SUFFICES ASSUME Init PROVE GapInv
  OBVIOUS
<1>1. socket = [c \in Conns |-> "none"] /\ end = [e \in Ends |-> IdleEnd]
  BY DEF Init
<1>2. IdleEnd.stage = "idle" /\ IdleEnd.first = 1 /\ IdleEnd.cursor = 1 /\ IdleEnd.tasks = {}
  BY DEF IdleEnd
<1>3. ASSUME NEW c \in Conns PROVE LinkOK(c)
  <2>1. Dialer(c) \in Ends /\ Responder(c) \in Ends
    BY ConnEnds
  <2> QED BY <1>1, <1>2, <2>1 DEF LinkOK
<1>4. ASSUME NEW e \in Ends PROVE ReceiverOK(e) /\ NoGap(e)
  BY <1>1, <1>2 DEF ReceiverOK, NoGap, Subscribed
<1> QED BY <1>3, <1>4 DEF GapInv

(* A frame is none of the handshake's messages. *)
LEMMA FrameIsNoMsg == \A p, i, m : m \in Handshake => FrameOf(p, i) # Msg(m)
<1> SUFFICES ASSUME NEW p, NEW i, NEW m \in Handshake PROVE FrameOf(p, i) # Msg(m)
  OBVIOUS
<1>1. FrameOf(p, i).kind = "frame"
  BY DEF FrameOf
<1>2. Msg(m).kind = m /\ m # "frame"
  BY MsgPacket DEF Handshake
<1> QED BY <1>1, <1>2

LEMMA InSeqPut ==
    ASSUME NEW q \in Seq(Packet), NEW x \in Packet
    PROVE  InSeq(Append(q, x), x) /\ \A y : InSeq(q, y) => InSeq(Append(q, x), y)
<1>1. /\ DOMAIN Append(q, x) = 1 .. Len(q) + 1 /\ DOMAIN q = 1 .. Len(q) /\ Len(q) \in Nat
      /\ \A i \in 1 .. Len(q) : Append(q, x)[i] = q[i]
      /\ Append(q, x)[Len(q) + 1] = x
  BY WirePut
<1>2. Len(q) + 1 \in DOMAIN Append(q, x) /\ \A i \in DOMAIN q : i \in DOMAIN Append(q, x)
  BY <1>1
<1> QED BY <1>1, <1>2 DEF InSeq

LEMMA InSeqTake ==
    ASSUME NEW T, NEW q \in Seq(T), q # <<>>
    PROVE  \A y : InSeq(q, y) => y = Head(q) \/ InSeq(Tail(q), y)
<1> SUFFICES ASSUME NEW y, NEW j \in DOMAIN q, q[j] = y PROVE y = Head(q) \/ InSeq(Tail(q), y)
  BY DEF InSeq
<1>1. /\ j \in Nat /\ j >= 1 /\ j <= Len(q) /\ Len(q) \in Nat /\ Head(q) = q[1]
      /\ DOMAIN Tail(q) = 1 .. Len(q) - 1
  OBVIOUS
<1>2. CASE j = 1
  BY <1>1, <1>2
<1>3. CASE j # 1
  <2>1. j - 1 \in DOMAIN Tail(q)
    BY <1>1, <1>3
  <2>2. Tail(q)[j - 1] = q[j]
    BY <1>1, <1>3
  <2> QED BY <2>1, <2>2 DEF InSeq
<1> QED BY <1>2, <1>3

(* A step of connection c leaves the others as they are. *)
LEMMA GapLocal ==
    ASSUME MeshInv, GapInv, NEW c \in Conns,
           UNCHANGED <<up, process, ring, incoming, received, receiver>>,
           \A f \in Ends : f[1] # c => end'[f] = end[f] /\ wire'[f] = wire[f] /\ dropped'[f] = dropped[f],
           \A b \in Conns : b # c => socket'[b] = socket[b],
           LinkOK(c)',
           ReceiverOK(Dialer(c))', NoGap(Dialer(c))', ReceiverOK(Responder(c))', NoGap(Responder(c))'
    PROVE  GapInv'
<1>1. ASSUME NEW b \in Conns PROVE LinkOK(b)'
  <2>1. CASE b = c
    BY <2>1
  <2>2. CASE b # c
    <3>1. /\ end'[Dialer(b)] = end[Dialer(b)] /\ end'[Responder(b)] = end[Responder(b)]
          /\ socket'[b] = socket[b]
      BY <2>2, ConnEnds
    <3> QED BY <3>1 DEF GapInv, LinkOK
  <2> QED BY <2>1, <2>2
<1>2. ASSUME NEW f \in Ends PROVE ReceiverOK(f)' /\ NoGap(f)'
  <2>1. CASE f[1] = c
    BY <2>1, EndOf
  <2>2. CASE f[1] # c
    <3>1. /\ end'[f] = end[f] /\ wire'[f] = wire[f] /\ dropped'[f] = dropped[f]
          /\ socket'[f[1]] = socket[f[1]] /\ Current(f[2])' = Current(f[2])
      BY <2>2, EndOf DEF Current
    <3>2. ReceiverOK(f) /\ NoGap(f)
      BY DEF GapInv
    <3> QED BY <3>1, <3>2 DEF ReceiverOK, NoGap, Placed, Subscribed
  <2> QED BY <2>1, <2>2
<1> QED BY <1>1, <1>2 DEF GapInv

(* An end whose cursor stays, and whose frames are not taken off the wire  *)
(* as long as the socket is not down.                                      *)
LEMMA GapStays ==
    ASSUME GapInv, NEW e \in Ends,
           UNCHANGED <<up, process, ring, incoming, received, receiver>>,
           end'[e].first = end[e].first, end'[e].cursor = end[e].cursor,
           Subscribed(e)' => Subscribed(e),
           end'[e].stage # "live" => end[e].stage # "live",
           dropped'[e] = dropped[e],
           socket'[e[1]] # "down" /\ receiver[Other(e)[2]] =>
              /\ socket[e[1]] # "down"
              /\ \A p, i : InSeq(wire[e], FrameOf(p, i)) => InSeq(wire'[e], FrameOf(p, i))
    PROVE  ReceiverOK(e)' /\ NoGap(e)'
<1>1. ReceiverOK(e) /\ NoGap(e) /\ Current(e[2])' = Current(e[2])
  BY DEF GapInv, Current
<1>2. ReceiverOK(e)'
  BY <1>1 DEF ReceiverOK
<1>3. NoGap(e)'
  <2> SUFFICES ASSUME Subscribed(e)', socket'[e[1]] # "down", receiver[Other(e)[2]],
                      NEW i \in end'[e].first .. Len(ring'[Current(e[2])'])
               PROVE  Placed(e, i)'
    BY DEF NoGap
  <2>1. Placed(e, i)
    BY <1>1 DEF NoGap
  <2> QED BY <1>1, <2>1 DEF Placed
<1> QED BY <1>2, <1>3

(* The same when nothing at all changes at e. *)
LEMMA GapIdle ==
    ASSUME GapInv, NEW e \in Ends,
           UNCHANGED <<up, process, ring, incoming, received, receiver>>,
           end'[e] = end[e], dropped'[e] = dropped[e], wire'[e] = wire[e],
           socket'[e[1]] # "down" => socket[e[1]] # "down"
    PROVE  ReceiverOK(e)' /\ NoGap(e)'
BY GapStays DEF Subscribed

(* An end that is closed has no receiver. *)
LEMMA GapClosed ==
    ASSUME NEW e \in Ends, end'[e] = ClosedEnd
    PROVE  ReceiverOK(e)' /\ NoGap(e)' /\ ~Subscribed(e)'
BY ClosedEndTyped DEF ReceiverOK, NoGap, Subscribed

(* On a socket that is down there is nothing to lose. *)
LEMMA GapDown ==
    ASSUME NEW c \in Conns, socket'[c] = "down"
    PROVE  LinkOK(c)' /\ NoGap(Dialer(c))' /\ NoGap(Responder(c))'
BY ConnEnds DEF LinkOK, NoGap

(* A task subscribes: it has missed nothing yet. *)
LEMMA GapSubscribe ==
    ASSUME MeshInv, GapInv, NEW e \in Ends, NEW stage, Subscribe(e, stage), stage # "live",
           UNCHANGED <<up, process, ring, incoming, received, socket, wire, dropped, receiver>>,
           up[e[2]], e = Dialer(e[1]) => process[e[2]] = e[1][2]
    PROVE  ReceiverOK(e)' /\ NoGap(e)' /\ end'[e].stage = stage
<1> DEFINE k == Len(ring[Current(e[2])]) + 1
           new == [stage |-> stage, first |-> k, cursor |-> k, tasks |-> {}]
<1>1. end' = [end EXCEPT ![e] = new]
  BY DEF Subscribe
<1>2. end'[e] = new
  BY <1>1, OneEnd
<1>3. /\ end'[e].stage = stage /\ end'[e].first = k /\ end'[e].cursor = k
      /\ Len(ring[Current(e[2])]) \in Nat
  BY <1>2, MeshFacts
<1>4. k \in Nat /\ k <= k /\ ~\E i \in k .. Len(ring[Current(e[2])]) : TRUE
  BY <1>3
<1>5. Current(e[2])' = Current(e[2])
  BY DEF Current
<1> QED BY <1>3, <1>4, <1>5 DEF ReceiverOK, NoGap

LEMMA GapStartDialer ==
    ASSUME MeshInv, GapInv, NEW c \in Conns, StartDialer(c)
    PROVE  GapInv'
<1> DEFINE d == Dialer(c)
           r == Responder(c)
<1>1. /\ d \in Ends /\ r \in Ends /\ d # r /\ d[1] = c /\ r[1] = c /\ d[2] = c[1] /\ Other(d) = r
  BY ConnEnds
<1>2. /\ end[d].stage = "idle" /\ Subscribe(d, "dialing") /\ up[c[1]] /\ process[c[1]] = c[2]
      /\ UNCHANGED <<peers, up, process, ring, incoming, socket, wire, attempts, budget, received, dropped, receiver>>
  BY DEF StartDialer, Dialer
<1> HIDE DEF d, r
<1>3. ReceiverOK(d)' /\ NoGap(d)' /\ end'[d].stage = "dialing"
  BY <1>1, <1>2, GapSubscribe
<1>4. \A f \in Ends : f # d => end'[f] = end[f]
  BY <1>1, <1>2, OneEnd DEF Subscribe
<1>5. ReceiverOK(r)' /\ NoGap(r)'
  BY <1>1, <1>2, <1>4, GapIdle
<1>6. LinkOK(c)'
  BY <1>1, <1>2, <1>3, <1>4 DEF GapInv, LinkOK, d, r
<1>7. \A f \in Ends : f[1] # c => end'[f] = end[f] /\ wire'[f] = wire[f] /\ dropped'[f] = dropped[f]
  BY <1>1, <1>2, <1>4
<1> QED BY <1>2, <1>3, <1>5, <1>6, <1>7, GapLocal DEF d, r

LEMMA GapAccept ==
    ASSUME MeshInv, GapInv, NEW c \in Conns, Accept(c)
    PROVE  GapInv'
<1> DEFINE d == Dialer(c)
           r == Responder(c)
<1>1. /\ d \in Ends /\ r \in Ends /\ d # r /\ d[1] = c /\ r[1] = c /\ r[2] = c[3] /\ Other(r) = d
  BY ConnEnds
<1>2. /\ end[r].stage = "idle" /\ Subscribe(r, "msg1") /\ up[c[3]]
      /\ UNCHANGED <<peers, up, process, ring, incoming, socket, wire, attempts, budget, received, dropped, receiver>>
  BY DEF Accept, Responder
<1>3. r = Dialer(r[1]) => FALSE
  BY <1>1
<1> HIDE DEF d, r
<1>4. ReceiverOK(r)' /\ NoGap(r)' /\ end'[r].stage = "msg1"
  BY <1>1, <1>2, <1>3, GapSubscribe
<1>5. \A f \in Ends : f # r => end'[f] = end[f]
  BY <1>1, <1>2, OneEnd DEF Subscribe
<1>6. ReceiverOK(d)' /\ NoGap(d)'
  BY <1>1, <1>2, <1>5, GapIdle
<1>7. LinkOK(c)'
  BY <1>1, <1>2, <1>4, <1>5 DEF GapInv, LinkOK, d, r
<1>8. \A f \in Ends : f[1] # c => end'[f] = end[f] /\ wire'[f] = wire[f] /\ dropped'[f] = dropped[f]
  BY <1>1, <1>2, <1>5
<1> QED BY <1>2, <1>4, <1>6, <1>7, <1>8, GapLocal DEF d, r

LEMMA GapConnectFails ==
    ASSUME MeshInv, GapInv, NEW c \in Conns, ConnectFails(c)
    PROVE  GapInv'
<1> DEFINE d == Dialer(c)
           r == Responder(c)
<1>1. /\ d \in Ends /\ r \in Ends /\ d # r /\ d[1] = c /\ r[1] = c
  BY ConnEnds
<1>2. /\ end[d].stage = "dialing"
      /\ end' = [end EXCEPT ![d] = ClosedEnd] \/ end' = end
      /\ UNCHANGED <<peers, up, process, ring, incoming, socket, wire, budget, received, dropped, receiver>>
  BY DEF ConnectFails, Dialer
<1>3. socket[c] = "none"
  BY <1>2 DEF MeshInv, ConnOK, InStep
<1> HIDE DEF d, r
<1>4. (end'[d] = ClosedEnd \/ end'[d] = end[d]) /\ \A f \in Ends : f # d => end'[f] = end[f]
  BY <1>1, <1>2, OneEnd
<1>5. ReceiverOK(d)' /\ NoGap(d)'
  BY <1>1, <1>2, <1>4, GapIdle, GapClosed
<1>6. ReceiverOK(r)' /\ NoGap(r)'
  BY <1>1, <1>2, <1>4, GapIdle
<1>7. LinkOK(c)'
  BY <1>1, <1>2, <1>3, <1>4, ClosedEndTyped DEF GapInv, LinkOK, d, r
<1>8. \A f \in Ends : f[1] # c => end'[f] = end[f] /\ wire'[f] = wire[f] /\ dropped'[f] = dropped[f]
  BY <1>1, <1>2, <1>4
<1> QED BY <1>2, <1>5, <1>6, <1>7, <1>8, GapLocal DEF d, r

LEMMA GapConnects ==
    ASSUME MeshInv, GapInv, NEW c \in Conns, Connects(c)
    PROVE  GapInv'
<1> DEFINE d == Dialer(c)
           r == Responder(c)
           new == [end[d] EXCEPT !.stage = "msg2"]
<1>1. /\ d \in Ends /\ r \in Ends /\ d # r /\ d[1] = c /\ r[1] = c /\ d[2] = c[1]
  BY ConnEnds
<1>2. /\ end[d].stage = "dialing" /\ socket' = [socket EXCEPT ![c] = "up"]
      /\ wire' = [wire EXCEPT ![d] = <<Msg("msg1")>>]
      /\ end' = [end EXCEPT ![d].stage = "msg2"]
      /\ UNCHANGED <<peers, up, process, ring, incoming, attempts, budget, received, dropped, receiver>>
  BY DEF Connects, Dialer
<1>3. socket[c] = "none" /\ wire[d] = <<>> /\ end[r].stage = "idle"
  BY <1>2 DEF MeshInv, ConnOK, InStep
<1>4. /\ wire \in [Ends -> Seq(Packet)] /\ socket \in [Conns -> {"none", "up", "down"}]
      /\ end \in [Ends -> End]
  BY DEF MeshInv, MeshTyped
<1>5. end' = [end EXCEPT ![d] = new]
  BY <1>1, <1>2, <1>4
<1>6. /\ new.stage = "msg2" /\ new.first = end[d].first /\ new.cursor = end[d].cursor
  BY <1>1, <1>4 DEF End
<1> HIDE DEF d, r, new
<1>7. end'[d] = new /\ \A f \in Ends : f # d => end'[f] = end[f]
  BY <1>1, <1>5, OneEnd
<1>8. /\ socket'[c] = "up" /\ \A b \in Conns : b # c => socket'[b] = socket[b]
      /\ \A f \in Ends : f # d => wire'[f] = wire[f]
  BY <1>2, <1>4
<1>9. Subscribed(d)
  BY <1>2 DEF Subscribed
<1>10. \A p, i : InSeq(wire[d], FrameOf(p, i)) => InSeq(wire'[d], FrameOf(p, i))
  BY <1>3 DEF InSeq
<1>11. ReceiverOK(d)' /\ NoGap(d)'
  BY <1>1, <1>2, <1>3, <1>6, <1>7, <1>9, <1>10, GapStays
<1>12. ReceiverOK(r)' /\ NoGap(r)'
  BY <1>1, <1>2, <1>3, <1>7, <1>8, GapIdle
<1>13. LinkOK(c)'
  <2>1. up[c[1]] /\ process[c[1]] = c[2]
    BY <1>1, <1>9 DEF GapInv, ReceiverOK, d
  <2>2. end'[d].stage = "msg2" /\ end'[r].stage = "idle"
    BY <1>1, <1>3, <1>6, <1>7
  <2> QED BY <1>2, <1>8, <2>1, <2>2 DEF LinkOK, d, r
<1>14. \A f \in Ends : f[1] # c => end'[f] = end[f] /\ wire'[f] = wire[f] /\ dropped'[f] = dropped[f]
  BY <1>1, <1>2, <1>7, <1>8
<1> QED BY <1>2, <1>8, <1>11, <1>12, <1>13, <1>14, GapLocal DEF d, r

LEMMA GapBreak ==
    ASSUME MeshInv, GapInv, NEW c \in Conns, Break(c)
    PROVE  GapInv'
<1>1. /\ socket[c] = "up" /\ socket' = [socket EXCEPT ![c] = "down"]
      /\ UNCHANGED <<peers, up, process, ring, incoming, end, wire, attempts, received, dropped, receiver>>
  BY DEF Break
<1>2. socket \in [Conns -> {"none", "up", "down"}]
  BY DEF MeshInv, MeshTyped
<1>3. socket'[c] = "down" /\ \A b \in Conns : b # c => socket'[b] = socket[b]
  BY <1>1, <1>2
<1>4. /\ Dialer(c) \in Ends /\ Responder(c) \in Ends /\ Dialer(c)[1] = c /\ Responder(c)[1] = c
  BY ConnEnds
<1>5. LinkOK(c)' /\ NoGap(Dialer(c))' /\ NoGap(Responder(c))'
  BY <1>3, GapDown
<1>6. ReceiverOK(Dialer(c))' /\ ReceiverOK(Responder(c))'
  BY <1>1, <1>3, <1>4, GapIdle
<1> QED BY <1>1, <1>3, <1>5, <1>6, GapLocal

(* GapLocal, by the end that takes the step and the one opposite. *)
LEMMA GapPair ==
    ASSUME MeshInv, GapInv, NEW e \in Ends, NEW c \in Conns, NEW o \in Ends, e[1] = c, o = Other(e),
           UNCHANGED <<up, process, ring, incoming, received, receiver>>,
           \A f \in Ends : f # e => end'[f] = end[f],
           \A f \in Ends : f # e /\ f # o => wire'[f] = wire[f],
           \A f \in Ends : f # e => dropped'[f] = dropped[f],
           \A b \in Conns : b # c => socket'[b] = socket[b],
           LinkOK(c)', ReceiverOK(e)', NoGap(e)', ReceiverOK(o)', NoGap(o)'
    PROVE  GapInv'
<1>1. /\ o[1] = c
      /\ (e = Dialer(c) /\ o = Responder(c)) \/ (e = Responder(c) /\ o = Dialer(c))
  BY EndOf, ConnEnds
<1>2. \A f \in Ends : f[1] # c => end'[f] = end[f] /\ wire'[f] = wire[f] /\ dropped'[f] = dropped[f]
  BY <1>1
<1>3. ReceiverOK(Dialer(c))' /\ NoGap(Dialer(c))' /\ ReceiverOK(Responder(c))' /\ NoGap(Responder(c))'
  BY <1>1
<1> QED BY <1>2, <1>3, GapLocal

(* An end that stays open keeps its connection in order. *)
LEMMA LinkKept ==
    ASSUME GapInv, NEW e \in Ends, NEW c \in Conns, e[1] = c,
           up' = up, process' = process, socket'[c] = socket[c],
           \A f \in Ends : f # e => end'[f] = end[f],
           end'[e].stage # "closed",
           receiver' = receiver,
           end'[e].stage = "live" => "reader" \in end'[e].tasks \/ socket[c] = "down" \/ ~receiver[e[2]]
    PROVE  LinkOK(c)'
<1>1. /\ Dialer(c) \in Ends /\ Responder(c) \in Ends /\ Dialer(c) # Responder(c)
      /\ e = Dialer(c) \/ e = Responder(c)
      /\ Dialer(c)[2] = c[1] /\ Responder(c)[2] = c[3]
  BY EndOf, ConnEnds
<1>2. LinkOK(c)
  BY DEF GapInv
<1>3. CASE e = Dialer(c)
  <2>1. end'[Responder(c)] = end[Responder(c)]
    BY <1>1, <1>3
  <2> QED BY <1>1, <1>2, <1>3, <2>1 DEF LinkOK
<1>4. CASE e = Responder(c)
  <2>1. end'[Dialer(c)] = end[Dialer(c)]
    BY <1>1, <1>4
  <2> QED BY <1>1, <1>2, <1>4, <2>1 DEF LinkOK
<1> QED BY <1>1, <1>3, <1>4

(* A handshake message is read, and perhaps answered: no frame is touched. *)
LEMMA GapReadMsg ==
    ASSUME MeshInv, GapInv, NEW e \in Ends, NEW m \in Handshake, ReadsMsg(e, m),
           NEW new, end' = [end EXCEPT ![e] = new],
           new.first = end[e].first, new.cursor = end[e].cursor,
           new.stage \in Handshake \/ (new.stage = "live" /\ "reader" \in new.tasks),
           NEW out, wire' = [wire EXCEPT ![Other(e)] = Tail(wire[Other(e)]), ![e] = out],
           out = wire[e] \/ \E x \in Handshake : out = Append(wire[e], Msg(x)),
           UNCHANGED <<up, process, ring, incoming, received, socket, dropped, receiver>>
    PROVE  GapInv'
<1> DEFINE c == e[1]
           o == Other(e)
<1>1. c \in Conns /\ o \in Ends /\ o # e /\ o[1] = c /\ wire \in [Ends -> Seq(Packet)]
  BY EndOf DEF MeshInv, MeshTyped
<1>2. end'[e] = new /\ \A f \in Ends : f # e => end'[f] = end[f]
  BY OneEnd
<1>3. wire'[e] = out /\ wire'[o] = Tail(wire[o]) /\ \A f \in Ends : f # e /\ f # o => wire'[f] = wire[f]
  BY <1>1
<1>4. wire[o] # <<>> /\ Head(wire[o]) = Msg(m) /\ end[e].stage = m
  BY DEF ReadsMsg
<1>5. Subscribed(e) /\ end[e].stage # "live"
  BY <1>4 DEF Subscribed, Handshake
<1>6. \A p, i : InSeq(wire[e], FrameOf(p, i)) => InSeq(wire'[e], FrameOf(p, i))
  <2>1. CASE out = wire[e]
    BY <1>3, <2>1
  <2>2. ASSUME NEW x \in Handshake, out = Append(wire[e], Msg(x))
        PROVE  \A p, i : InSeq(wire[e], FrameOf(p, i)) => InSeq(wire'[e], FrameOf(p, i))
    <3>1. Msg(x) \in Packet /\ wire[e] \in Seq(Packet)
      BY <1>1, MsgPacket
    <3>2. \A y : InSeq(wire[e], y) => InSeq(Append(wire[e], Msg(x)), y)
      BY <3>1, InSeqPut
    <3> QED BY <1>3, <2>2, <3>2
  <2> QED BY <2>1, <2>2
<1>7. \A p, i : InSeq(wire[o], FrameOf(p, i)) => InSeq(wire'[o], FrameOf(p, i))
  <2>1. wire[o] \in Seq(Packet)
    BY <1>1
  <2> HIDE DEF o
  <2>2. \A y : InSeq(wire[o], y) => y = Head(wire[o]) \/ InSeq(Tail(wire[o]), y)
    BY <1>4, <2>1, InSeqTake
  <2>3. \A p, i : FrameOf(p, i) # Msg(m)
    BY FrameIsNoMsg
  <2> QED BY <1>3, <1>4, <2>2, <2>3
<1>8. ReceiverOK(e)' /\ NoGap(e)'
  BY <1>1, <1>2, <1>5, <1>6, GapStays
<1>9. ReceiverOK(o)' /\ NoGap(o)'
  <2>1. end'[o] = end[o] /\ (Subscribed(o)' => Subscribed(o))
    BY <1>1, <1>2 DEF Subscribed
  <2> HIDE DEF o
  <2> QED BY <1>1, <1>7, <2>1, GapStays
<1>10. LinkOK(c)'
  <2>1. new.stage # "closed" /\ (new.stage = "live" => "reader" \in new.tasks)
    BY DEF Handshake
  <2> QED BY <1>1, <1>2, <2>1, LinkKept
<1> HIDE DEF c, o
<1>11. e[1] = c /\ o = Other(e)
  BY DEF c, o
<1> QED BY <1>1, <1>2, <1>3, <1>8, <1>9, <1>10, <1>11, GapPair

LEMMA GapShaking ==
    ASSUME MeshInv, GapInv, NEW e \in Ends, Shaking(e)
    PROVE  GapInv'
<1> DEFINE c == e[1]
           o == Other(e)
           live == [end[e] EXCEPT !.stage = "live", !.tasks = {"reader", "writer"}]
<1>1. c \in Conns /\ o \in Ends /\ o # e /\ o[1] = c
  BY EndOf
<1>2. /\ wire \in [Ends -> Seq(Packet)] /\ socket \in [Conns -> {"none", "up", "down"}]
      /\ end \in [Ends -> End] /\ end[e] \in End
  BY DEF MeshInv, MeshTyped
<1>3. live.first = end[e].first /\ live.cursor = end[e].cursor /\ live.stage = "live"
      /\ "reader" \in live.tasks
  BY <1>2 DEF End
<1>4. "msg1" \in Handshake /\ "msg2" \in Handshake /\ "msg3" \in Handshake
  BY DEF Handshake
<1>5. CASE ReadMsg1(e)
  <2> DEFINE new == [end[e] EXCEPT !.stage = "msg3"]
             out == Append(wire[e], Msg("msg2"))
  <2>1. /\ ReadsMsg(e, "msg1")
        /\ wire' = [wire EXCEPT ![Other(e)] = Tail(@), ![e] = Append(@, Msg("msg2"))]
        /\ end' = [end EXCEPT ![e].stage = "msg3"]
        /\ UNCHANGED <<up, process, ring, incoming, received, socket, dropped, receiver>>
    BY <1>5 DEF ReadMsg1
  <2>2. end' = [end EXCEPT ![e] = new]
    BY <1>2, <2>1
  <2>3. wire' = [wire EXCEPT ![Other(e)] = Tail(wire[Other(e)]), ![e] = out]
    BY <1>1, <1>2, <2>1
  <2>4. new.first = end[e].first /\ new.cursor = end[e].cursor /\ new.stage = "msg3"
    BY <1>2 DEF End
  <2>5. \E x \in Handshake : out = Append(wire[e], Msg(x))
    BY <1>4
  <2> HIDE DEF new, out
  <2> QED BY <1>4, <2>1, <2>2, <2>3, <2>4, <2>5, GapReadMsg
<1>6. CASE ReadMsg2(e)
  <2> DEFINE out == Append(wire[e], Msg("msg3"))
  <2>1. /\ ReadsMsg(e, "msg2")
        /\ wire' = [wire EXCEPT ![Other(e)] = Tail(@), ![e] = Append(@, Msg("msg3"))]
        /\ end' = [end EXCEPT ![e].stage = "live", ![e].tasks = {"reader", "writer"}]
        /\ UNCHANGED <<up, process, ring, incoming, received, socket, dropped, receiver>>
    BY <1>6 DEF ReadMsg2, GoLive
  <2>2. end' = [end EXCEPT ![e] = live]
    BY <1>2, <2>1
  <2>3. wire' = [wire EXCEPT ![Other(e)] = Tail(wire[Other(e)]), ![e] = out]
    BY <1>1, <1>2, <2>1
  <2>4. \E x \in Handshake : out = Append(wire[e], Msg(x))
    BY <1>4
  <2> HIDE DEF live, out
  <2> QED BY <1>3, <1>4, <2>1, <2>2, <2>3, <2>4, GapReadMsg
<1>7. CASE ReadMsg3(e) /\ GoLive(e) /\ UNCHANGED socket
  <2>1. /\ ReadsMsg(e, "msg3")
        /\ wire' = [wire EXCEPT ![Other(e)] = Tail(@)]
        /\ end' = [end EXCEPT ![e].stage = "live", ![e].tasks = {"reader", "writer"}]
        /\ UNCHANGED <<up, process, ring, incoming, received, socket, dropped, receiver>>
    BY <1>7 DEF ReadMsg3, GoLive
  <2>2. end' = [end EXCEPT ![e] = live]
    BY <1>2, <2>1
  <2>3. wire' = [wire EXCEPT ![Other(e)] = Tail(wire[Other(e)]), ![e] = wire[e]]
    BY <1>1, <1>2, <2>1
  <2> HIDE DEF live
  <2> QED BY <1>3, <1>4, <2>1, <2>2, <2>3, GapReadMsg
<1>8. CASE /\ end' = [end EXCEPT ![e] = ClosedEnd]
           /\ socket'[c] = "down" /\ \A b \in Conns : b # c => socket'[b] = socket[b]
           /\ wire' = wire \/ wire' = [wire EXCEPT ![o] = Tail(@)]
           /\ UNCHANGED <<up, process, ring, incoming, received, dropped, receiver>>
  <2>1. end'[e] = ClosedEnd /\ \A f \in Ends : f # e => end'[f] = end[f]
    BY <1>8, OneEnd
  <2>2. \A f \in Ends : f # e /\ f # o => wire'[f] = wire[f]
    BY <1>2, <1>8
  <2>3. LinkOK(c)' /\ NoGap(Dialer(c))' /\ NoGap(Responder(c))'
    BY <1>1, <1>8, GapDown
  <2>4. ReceiverOK(e)' /\ NoGap(e)'
    BY <2>1, GapClosed
  <2>5. ReceiverOK(o)' /\ NoGap(o)'
    <3>1. end'[o] = end[o] /\ (Subscribed(o)' => Subscribed(o))
      BY <1>1, <2>1 DEF Subscribed
    <3> HIDE DEF o
    <3> QED BY <1>1, <1>8, <3>1, GapStays
  <2> HIDE DEF c, o
  <2>6. e[1] = c /\ o = Other(e)
    BY DEF c, o
  <2> QED BY <1>1, <1>8, <2>1, <2>2, <2>3, <2>4, <2>5, <2>6, GapPair
<1>9. ASSUME HandshakeFails(e) PROVE GapInv'
  BY <1>1, <1>8, <1>9 DEF HandshakeFails
<1>10. ASSUME ReadMsg3(e) PROVE GapInv'
  <2>1. CASE end' = [end EXCEPT ![e] = ClosedEnd] /\ socket' = [socket EXCEPT ![c] = "down"]
    <3>1. socket'[c] = "down" /\ \A b \in Conns : b # c => socket'[b] = socket[b]
      BY <1>1, <1>2, <2>1
    <3>2. wire' = [wire EXCEPT ![o] = Tail(@)] /\ UNCHANGED <<up, process, ring, incoming, received, dropped, receiver>>
      BY <1>10 DEF ReadMsg3
    <3> QED BY <1>8, <2>1, <3>1, <3>2
  <2> QED BY <1>7, <1>10, <2>1 DEF ReadMsg3
<1> QED BY <1>5, <1>6, <1>9, <1>10 DEF Shaking

(* A writer moves its cursor to k; what it passes over it has written, or  *)
(* logged as dropped, or the socket is down.                               *)
LEMMA GapCursor ==
    ASSUME MeshInv, GapInv, NEW e \in Ends, NEW k \in Nat,
           end' = [end EXCEPT ![e].cursor = k],
           end[e].cursor <= k, k <= Len(ring[Current(e[2])]) + 1,
           "writer" \in end[e].tasks,
           UNCHANGED <<up, process, ring, incoming, received, socket, receiver>>,
           \A f \in Ends : f # e => wire'[f] = wire[f] /\ dropped'[f] = dropped[f],
           dropped[e] \subseteq dropped'[e],
           \A x : InSeq(wire[e], x) => InSeq(wire'[e], x),
           \A i \in Nat : end[e].cursor <= i /\ i < k /\ socket[e[1]] # "down" =>
              i \in dropped'[e] \/ InSeq(wire'[e], FrameOf(Current(e[2]), i))
    PROVE  GapInv'
<1> DEFINE c == e[1]
           o == Other(e)
           new == [end[e] EXCEPT !.cursor = k]
<1>1. c \in Conns /\ o \in Ends /\ o # e /\ o[1] = c
  BY EndOf
<1>2. end \in [Ends -> End] /\ end[e] \in End /\ end[e].cursor \in Nat /\ end[e].first \in Nat
      /\ Len(ring[Current(e[2])]) \in Nat /\ end[e].stage = "live"
  BY MeshFacts, EndFacts DEF MeshInv, MeshTyped
<1>3. end' = [end EXCEPT ![e] = new]
  BY <1>2
<1>4. new.stage = "live" /\ new.first = end[e].first /\ new.cursor = k /\ new.tasks = end[e].tasks
  BY <1>2 DEF End
<1> HIDE DEF new
<1>5. end'[e] = new /\ \A f \in Ends : f # e => end'[f] = end[f]
  BY <1>3, OneEnd, ZenonT(30)
<1>6. Current(e[2])' = Current(e[2])
  BY DEF Current
<1>7. ReceiverOK(e)'
  <2>1. ReceiverOK(e) /\ Subscribed(e)
    BY DEF GapInv, Subscribed
  <2> QED BY <1>4, <1>5, <1>6, <2>1 DEF ReceiverOK
<1>8. NoGap(e)'
  <2> SUFFICES ASSUME socket[e[1]] # "down", receiver[Other(e)[2]],
                      NEW i \in end[e].first .. Len(ring[Current(e[2])])
               PROVE  Placed(e, i)'
    BY <1>4, <1>5, <1>6 DEF NoGap
  <2>1. i \in Nat
    BY <1>2
  <2>2. Placed(e, i)
    BY DEF GapInv, NoGap, Subscribed
  <2>3. CASE end[e].cursor <= i /\ i < k
    BY <1>6, <2>1, <2>3 DEF Placed
  <2>4. CASE end[e].cursor <= i /\ k <= i
    BY <1>4, <1>5, <2>4 DEF Placed
  <2>5. CASE ~(end[e].cursor <= i)
    BY <1>6, <2>2, <2>5 DEF Placed
  <2>6. i < k \/ k <= i
    BY <2>1
  <2> QED BY <2>3, <2>4, <2>5, <2>6
<1>9. ReceiverOK(o)' /\ NoGap(o)'
  <2> HIDE DEF o
  <2> QED BY <1>1, <1>5, GapIdle
<1>10. LinkOK(c)'
  <2>1. "reader" \in end[e].tasks \/ socket[c] = "down" \/ ~receiver[e[2]]
    <3>1. /\ LinkOK(c) /\ (e = Dialer(c) \/ e = Responder(c))
          /\ Dialer(c)[2] = c[1] /\ Responder(c)[2] = c[3]
      BY <1>1, EndOf, ConnEnds DEF GapInv
    <3> QED BY <1>2, <3>1 DEF LinkOK
  <2>2. end'[e].stage = "live" /\ end'[e].tasks = end[e].tasks /\ socket'[c] = socket[c]
    BY <1>4, <1>5
  <2> HIDE DEF c
  <2>3. e[1] = c
    BY DEF c
  <2> QED BY <1>1, <1>5, <2>1, <2>2, <2>3, LinkKept
<1> HIDE DEF c, o
<1>11. e[1] = c /\ o = Other(e)
  BY DEF c, o
<1> QED BY <1>1, <1>5, <1>7, <1>8, <1>9, <1>10, <1>11, GapPair

LEMMA GapWriting ==
    ASSUME MeshInv, GapInv, NEW e \in Ends, Writing(e)
    PROVE  GapInv'
<1> DEFINE p == Current(e[2])
           k == end[e].cursor
<1>1. /\ k \in Nat /\ Len(ring[p]) \in Nat /\ MaxRing \in Nat \ {0}
      /\ wire \in [Ends -> Seq(Packet)] /\ wire[e] \in Seq(Packet)
      /\ dropped \in [Ends -> SUBSET (1 .. MaxBroadcasts)]
      /\ k <= Len(ring[p]) => k + 1 <= Len(ring[p]) + 1 /\ k <= k + 1 /\ k + 1 \in Nat
      /\ \A i \in Nat : k <= i /\ i < k + 1 => i = k
  <2>1. k \in Nat /\ Len(ring[p]) \in Nat /\ MaxRing \in Nat \ {0} /\ wire[e] \in Seq(Packet)
    BY MeshFacts
  <2>2. wire \in [Ends -> Seq(Packet)] /\ dropped \in [Ends -> SUBSET (1 .. MaxBroadcasts)]
    BY DEF MeshInv, MeshTyped
  <2> HIDE DEF k, p
  <2>3. /\ k <= Len(ring[p]) => k + 1 <= Len(ring[p]) + 1 /\ k <= k + 1 /\ k + 1 \in Nat
        /\ \A i \in Nat : k <= i /\ i < k + 1 => i = k
    BY <2>1
  <2> QED BY <2>1, <2>2, <2>3
<1>2. CASE Lag(e)
  <2> DEFINE m == Oldest(e[2])
  <2>1. /\ "writer" \in end[e].tasks /\ k < m
        /\ dropped' = [dropped EXCEPT ![e] = @ \cup (k .. m - 1)]
        /\ end' = [end EXCEPT ![e].cursor = m]
        /\ UNCHANGED <<peers, up, process, ring, incoming, socket, wire, attempts, budget, received, receiver>>
    BY <1>2 DEF Lag, Lagging
  <2>2. m \in Nat /\ m <= Len(ring[p]) + 1
    BY <1>1 DEF Oldest
  <2> HIDE DEF m, k
  <2>3. k <= m /\ \A i \in Nat : k <= i /\ i < m => i \in k .. m - 1
    BY <1>1, <2>1, <2>2
  <2>4. dropped'[e] = dropped[e] \cup (k .. m - 1) /\ \A f \in Ends : f # e => dropped'[f] = dropped[f]
    BY <1>1, <2>1
  <2>5. \A i \in Nat : end[e].cursor <= i /\ i < m /\ socket[e[1]] # "down" =>
           i \in dropped'[e] \/ InSeq(wire'[e], FrameOf(Current(e[2]), i))
    BY <2>3, <2>4 DEF k
  <2> QED BY <2>1, <2>2, <2>3, <2>4, <2>5, GapCursor DEF k
<1>3. CASE DropOversize(e)
  <2>1. /\ "writer" \in end[e].tasks /\ k <= Len(ring[p])
        /\ dropped' = [dropped EXCEPT ![e] = @ \cup {k}]
        /\ end' = [end EXCEPT ![e].cursor = k + 1]
        /\ UNCHANGED <<peers, up, process, ring, incoming, socket, wire, attempts, budget, received, receiver>>
    BY <1>3 DEF DropOversize, HasNext
  <2> HIDE DEF k
  <2>2. dropped'[e] = dropped[e] \cup {k} /\ \A f \in Ends : f # e => dropped'[f] = dropped[f]
    BY <1>1, <2>1
  <2>3. \A i \in Nat : end[e].cursor <= i /\ i < k + 1 /\ socket[e[1]] # "down" =>
           i \in dropped'[e] \/ InSeq(wire'[e], FrameOf(Current(e[2]), i))
    BY <1>1, <2>2 DEF k
  <2> QED BY <1>1, <2>1, <2>2, <2>3, GapCursor DEF k
<1>4. CASE Write(e)
  <2> DEFINE x == FrameOf(p, k)
  <2>1. /\ HasNext(e, "fits") /\ "writer" \in end[e].tasks /\ k <= Len(ring[p])
        /\ wire' = [wire EXCEPT ![e] = Append(@, x)]
        /\ end' = [end EXCEPT ![e].cursor = k + 1]
        /\ UNCHANGED <<peers, up, process, ring, incoming, socket, attempts, budget, received, dropped, receiver>>
    BY <1>4 DEF Write, HasNext
  <2>2. x \in Packet
    BY <2>1, NextFrame DEF Packet
  <2>3. wire'[e] = Append(wire[e], x) /\ \A f \in Ends : f # e => wire'[f] = wire[f]
    BY <1>1, <2>1
  <2>4. InSeq(wire'[e], x) /\ \A y : InSeq(wire[e], y) => InSeq(wire'[e], y)
    BY <1>1, <2>2, <2>3, InSeqPut
  <2>5. \A i \in Nat : k <= i /\ i < k + 1 /\ socket[e[1]] # "down" =>
           i \in dropped'[e] \/ InSeq(wire'[e], FrameOf(p, i))
    BY <1>1, <2>4
  <2> HIDE DEF k
  <2> QED BY <1>1, <2>1, <2>3, <2>4, <2>5, GapCursor DEF k
<1>5. CASE WriteIntoBroken(e)
  <2>1. /\ "writer" \in end[e].tasks /\ k <= Len(ring[p]) /\ socket[e[1]] = "down"
        /\ end' = [end EXCEPT ![e].cursor = k + 1]
        /\ UNCHANGED <<peers, up, process, ring, incoming, socket, wire, attempts, budget, received, dropped, receiver>>
    BY <1>5 DEF WriteIntoBroken, HasNext
  <2> HIDE DEF k
  <2> QED BY <1>1, <2>1, GapCursor DEF k
<1>6. CASE WriterEnds(e)
  <2> DEFINE new == [end[e] EXCEPT !.tasks = end[e].tasks \ {"writer"}]
             c == e[1]
             o == Other(e)
  <2>1. /\ "writer" \in end[e].tasks /\ socket[c] = "down" /\ end' = [end EXCEPT ![e].tasks = @ \ {"writer"}]
        /\ UNCHANGED <<peers, up, process, ring, incoming, socket, wire, attempts, budget, received, dropped, receiver>>
    BY <1>6 DEF WriterEnds, HasNext
  <2>2. end \in [Ends -> End] /\ end[e] \in End /\ end[e].stage = "live"
    BY <2>1, EndFacts DEF MeshInv, MeshTyped
  <2>3. end' = [end EXCEPT ![e] = new]
    BY <2>1, <2>2
  <2>4. new.stage = "live" /\ new.first = end[e].first /\ new.cursor = end[e].cursor
    BY <2>2 DEF End
  <2> HIDE DEF new
  <2>5. end'[e] = new /\ \A f \in Ends : f # e => end'[f] = end[f]
    BY <2>3, OneEnd
  <2>6. c \in Conns /\ o \in Ends /\ o # e /\ o[1] = c
    BY EndOf
  <2>7. LinkOK(c)' /\ NoGap(Dialer(c))' /\ NoGap(Responder(c))'
    BY <2>1, <2>6, GapDown
  <2>8. Subscribed(e)
    BY <2>1 DEF Subscribed
  <2>9. ReceiverOK(e)' /\ NoGap(e)'
    BY <2>1, <2>4, <2>5, <2>8, GapStays
  <2> HIDE DEF c, o
  <2>10. e[1] = c /\ o = Other(e)
    BY DEF c, o
  <2>11. ReceiverOK(o)' /\ NoGap(o)'
    BY <2>1, <2>5, <2>6, GapIdle
  <2> QED BY <2>1, <2>5, <2>6, <2>7, <2>9, <2>10, <2>11, GapPair
<1> QED BY <1>2, <1>3, <1>4, <1>5, <1>6 DEF Writing

LEMMA GapReaderEnds ==
    ASSUME MeshInv, GapInv, NEW e \in Ends, ReaderEnds(e)
    PROVE  GapInv'
<1> DEFINE new == [end[e] EXCEPT !.tasks = end[e].tasks \ {"reader"}]
           c == e[1]
           o == Other(e)
<1>1. /\ "reader" \in end[e].tasks /\ (socket[c] = "down" \/ ~receiver[e[2]])
      /\ end' = [end EXCEPT ![e].tasks = @ \ {"reader"}]
      /\ wire' = [wire EXCEPT ![o] = <<>>]
      /\ UNCHANGED <<peers, up, process, ring, incoming, socket, attempts, budget, received, dropped, receiver>>
  BY DEF ReaderEnds
<1>2. end \in [Ends -> End] /\ end[e] \in End /\ end[e].stage = "live" /\ wire \in [Ends -> Seq(Packet)]
  BY <1>1, EndFacts DEF MeshInv, MeshTyped
<1>3. end' = [end EXCEPT ![e] = new]
  BY <1>1, <1>2
<1>4. /\ new.stage = "live" /\ new.first = end[e].first /\ new.cursor = end[e].cursor
      /\ "writer" \in new.tasks => "writer" \in end[e].tasks
  BY <1>2 DEF End
<1> HIDE DEF new
<1>5. end'[e] = new /\ \A f \in Ends : f # e => end'[f] = end[f]
  BY <1>3, OneEnd
<1>6. c \in Conns /\ o \in Ends /\ o # e /\ o[1] = c
  BY EndOf
<1>7. LinkOK(c)'
  <2> HIDE DEF c
  <2>1. c = e[1]
    BY DEF c
  <2> QED BY <1>1, <1>4, <1>5, <1>6, <2>1, LinkKept
<1>8. Subscribed(e)' => Subscribed(e)
  BY <1>4, <1>5 DEF Subscribed
<1>9. ReceiverOK(e)' /\ NoGap(e)'
  <2>1. wire'[e] = wire[e]
    BY <1>1, <1>2, <1>6
  <2> QED BY <1>1, <1>4, <1>5, <1>8, <2>1, GapStays
<1> HIDE DEF c, o
<1>10. e[1] = c /\ o = Other(e)
  BY DEF c, o
<1>11. ReceiverOK(o)' /\ NoGap(o)'
  <2>1. end'[o] = end[o] /\ (Subscribed(o)' => Subscribed(o))
    BY <1>5, <1>6 DEF Subscribed
  <2>2. Other(o) = e
    BY <1>10, EndOf
  <2> QED BY <1>1, <1>6, <1>10, <2>1, <2>2, GapStays
<1>12. \A f \in Ends : f # e /\ f # o => wire'[f] = wire[f]
  BY <1>1, <1>2
<1> QED BY <1>1, <1>5, <1>6, <1>7, <1>9, <1>10, <1>11, <1>12, GapPair

(* When no end, no socket and no process changes, and each payload stays   *)
(* where it is or moves on, nothing goes missing.                          *)
LEMMA GapMoves ==
    ASSUME GapInv, UNCHANGED <<up, process, ring, socket, end, dropped, receiver>>,
           \A f \in Ends : \A i : Placed(f, i) => Placed(f, i)'
    PROVE  GapInv'
<1>1. \A c \in Conns : LinkOK(c)'
  BY DEF GapInv, LinkOK
<1>2. \A f \in Ends : ReceiverOK(f)'
  BY DEF GapInv, ReceiverOK, Subscribed, Current
<1>3. ASSUME NEW f \in Ends PROVE NoGap(f)'
  <2>1. Current(f[2])' = Current(f[2]) /\ (Subscribed(f)' <=> Subscribed(f)) /\ NoGap(f)
    BY DEF Current, Subscribed, GapInv
  <2> QED BY <2>1 DEF NoGap
<1> QED BY <1>1, <1>2, <1>3 DEF GapInv

LEMMA GapRead ==
    ASSUME MeshInv, GapInv, NEW e \in Ends, Read(e)
    PROVE  GapInv'
<1> DEFINE o == Other(e)
           n == e[2]
           x == Head(wire[o])
<1>1. /\ "reader" \in end[e].tasks /\ wire[o] # <<>>
      /\ incoming' = [incoming EXCEPT ![n] = Append(@, x)]
      /\ wire' = [wire EXCEPT ![o] = Tail(@)]
      /\ UNCHANGED <<peers, up, process, ring, socket, end, attempts, budget, received, dropped, receiver>>
  BY DEF Read
<1>2. o \in Ends /\ n \in Nodes /\ o # e /\ Other(o) = e
  BY EndOf
<1>3. wire \in [Ends -> Seq(Packet)] /\ incoming \in [Nodes -> Seq(Frame)]
      /\ wire[o] \in Seq(Packet) /\ incoming[n] \in Seq(Frame) /\ incoming[n] \in Seq(Packet)
  <2>1. wire \in [Ends -> Seq(Packet)] /\ incoming \in [Nodes -> Seq(Frame)]
    BY DEF MeshInv, MeshTyped
  <2>2. \A q \in Seq(Frame) : q \in Seq(Packet)
    <3> SUFFICES ASSUME NEW q \in Seq(Frame) PROVE q \in Seq(Packet)
      OBVIOUS
    <3>1. \A i \in 1 .. Len(q) : q[i] \in Packet
      BY DEF Packet
    <3> QED BY <3>1
  <2> QED BY <1>2, <2>1, <2>2
<1>4. x \in Packet /\ \A y : InSeq(wire[o], y) => y = x \/ InSeq(Tail(wire[o]), y)
  <2> HIDE DEF o
  <2>1. Head(wire[o]) \in Packet
    BY <1>1, <1>3
  <2>2. \A y : InSeq(wire[o], y) => y = Head(wire[o]) \/ InSeq(Tail(wire[o]), y)
    BY <1>1, <1>3, InSeqTake
  <2> QED BY <2>1, <2>2
<1> HIDE DEF o, n, x
<1>5. /\ wire'[o] = Tail(wire[o]) /\ \A f \in Ends : f # o => wire'[f] = wire[f]
      /\ incoming'[n] = Append(incoming[n], x) /\ \A m \in Nodes : m # n => incoming'[m] = incoming[m]
  BY <1>1, <1>2, <1>3
<1>6. InSeq(incoming'[n], x) /\ \A y : InSeq(incoming[n], y) => InSeq(incoming'[n], y)
  BY <1>3, <1>4, <1>5, InSeqPut
<1>7. ASSUME NEW f \in Ends, NEW i, Placed(f, i) PROVE Placed(f, i)'
  <2>1. Current(f[2])' = Current(f[2]) /\ Other(f)[2] \in Nodes
    BY <1>1, EndOf DEF Current
  <2>2. \A y : InSeq(incoming[Other(f)[2]], y) => InSeq(incoming'[Other(f)[2]], y)
    BY <1>5, <1>6, <2>1
  <2>3. \A y : InSeq(wire[f], y) => InSeq(wire'[f], y) \/ InSeq(incoming'[Other(f)[2]], y)
    <3>1. CASE f = o
      BY <1>2, <1>4, <1>5, <1>6, <3>1 DEF n
    <3>2. CASE f # o
      BY <1>5, <3>2
    <3> QED BY <3>1, <3>2
  <2> QED BY <1>1, <1>7, <2>1, <2>2, <2>3 DEF Placed
<1> QED BY <1>1, <1>7, GapMoves

LEMMA GapReceive ==
    ASSUME MeshInv, GapInv, NEW n \in Nodes, Receive(n)
    PROVE  GapInv'
<1> DEFINE x == Head(incoming[n])
<1>1. /\ incoming[n] # <<>> /\ received' = [received EXCEPT ![n] = @ \cup {x}]
      /\ incoming' = [incoming EXCEPT ![n] = Tail(@)]
      /\ UNCHANGED <<peers, up, process, ring, socket, end, wire, attempts, budget, dropped, receiver>>
  BY DEF Receive
<1>2. /\ incoming \in [Nodes -> Seq(Frame)] /\ received \in [Nodes -> SUBSET Frame]
      /\ incoming[n] \in Seq(Frame)
  BY DEF MeshInv, MeshTyped
<1>3. \A y : InSeq(incoming[n], y) => y = x \/ InSeq(Tail(incoming[n]), y)
  BY <1>1, <1>2, InSeqTake
<1> HIDE DEF x
<1>4. /\ incoming'[n] = Tail(incoming[n]) /\ received'[n] = received[n] \cup {x}
      /\ \A m \in Nodes : m # n => incoming'[m] = incoming[m] /\ received'[m] = received[m]
  BY <1>1, <1>2
<1>5. ASSUME NEW f \in Ends, NEW i, Placed(f, i) PROVE Placed(f, i)'
  <2>1. Current(f[2])' = Current(f[2]) /\ Other(f)[2] \in Nodes
    BY <1>1, EndOf DEF Current
  <2>2. \A y : InSeq(incoming[Other(f)[2]], y) =>
                  InSeq(incoming'[Other(f)[2]], y) \/ y \in received'[Other(f)[2]]
    BY <1>3, <1>4, <2>1
  <2>3. received[Other(f)[2]] \subseteq received'[Other(f)[2]]
    BY <1>4, <2>1
  <2> QED BY <1>1, <1>5, <2>1, <2>2, <2>3 DEF Placed
<1> QED BY <1>1, <1>5, GapMoves

(* What is sent to a caller that has dropped its receiver is not followed. *)
LEMMA GapDropReceiver ==
    ASSUME MeshInv, GapInv, NEW n \in Nodes, DropReceiver(n)
    PROVE  GapInv'
<1>1. /\ receiver' = [receiver EXCEPT ![n] = FALSE]
      /\ incoming' = [incoming EXCEPT ![n] = <<>>]
      /\ UNCHANGED <<peers, up, process, ring, socket, end, wire, attempts, received, dropped>>
  BY DEF DropReceiver
<1>2. /\ incoming \in [Nodes -> Seq(Frame)] /\ receiver \in [Nodes -> BOOLEAN]
  BY DEF MeshInv, MeshTyped
<1>3. /\ ~receiver'[n]
      /\ \A m \in Nodes : m # n => receiver'[m] = receiver[m] /\ incoming'[m] = incoming[m]
  BY <1>1, <1>2
<1>4. ASSUME NEW c \in Conns PROVE LinkOK(c)'
  <2>1. LinkOK(c) /\ c[1] \in Nodes /\ c[3] \in Nodes
    BY ConnEnds DEF GapInv
  <2>2. (~receiver[c[1]] => ~receiver'[c[1]]) /\ (~receiver[c[3]] => ~receiver'[c[3]])
    BY <1>3, <2>1
  <2> QED BY <1>1, <2>1, <2>2 DEF LinkOK
<1>5. ASSUME NEW f \in Ends PROVE ReceiverOK(f)' /\ NoGap(f)'
  <2>1. /\ ReceiverOK(f) /\ NoGap(f) /\ Other(f)[2] \in Nodes
        /\ Current(f[2])' = Current(f[2]) /\ (Subscribed(f)' <=> Subscribed(f))
    BY <1>1, EndOf DEF GapInv, Subscribed, Current
  <2>2. ReceiverOK(f)'
    BY <1>1, <2>1 DEF ReceiverOK
  <2>3. CASE Other(f)[2] = n
    BY <1>3, <2>2, <2>3 DEF NoGap
  <2>4. CASE Other(f)[2] # n
    <3>1. /\ receiver'[Other(f)[2]] = receiver[Other(f)[2]]
          /\ incoming'[Other(f)[2]] = incoming[Other(f)[2]]
      BY <1>3, <2>1, <2>4
    <3>2. \A i : Placed(f, i) => Placed(f, i)'
      BY <1>1, <2>1, <3>1 DEF Placed
    <3> QED BY <1>1, <2>1, <2>2, <3>1, <3>2 DEF NoGap
  <2> QED BY <2>3, <2>4
<1> QED BY <1>4, <1>5 DEF GapInv

(* A broadcast: the new payload is at or beyond every cursor. *)
LEMMA GapBroadcast ==
    ASSUME MeshInv, GapInv, NEW n \in Nodes, NEW size \in Sizes, Broadcast(n, size)
    PROVE  GapInv'
<1> DEFINE p == Current(n)
<1>1. /\ ring' = [ring EXCEPT ![p] = Append(@, size)]
      /\ UNCHANGED <<peers, up, process, incoming, socket, end, wire, attempts, received, dropped, receiver>>
  BY DEF Broadcast
<1>2. p \in Processes /\ ring \in [Processes -> Seq(Sizes)]
  BY MeshFacts DEF MeshInv, MeshTyped
<1> HIDE DEF p
<1>3. \A q \in Processes : /\ Len(ring[q]) \in Nat /\ Len(ring'[q]) \in Nat
                           /\ Len(ring'[q]) \in {Len(ring[q]), Len(ring[q]) + 1}
  BY <1>1, <1>2
<1>4. \A c \in Conns : LinkOK(c)'
  BY <1>1 DEF GapInv, LinkOK
<1>5. ASSUME NEW f \in Ends PROVE ReceiverOK(f)' /\ NoGap(f)'
  <2>1. /\ Current(f[2])' = Current(f[2]) /\ (Subscribed(f)' <=> Subscribed(f))
        /\ ReceiverOK(f) /\ NoGap(f)
    BY <1>1 DEF Current, Subscribed, GapInv
  <2> DEFINE q == Current(f[2])
  <2>2. /\ Len(ring[q]) \in Nat /\ Len(ring'[q]) \in {Len(ring[q]), Len(ring[q]) + 1}
        /\ end[f].cursor \in Nat /\ end[f].first \in Nat
    BY <1>3, MeshFacts
  <2>3. Subscribed(f) => end[f].cursor <= Len(ring[q]) + 1
    BY <2>1 DEF ReceiverOK
  <2> HIDE DEF q
  <2>4. Subscribed(f) => end[f].cursor <= Len(ring'[q]) + 1
    BY <2>2, <2>3
  <2>5. ReceiverOK(f)'
    BY <1>1, <2>1, <2>4 DEF ReceiverOK, q
  <2>6. ASSUME Subscribed(f), socket[f[1]] # "down", receiver[Other(f)[2]],
               NEW i \in end[f].first .. Len(ring'[q])
        PROVE  Placed(f, i)'
    <3>1. i \in end[f].first .. Len(ring[q]) \/ end[f].cursor <= i
      BY <2>2, <2>3, <2>6
    <3>2. Placed(f, i)
      BY <2>1, <2>6, <3>1 DEF NoGap, Placed, q
    <3> QED BY <1>1, <2>1, <3>2 DEF Placed
  <2>7. NoGap(f)'
    BY <1>1, <2>1, <2>6 DEF NoGap, q
  <2> QED BY <2>5, <2>7
<1> QED BY <1>4, <1>5 DEF GapInv

(* A new process of n: the one before has no receiver and no socket left. *)
LEMMA GapRestart ==
    ASSUME MeshInv, GapInv, NEW n \in Nodes, Restart(n)
    PROVE  GapInv'
<1>1. /\ ~up[n] /\ up' = [up EXCEPT ![n] = TRUE] /\ process' = [process EXCEPT ![n] = @ + 1]
      /\ UNCHANGED <<peers, ring, incoming, socket, end, wire, attempts, budget, received, dropped, receiver>>
  BY DEF Restart
<1>2. up \in [Nodes -> BOOLEAN] /\ process \in [Nodes -> Nat]
  BY DEF MeshInv, MeshTyped
<1>3. \A m \in Nodes : m # n => up'[m] = up[m] /\ process'[m] = process[m]
  BY <1>1, <1>2
<1>4. ASSUME NEW c \in Conns PROVE LinkOK(c)'
  <2>1. LinkOK(c) /\ c[1] \in Nodes
    BY ConnEnds DEF GapInv
  <2>2. socket[c] = "up" => up'[c[1]] /\ process'[c[1]] = c[2]
    BY <1>1, <1>3, <2>1 DEF LinkOK
  <2> QED BY <1>1, <2>1, <2>2 DEF LinkOK
<1>5. ASSUME NEW f \in Ends PROVE ReceiverOK(f)' /\ NoGap(f)'
  <2>1. ReceiverOK(f) /\ NoGap(f) /\ f[2] \in Nodes /\ (Subscribed(f)' <=> Subscribed(f))
    BY <1>1, EndOf DEF GapInv, Subscribed
  <2>2. CASE f[2] = n
    <3>1. ~Subscribed(f)
      BY <1>1, <2>1, <2>2 DEF ReceiverOK
    <3> QED BY <1>1, <2>1, <3>1 DEF ReceiverOK, NoGap
  <2>3. CASE f[2] # n
    <3>1. Current(f[2])' = Current(f[2]) /\ up'[f[2]] = up[f[2]] /\ process'[f[2]] = process[f[2]]
      BY <1>3, <2>1, <2>3 DEF Current
    <3> QED BY <1>1, <2>1, <3>1 DEF ReceiverOK, NoGap, Placed
  <2> QED BY <2>2, <2>3
<1> QED BY <1>4, <1>5 DEF GapInv

(* A process ends.  Its own receivers are gone; a receiver opposite is on  *)
(* a socket that is now down, or has not been connected yet and has        *)
(* written nothing.                                                        *)
LEMMA GapCrash ==
    ASSUME MeshInv, GapInv, NEW n \in Nodes, Crash(n)
    PROVE  GapInv'
<1>1. /\ up' = [up EXCEPT ![n] = FALSE]
      /\ incoming' = [incoming EXCEPT ![n] = <<>>]
      /\ received' = [received EXCEPT ![n] = {}]
      /\ receiver' = [receiver EXCEPT ![n] = TRUE]
      /\ end' = [e \in Ends |-> IF e[1] \in Held(n) /\ e[2] = n THEN ClosedEnd ELSE end[e]]
      /\ wire' = [e \in Ends |-> IF e[1] \in Held(n) /\ e[2] # n THEN <<>> ELSE wire[e]]
      /\ dropped' = [e \in Ends |-> IF e[2] = n THEN {} ELSE dropped[e]]
      /\ socket' = [c \in Conns |-> IF c \in Held(n) /\ socket[c] = "up" THEN "down" ELSE socket[c]]
      /\ UNCHANGED <<peers, process, ring, attempts>>
  BY DEF Crash
<1>2. /\ up \in [Nodes -> BOOLEAN] /\ incoming \in [Nodes -> Seq(Frame)]
      /\ received \in [Nodes -> SUBSET Frame] /\ receiver \in [Nodes -> BOOLEAN]
      /\ socket \in [Conns -> {"none", "up", "down"}]
  BY DEF MeshInv, MeshTyped
<1>3. /\ \A m \in Nodes : m # n => /\ up'[m] = up[m] /\ incoming'[m] = incoming[m]
                                  /\ received'[m] = received[m] /\ receiver'[m] = receiver[m]
      /\ \A f \in Ends :
           /\ end'[f] = IF f[1] \in Held(n) /\ f[2] = n THEN ClosedEnd ELSE end[f]
           /\ wire'[f] = IF f[1] \in Held(n) /\ f[2] # n THEN <<>> ELSE wire[f]
           /\ dropped'[f] = IF f[2] = n THEN {} ELSE dropped[f]
      /\ \A c \in Conns :
           /\ socket[c] \in {"none", "up", "down"}
           /\ socket'[c] = IF c \in Held(n) /\ socket[c] = "up" THEN "down" ELSE socket[c]
           /\ c \in Held(n) <=> (c[1] = n /\ c[2] = process[n]) \/ (c[3] = n /\ socket[c] # "none")
  BY <1>1, <1>2 DEF Held
<1>4. \A f \in Ends : Current(f[2])' = Current(f[2])
  BY <1>1 DEF Current
<1>5. ASSUME NEW c \in Conns PROVE LinkOK(c)'
  <2> DEFINE d == Dialer(c)
             r == Responder(c)
  <2>1. /\ d \in Ends /\ r \in Ends /\ d[1] = c /\ r[1] = c /\ d[2] = c[1] /\ r[2] = c[3]
        /\ c[1] # c[3] /\ c[1] \in Nodes /\ c[3] \in Nodes
    BY ConnEnds
  <2>2. /\ LinkOK(c)
        /\ socket[c] = "none" => end[d].stage # "live" /\ end[r].stage # "live"
    BY DEF GapInv, MeshInv, ConnOK, InStep
  <2>3. /\ end'[d] = IF c \in Held(n) /\ c[1] = n THEN ClosedEnd ELSE end[d]
        /\ end'[r] = IF c \in Held(n) /\ c[3] = n THEN ClosedEnd ELSE end[r]
        /\ socket[c] \in {"none", "up", "down"}
        /\ socket'[c] = IF c \in Held(n) /\ socket[c] = "up" THEN "down" ELSE socket[c]
        /\ c \in Held(n) <=> (c[1] = n /\ c[2] = process[n]) \/ (c[3] = n /\ socket[c] # "none")
        /\ c[1] # n => up'[c[1]] = up[c[1]] /\ receiver'[c[1]] = receiver[c[1]]
        /\ c[3] # n => receiver'[c[3]] = receiver[c[3]]
        /\ process' = process
    BY <1>1, <1>3, <2>1, ZenonT(30)
  <2> HIDE DEF d, r
  <2>4. /\ end'[d].stage = "closed" => socket'[c] # "up"
        /\ end'[r].stage = "closed" => socket'[c] = "down"
    BY <2>1, <2>2, <2>3 DEF LinkOK, d, r
  <2>5. end'[d].stage = "live" =>
           "reader" \in end'[d].tasks \/ socket'[c] = "down" \/ ~receiver'[c[1]]
    BY <2>2, <2>3, ClosedEndTyped DEF LinkOK, d, r
  <2>7. end'[r].stage = "live" =>
           "reader" \in end'[r].tasks \/ socket'[c] = "down" \/ ~receiver'[c[3]]
    BY <2>2, <2>3, ClosedEndTyped DEF LinkOK, d, r
  <2>6. socket'[c] = "up" => up'[c[1]] /\ process'[c[1]] = c[2]
    BY <2>2, <2>3 DEF LinkOK
  <2> QED BY <2>4, <2>5, <2>6, <2>7 DEF LinkOK, d, r
<1>6. ASSUME NEW f \in Ends PROVE ReceiverOK(f)' /\ NoGap(f)'
  <2> DEFINE c == f[1]
             o == Other(f)
  <2>1. /\ c \in Conns /\ f[2] \in Nodes /\ o[2] \in Nodes /\ c[1] # c[3]
        /\ \/ f = Dialer(c) /\ f[2] = c[1] /\ o[2] = c[3]
           \/ f = Responder(c) /\ f[2] = c[3] /\ o[2] = c[1]
    BY EndOf, ConnEnds
  <2>2. ReceiverOK(f) /\ NoGap(f) /\ LinkOK(c)
    BY <2>1 DEF GapInv
  <2>3. socket[c] = "none" => end[f].stage # "live" /\ (f = Responder(c) => ~Subscribed(f))
    <3>1. socket[c] = "none" => end[Responder(c)].stage = "idle" /\ end[Dialer(c)].stage # "live"
      BY <2>1 DEF MeshInv, ConnOK, InStep
    <3>2. end[f].tasks # {} => end[f].stage = "live"
      BY EndFacts
    <3> QED BY <2>1, <3>1, <3>2 DEF Subscribed
  <2>4. CASE f[2] = n
    <3>1. end'[f] = ClosedEnd \/ (end'[f] = end[f] /\ ~Subscribed(f))
      BY <1>3, <2>1, <2>2, <2>3, <2>4 DEF ReceiverOK
    <3>2. CASE end'[f] = ClosedEnd
      BY <3>2, GapClosed
    <3>3. CASE end'[f] = end[f] /\ ~Subscribed(f)
      <4>1. ~Subscribed(f)'
        BY <3>3 DEF Subscribed
      <4> QED BY <2>2, <3>3, <4>1 DEF ReceiverOK, NoGap
    <3> QED BY <3>1, <3>2, <3>3
  <2>5. CASE f[2] # n
    <3>1. /\ end'[f] = end[f] /\ dropped'[f] = dropped[f] /\ up'[f[2]] = up[f[2]]
          /\ process' = process /\ ring' = ring /\ Current(f[2])' = Current(f[2])
          /\ Subscribed(f)' <=> Subscribed(f)
      BY <1>1, <1>3, <1>4, <2>1, <2>5 DEF Subscribed
    <3>2. ReceiverOK(f)'
      BY <2>2, <3>1 DEF ReceiverOK
    <3>3. NoGap(f)'
      <4> SUFFICES ASSUME Subscribed(f), socket'[c] # "down", receiver'[o[2]],
                          NEW i \in end[f].first .. Len(ring[Current(f[2])])
                   PROVE  Placed(f, i)'
        BY <3>1 DEF NoGap
      <4>1. socket[c] # "down"
        BY <1>3, <2>1
      <4>3. CASE o[2] # n
        <5>1. c \notin Held(n)
          BY <1>3, <2>1, <2>5, <4>3
        <5>2. wire'[f] = wire[f] /\ incoming'[o[2]] = incoming[o[2]] /\ received'[o[2]] = received[o[2]]
          BY <1>3, <2>1, <4>3, <5>1
        <5>3. receiver'[o[2]] = receiver[o[2]]
          BY <1>3, <2>1, <4>3
        <5>4. Placed(f, i)
          BY <2>2, <4>1, <5>3 DEF NoGap
        <5> QED BY <3>1, <5>2, <5>4 DEF Placed
      <4>4. CASE o[2] = n
        <5>1. socket[c] = "none"
          BY <1>3, <2>1, <2>2, <4>1, <4>4 DEF LinkOK
        <5>2. end[f].cursor = end[f].first /\ end[f].first \in Nat
          BY <2>2, <2>3, <5>1, MeshFacts DEF ReceiverOK
        <5>3. Len(ring[Current(f[2])]) \in Nat
          BY MeshFacts
        <5>4. end[f].cursor <= i
          BY <5>2, <5>3
        <5> QED BY <3>1, <5>4 DEF Placed
      <4> QED BY <4>3, <4>4
    <3> QED BY <3>2, <3>3
  <2> QED BY <2>4, <2>5
<1> QED BY <1>5, <1>6 DEF GapInv

LEMMA GapNext == MeshInv /\ GapInv /\ [Next]_vars => GapInv'
<1> SUFFICES ASSUME MeshInv, GapInv, [Next]_vars PROVE GapInv'
  OBVIOUS
<1>1. CASE UNCHANGED vars
  <2>1. UNCHANGED <<up, process, ring, incoming, socket, end, wire, received, dropped, receiver>>
    BY <1>1 DEF vars
  <2>2. \A f \in Ends : \A i : Placed(f, i) => Placed(f, i)'
    BY <2>1 DEF Placed, Current
  <2> QED BY <2>1, <2>2, GapMoves
<1>2. ASSUME NEW n \in Nodes, NEW size \in Sizes, Broadcast(n, size) PROVE GapInv'
  BY <1>2, GapBroadcast
<1>3. ASSUME NEW c \in Conns, Dialing(c) \/ Accept(c) \/ Break(c) PROVE GapInv'
  BY <1>3, GapStartDialer, GapConnectFails, GapConnects, GapAccept, GapBreak DEF Dialing
<1>4. ASSUME NEW e \in Ends, Shaking(e) \/ Writing(e) \/ Reading(e) PROVE GapInv'
  BY <1>4, GapShaking, GapWriting, GapRead, GapReaderEnds DEF Reading
<1>5. ASSUME NEW n \in Nodes, Receive(n) \/ DropReceiver(n) \/ Crash(n) \/ Restart(n) PROVE GapInv'
  BY <1>5, GapReceive, GapDropReceiver, GapCrash, GapRestart
<1> QED BY <1>1, <1>2, <1>3, <1>4, <1>5 DEF Next

(* Every payload broadcast since a writer's subscription is accounted for  *)
(* as long as the socket is not down: the peer's caller has it, it is on   *)
(* its way to a reader that will still take it, or drive_connection's      *)
(* writer has logged it as lagged or too large.  This holds for every      *)
(* capacity of ring, queue and socket, across crashes and restarts.        *)
THEOREM MeshGapsAreLogged == Spec => []GapsAreLogged
<1>1. MeshInv /\ GapInv => GapsAreLogged
  <2> SUFFICES ASSUME MeshInv, GapInv, NEW e \in Ends, Subscribed(e), socket[e[1]] # "down",
                      receiver[Other(e)[2]], NEW i \in end[e].first .. Len(ring[Current(e[2])])
               PROVE  \/ FrameOf(Current(e[2]), i) \in received[Other(e)[2]]
                      \/ OnItsWay(e, i)
                      \/ i \in dropped[e]
    BY DEF GapsAreLogged
  <2>1. Placed(e, i)
    BY DEF GapInv, NoGap
  <2>2. Open(Other(e))
    <3> DEFINE c == e[1]
    <3>1. /\ c \in Conns /\ Other(e) \in Ends
          /\ Dialer(c)[2] = c[1] /\ Responder(c)[2] = c[3]
          /\ \/ e = Dialer(c) /\ Other(e) = Responder(c)
             \/ e = Responder(c) /\ Other(e) = Dialer(c)
      BY EndOf, ConnEnds
    <3>2. LinkOK(c) /\ end[Other(e)].stage \in Stages
      BY <3>1, MeshFacts DEF GapInv
    <3>3. socket[c] = "none" => ~Subscribed(Responder(c))
      <4>1. socket[c] = "none" => end[Responder(c)].stage = "idle"
        BY <3>1 DEF MeshInv, ConnOK, InStep
      <4>2. end[Responder(c)].tasks # {} => end[Responder(c)].stage = "live"
        BY <3>1, EndFacts
      <4> QED BY <4>1, <4>2 DEF Subscribed
    <3>4. socket[c] \in {"none", "up", "down"}
      BY <3>1 DEF MeshInv, MeshTyped
    <3>5. end[Other(e)].stage # "closed"
      BY <3>1, <3>2, <3>3, <3>4 DEF LinkOK
    <3>6. end[Other(e)].stage = "live" => "reader" \in end[Other(e)].tasks
      BY <3>1, <3>2 DEF LinkOK
    <3> QED BY <3>2, <3>5, <3>6 DEF Open, Stages
  <2> QED BY <2>1, <2>2 DEF Placed, InSeq, OnItsWay
<1> QED BY <1>1, MeshInit, MeshNext, GapInit, GapNext, PTL DEF Spec
=============================================================================
