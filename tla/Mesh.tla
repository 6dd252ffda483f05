-------------------------------- MODULE Mesh --------------------------------
(***************************************************************************)
(* sapphire-net: the validator mesh of one process per node.  Of each pair *)
(* of peers the one with the lower static key dials, once in the life of   *)
(* its process; the other accepts.  After the three messages of the Noise  *)
(* handshake each side runs a reader task and a writer task.  Mesh::       *)
(* broadcast puts a payload into the process's ring, a tokio broadcast     *)
(* channel that every writer reads at its own cursor; all readers feed the *)
(* process's one bounded incoming queue.                                   *)
(*                                                                         *)
(* A connection is <<d, k, r>>: the one that the k-th process of node d    *)
(* dials to r; its ends are <<c, d>> and <<c, r>>.                         *)
(*                                                                         *)
(* What is abstracted: a node is its static key, a number; a payload is    *)
(* its size class, and a frame on the wire is the payload's place in the   *)
(* sender's ring; a socket delivers in order or breaks (external: TCP, and *)
(* Noise's frame counters).  A task that waits for room (a writer on the   *)
(* socket, a reader on the incoming queue) holds one payload, which is     *)
(* counted to the wire.  The mutex around the Noise state is held over one *)
(* encryption or decryption only and is left out.                          *)
(***************************************************************************)
EXTENDS Integers, Sequences, FiniteSets

CONSTANTS
    Nodes,          \* the static public keys
    Configs,        \* the values peers may have
    MaxRing,        \* capacity of the outgoing channel (1024)
    MaxIncoming,    \* capacity of the incoming channel (1024)
    MaxWire,        \* frames a socket takes before a write waits
    MaxAttempts,    \* attempts of retrying_connect (21)
    MaxBroadcasts,  \* bound: broadcasts, over all processes
    MaxFaults       \* bound: crashes, broken connections and dropped receivers

ASSUME MeshAssumption ==
    /\ Nodes \subseteq Nat
    /\ Configs \subseteq [Nodes -> SUBSET Nodes]
    /\ {MaxRing, MaxIncoming, MaxWire, MaxAttempts} \subseteq Nat \ {0}
    /\ {MaxBroadcasts, MaxFaults} \subseteq Nat

(* A payload fits a Noise frame (MAX_PAYLOAD) or does not. *)
Sizes == {"fits", "oversize"}

(* Mutant: both peers dial. *)
Dials_Both(d, r) == d # r

(* Of two peers the one with the lower key dials. *)
Dials(d, r) == d < r

Conns == {c \in Nodes \X (0 .. MaxFaults) \X Nodes : Dials(c[1], c[3])}
Ends == {e \in Conns \X Nodes : e[2] \in {e[1][1], e[1][3]}}

(* A process of a node: which of its restarts it comes from. *)
Processes == Nodes \X (0 .. MaxFaults)

Other(e) == <<e[1], IF e[2] = e[1][1] THEN e[1][3] ELSE e[1][1]>>

VARIABLES
    peers,      \* peers[n]: MeshConfig.peers of n
    up,         \* up[n]: n's process runs
    process,    \* process[n]: how often n has been restarted
    ring,       \* ring[p]: all that process p has broadcast; the last MaxRing are retained
    incoming,   \* incoming[n]: frames from peers, for the caller
    socket,     \* socket[c]: "none", "up" or "down"
    end,        \* end[e]: the task that serves one end of a connection
    wire,       \* wire[e]: written at e, not yet read at the other end
    attempts,   \* attempts[c]: failed calls of TcpStream::connect
    budget,     \* broadcasts and faults so far, to bound the model
    receiver,   \* receiver[n]: the caller of Mesh::start has not dropped the incoming queue
    received,   \* history: received[n], the frames n's process has taken
    dropped     \* history: dropped[e], the payloads the writer has logged as dropped

vars == <<peers, up, process, ring, incoming, socket, end, wire, attempts, budget, received, dropped,
          receiver>>

(* A frame: the process that sent it and the payload's place in its ring. *)
Frame == [kind : {"frame"}, from : Processes, at : 1 .. MaxBroadcasts]
Handshake == {"msg1", "msg2", "msg3"}

FrameOf(p, i) == [kind |-> "frame", from |-> p, at |-> i]
Msg(name) == [kind |-> name]

Stages == {"idle", "dialing", "msg1", "msg2", "msg3", "live", "closed"}
End == [stage : Stages, first : Nat, cursor : Nat, tasks : SUBSET {"reader", "writer"}]

IdleEnd == [stage |-> "idle", first |-> 1, cursor |-> 1, tasks |-> {}]
ClosedEnd == [IdleEnd EXCEPT !.stage = "closed"]

Init ==
    /\ peers \in Configs
    /\ up = [n \in Nodes |-> TRUE]
    /\ process = [n \in Nodes |-> 0]
    /\ ring = [p \in Processes |-> <<>>]
    /\ incoming = [n \in Nodes |-> <<>>]
    /\ socket = [c \in Conns |-> "none"]
    /\ end = [e \in Ends |-> IdleEnd]
    /\ wire = [e \in Ends |-> <<>>]
    /\ attempts = [c \in Conns |-> 0]
    /\ budget = [broadcasts |-> 0, faults |-> 0]
    /\ received = [n \in Nodes |-> {}]
    /\ dropped = [e \in Ends |-> {}]
    /\ receiver = [n \in Nodes |-> TRUE]

Current(n) == <<n, process[n]>>

(* outgoing.subscribe(): only what is broadcast from now on is seen. *)
Subscribe(e, stage) ==
    end' = [end EXCEPT ![e] = [stage |-> stage, first |-> Len(ring[Current(e[2])]) + 1,
                               cursor |-> Len(ring[Current(e[2])]) + 1, tasks |-> {}]]

(* The receivers of the ring that exist. *)
Subscribed(e) ==
    end[e].stage \in {"dialing", "msg1", "msg2", "msg3"} \/ "writer" \in end[e].tasks

(* Mesh::broadcast.  With no receiver, send fails and nothing is kept. *)
Broadcast(n, size) ==
    /\ up[n]
    /\ budget.broadcasts < MaxBroadcasts
    /\ \E e \in Ends : e[2] = n /\ Subscribed(e)
    /\ ring' = [ring EXCEPT ![Current(n)] = Append(@, size)]
    /\ budget' = [budget EXCEPT !.broadcasts = @ + 1]
    /\ UNCHANGED <<peers, up, process, incoming, socket, end, wire, attempts, received, dropped, receiver>>

----------------------------------------------------------------------------
(* Connecting.                                                             *)

(* The dialer's task starts: it subscribes before it connects. *)
StartDialer(c) ==
    /\ up[c[1]] /\ process[c[1]] = c[2]
    /\ c[3] \in peers[c[1]]
    /\ end[<<c, c[1]>>].stage = "idle"
    /\ Subscribe(<<c, c[1]>>, "dialing")
    /\ UNCHANGED <<peers, up, process, ring, incoming, socket, wire, attempts, budget, received, dropped, receiver>>

(* Mutant: the loop makes one attempt too many. *)
ConnectFails_OneMore(c) ==
    /\ end[<<c, c[1]>>].stage = "dialing"
    /\ attempts' = [attempts EXCEPT ![c] = @ + 1]
    /\ end' = IF attempts[c] = MaxAttempts
              THEN [end EXCEPT ![<<c, c[1]>>] = ClosedEnd] ELSE end
    /\ UNCHANGED <<peers, up, process, ring, incoming, socket, wire, budget, received, dropped, receiver>>

(* One failed attempt of retrying_connect; the last one ends the task. *)
ConnectFails(c) ==
    /\ end[<<c, c[1]>>].stage = "dialing"
    /\ attempts' = [attempts EXCEPT ![c] = @ + 1]
    /\ end' = IF attempts[c] + 1 = MaxAttempts
              THEN [end EXCEPT ![<<c, c[1]>>] = ClosedEnd] ELSE end
    /\ UNCHANGED <<peers, up, process, ring, incoming, socket, wire, budget, received, dropped, receiver>>

(* The connection is established; run_initiator writes its first message. *)
Connects(c) ==
    /\ end[<<c, c[1]>>].stage = "dialing"
    /\ up[c[3]]
    /\ socket' = [socket EXCEPT ![c] = "up"]
    /\ wire' = [wire EXCEPT ![<<c, c[1]>>] = <<Msg("msg1")>>]
    /\ end' = [end EXCEPT ![<<c, c[1]>>].stage = "msg2"]
    /\ UNCHANGED <<peers, up, process, ring, incoming, attempts, budget, received, dropped, receiver>>

(* The listener's loop: accept, and a task that subscribes. *)
Accept(c) ==
    /\ up[c[3]]
    /\ socket[c] # "none"
    /\ end[<<c, c[3]>>].stage = "idle"
    /\ Subscribe(<<c, c[3]>>, "msg1")
    /\ UNCHANGED <<peers, up, process, ring, incoming, socket, wire, attempts, budget, received, dropped, receiver>>

(* read_msg: the next message on the wire to e is the expected one. *)
ReadsMsg(e, msg) ==
    /\ end[e].stage = msg
    /\ wire[Other(e)] # <<>>
    /\ Head(wire[Other(e)]) = Msg(msg)

GoLive(e) ==
    end' = [end EXCEPT ![e].stage = "live", ![e].tasks = {"reader", "writer"}]

(* Mutant: message 2 stays in a buffer. *)
ReadMsg1_NoReply(e) ==
    /\ ReadsMsg(e, "msg1")
    /\ wire' = [wire EXCEPT ![Other(e)] = Tail(@)]
    /\ end' = [end EXCEPT ![e].stage = "msg3"]
    /\ UNCHANGED <<peers, up, process, ring, incoming, socket, attempts, budget, received, dropped, receiver>>

(* run_responder: message 1 in, message 2 out. *)
ReadMsg1(e) ==
    /\ ReadsMsg(e, "msg1")
    /\ wire' = [wire EXCEPT ![Other(e)] = Tail(@), ![e] = Append(@, Msg("msg2"))]
    /\ end' = [end EXCEPT ![e].stage = "msg3"]
    /\ UNCHANGED <<peers, up, process, ring, incoming, socket, attempts, budget, received, dropped, receiver>>

(* run_initiator: message 2 in, message 3 out; the dialer starts its tasks *)
(* before the responder has seen message 3.                                *)
ReadMsg2(e) ==
    /\ ReadsMsg(e, "msg2")
    /\ wire' = [wire EXCEPT ![Other(e)] = Tail(@), ![e] = Append(@, Msg("msg3"))]
    /\ GoLive(e)
    /\ UNCHANGED <<peers, up, process, ring, incoming, socket, attempts, budget, received, dropped, receiver>>

(* Mutant: the dialer's key is not looked up. *)
ReadMsg3_AnyPeer(e) ==
    /\ ReadsMsg(e, "msg3")
    /\ wire' = [wire EXCEPT ![Other(e)] = Tail(@)]
    /\ GoLive(e)
    /\ UNCHANGED socket
    /\ UNCHANGED <<peers, up, process, ring, incoming, attempts, budget, received, dropped, receiver>>

(* Message 3 tells the responder who has dialled: UnknownPeer drops the stream. *)
ReadMsg3(e) ==
    /\ ReadsMsg(e, "msg3")
    /\ wire' = [wire EXCEPT ![Other(e)] = Tail(@)]
    /\ \/ /\ Other(e)[2] \in peers[e[2]]
          /\ GoLive(e)
          /\ UNCHANGED socket
       \/ /\ Other(e)[2] \notin peers[e[2]]
          /\ end' = [end EXCEPT ![e] = ClosedEnd]
          /\ socket' = [socket EXCEPT ![e[1]] = "down"]
    /\ UNCHANGED <<peers, up, process, ring, incoming, attempts, budget, received, dropped, receiver>>

(* An I/O error during the handshake ends the task. *)
HandshakeFails(e) ==
    /\ end[e].stage \in Handshake
    /\ socket[e[1]] = "down"
    /\ end' = [end EXCEPT ![e] = ClosedEnd]
    /\ UNCHANGED <<peers, up, process, ring, incoming, socket, wire, attempts, budget, received, dropped, receiver>>

----------------------------------------------------------------------------
(* drive_connection: the writer.                                           *)

(* The oldest payload the ring still has. *)
Oldest(n) ==
    LET len == Len(ring[Current(n)]) IN IF len > MaxRing THEN len - MaxRing + 1 ELSE 1

Lagging(e) == end[e].cursor < Oldest(e[2])

(* recv() would return a payload of this size. *)
HasNext(e, size) ==
    /\ "writer" \in end[e].tasks
    /\ ~Lagging(e)
    /\ end[e].cursor <= Len(ring[Current(e[2])])
    /\ ring[Current(e[2])][end[e].cursor] = size

(* Mutant: a writer that lags subscribes anew. *)
Lag_Resubscribe(e) ==
    /\ "writer" \in end[e].tasks
    /\ Lagging(e)
    /\ dropped' = [dropped EXCEPT ![e] = @ \cup (end[e].cursor .. Oldest(e[2]) - 1)]
    /\ end' = [end EXCEPT ![e].cursor = Len(ring[Current(e[2])]) + 1]
    /\ UNCHANGED <<peers, up, process, ring, incoming, socket, wire, attempts, budget, received, receiver>>

(* recv() -> Lagged: the cursor moves to the oldest payload retained. *)
Lag(e) ==
    /\ "writer" \in end[e].tasks
    /\ Lagging(e)
    /\ dropped' = [dropped EXCEPT ![e] = @ \cup (end[e].cursor .. Oldest(e[2]) - 1)]
    /\ end' = [end EXCEPT ![e].cursor = Oldest(e[2])]
    /\ UNCHANGED <<peers, up, process, ring, incoming, socket, wire, attempts, budget, received, receiver>>

(* encrypt_frame refuses the payload; the writer goes on with the next. *)
DropOversize(e) ==
    /\ HasNext(e, "oversize")
    /\ dropped' = [dropped EXCEPT ![e] = @ \cup {end[e].cursor}]
    /\ end' = [end EXCEPT ![e].cursor = @ + 1]
    /\ UNCHANGED <<peers, up, process, ring, incoming, socket, wire, attempts, budget, received, receiver>>

(* Mutant: the reader keeps the Noise state locked while it waits for a frame. *)
Write_LockHeld(e) ==
    /\ HasNext(e, "fits")
    /\ wire[Other(e)] # <<>>
    /\ socket[e[1]] = "up"
    /\ Len(wire[e]) < MaxWire
    /\ wire' = [wire EXCEPT ![e] =
          Append(@, FrameOf(Current(e[2]), end[e].cursor))]
    /\ end' = [end EXCEPT ![e].cursor = @ + 1]
    /\ UNCHANGED <<peers, up, process, ring, incoming, socket, attempts, budget, received, dropped, receiver>>

Write(e) ==
    /\ HasNext(e, "fits")
    /\ socket[e[1]] = "up"
    /\ Len(wire[e]) < MaxWire
    /\ wire' = [wire EXCEPT ![e] =
          Append(@, FrameOf(Current(e[2]), end[e].cursor))]
    /\ end' = [end EXCEPT ![e].cursor = @ + 1]
    /\ UNCHANGED <<peers, up, process, ring, incoming, socket, attempts, budget, received, dropped, receiver>>

(* On a socket that is gone a write may still succeed, and its bytes are   *)
(* lost; or it fails and ends the writer, and only the writer.             *)
WriteIntoBroken(e) ==
    /\ HasNext(e, "fits")
    /\ socket[e[1]] = "down"
    /\ end' = [end EXCEPT ![e].cursor = @ + 1]
    /\ UNCHANGED <<peers, up, process, ring, incoming, socket, wire, attempts, budget, received, dropped, receiver>>

WriterEnds(e) ==
    /\ HasNext(e, "fits")
    /\ socket[e[1]] = "down"
    /\ end' = [end EXCEPT ![e].tasks = @ \ {"writer"}]
    /\ UNCHANGED <<peers, up, process, ring, incoming, socket, wire, attempts, budget, received, dropped, receiver>>

(* drive_connection: the reader.                                           *)

(* read_frame_bytes, decrypt_frame, and send, which waits for room. *)
Read(e) ==
    /\ "reader" \in end[e].tasks
    /\ receiver[e[2]]
    /\ wire[Other(e)] # <<>>
    /\ Len(incoming[e[2]]) < MaxIncoming
    /\ incoming' = [incoming EXCEPT ![e[2]] = Append(@, Head(wire[Other(e)]))]
    /\ wire' = [wire EXCEPT ![Other(e)] = Tail(@)]
    /\ UNCHANGED <<peers, up, process, ring, socket, end, attempts, budget, received, dropped, receiver>>

(* End of file or an error, or a frame that the caller no longer takes, as *)
(* it has dropped the receiver.  What is still on the wire is not read.    *)
ReaderEnds(e) ==
    /\ "reader" \in end[e].tasks
    /\ socket[e[1]] = "down" \/ (~receiver[e[2]] /\ wire[Other(e)] # <<>>)
    /\ end' = [end EXCEPT ![e].tasks = @ \ {"reader"}]
    /\ wire' = [wire EXCEPT ![Other(e)] = <<>>]
    /\ UNCHANGED <<peers, up, process, ring, incoming, socket, attempts, budget, received, dropped, receiver>>

(* The caller takes a frame from the incoming queue. *)
Receive(n) ==
    /\ incoming[n] # <<>>
    /\ received' = [received EXCEPT ![n] = @ \cup {Head(incoming[n])}]
    /\ incoming' = [incoming EXCEPT ![n] = Tail(@)]
    /\ UNCHANGED <<peers, up, process, ring, socket, end, wire, attempts, budget, dropped, receiver>>

----------------------------------------------------------------------------
(* Faults.                                                                 *)

(* The network breaks a connection. *)
Break(c) ==
    /\ socket[c] = "up"
    /\ budget.faults < MaxFaults
    /\ socket' = [socket EXCEPT ![c] = "down"]
    /\ budget' = [budget EXCEPT !.faults = @ + 1]
    /\ UNCHANGED <<peers, up, process, ring, incoming, end, wire, attempts, received, dropped, receiver>>

(* The caller drops the receiver of the incoming queue, with what is in it. *)
DropReceiver(n) ==
    /\ up[n] /\ receiver[n]
    /\ budget.faults < MaxFaults
    /\ receiver' = [receiver EXCEPT ![n] = FALSE]
    /\ incoming' = [incoming EXCEPT ![n] = <<>>]
    /\ budget' = [budget EXCEPT !.faults = @ + 1]
    /\ UNCHANGED <<peers, up, process, ring, socket, end, wire, attempts, received, dropped>>

(* The connections a process has a part in: the ones it dials or would     *)
(* dial, and the ones that have reached it.                                *)
Held(n) == {c \in Conns : \/ c[1] = n /\ c[2] = process[n]
                          \/ c[3] = n /\ socket[c] # "none"}

(* The process ends: its ring, its queue and its connections are gone with *)
(* it.  The next one has a receiver of its own.                            *)
Crash(n) ==
    /\ up[n]
    /\ budget.faults < MaxFaults
    /\ budget' = [budget EXCEPT !.faults = @ + 1]
    /\ up' = [up EXCEPT ![n] = FALSE]
    /\ incoming' = [incoming EXCEPT ![n] = <<>>]
    /\ receiver' = [receiver EXCEPT ![n] = TRUE]
    /\ received' = [received EXCEPT ![n] = {}]
    /\ end' = [e \in Ends |-> IF e[1] \in Held(n) /\ e[2] = n THEN ClosedEnd ELSE end[e]]
    /\ wire' = [e \in Ends |-> IF e[1] \in Held(n) /\ e[2] # n THEN <<>> ELSE wire[e]]
    /\ dropped' = [e \in Ends |-> IF e[2] = n THEN {} ELSE dropped[e]]
    /\ socket' = [c \in Conns |-> IF c \in Held(n) /\ socket[c] = "up" THEN "down" ELSE socket[c]]
    /\ UNCHANGED <<peers, process, ring, attempts>>

(* Mesh::start in a new process. *)
Restart(n) ==
    /\ ~up[n]
    /\ up' = [up EXCEPT ![n] = TRUE]
    /\ process' = [process EXCEPT ![n] = @ + 1]
    /\ UNCHANGED <<peers, ring, incoming, socket, end, wire, attempts, budget, received, dropped, receiver>>

----------------------------------------------------------------------------
(* The tasks. *)
Dialing(c) == StartDialer(c) \/ ConnectFails(c) \/ Connects(c)
Shaking(e) == ReadMsg1(e) \/ ReadMsg2(e) \/ ReadMsg3(e) \/ HandshakeFails(e)
Writing(e) == Lag(e) \/ DropOversize(e) \/ Write(e) \/ WriteIntoBroken(e) \/ WriterEnds(e)
Reading(e) == Read(e) \/ ReaderEnds(e)

Next ==
    \/ \E n \in Nodes, size \in Sizes : Broadcast(n, size)
    \/ \E c \in Conns : Dialing(c) \/ Accept(c) \/ Break(c)
    \/ \E e \in Ends : Shaking(e) \/ Writing(e) \/ Reading(e)
    \/ \E n \in Nodes : Receive(n) \/ DropReceiver(n) \/ Crash(n) \/ Restart(n)

Spec == Init /\ [][Next]_vars

(* Every task that can take a step is polled in the end, the listener's    *)
(* loop accepts and the caller takes what is queued.  A failed attempt to  *)
(* connect counts as a step of the dialer.  Nothing forces a broadcast, a  *)
(* fault, a dropped receiver or a restart.                                 *)
Fairness ==
    /\ \A c \in Conns : /\ WF_vars(Dialing(c))
                         /\ WF_vars(Accept(c))
    /\ \A e \in Ends : /\ WF_vars(Shaking(e)) /\ WF_vars(Writing(e)) /\ WF_vars(Reading(e))
    /\ \A n \in Nodes : WF_vars(Receive(n))

FairSpec == Spec /\ Fairness

----------------------------------------------------------------------------
(* Properties.                                                             *)

(* The mesh's variables keep their types; the two queues and the socket    *)
(* buffers stay within their capacities, and no dialer tries more often    *)
(* than retrying_connect allows.                                           *)
MeshTypeOK ==
    /\ peers \in Configs
    /\ up \in [Nodes -> BOOLEAN]
    /\ process \in [Nodes -> 0 .. MaxFaults]
    /\ DOMAIN ring = Processes /\ \A p \in Processes : ring[p] \in Seq(Sizes)
    /\ \A n \in Nodes : incoming[n] \in Seq(Frame) /\ Len(incoming[n]) <= MaxIncoming
    /\ socket \in [Conns -> {"none", "up", "down"}]
    /\ end \in [Ends -> End]
    /\ \A e \in Ends : wire[e] \in Seq(Frame \cup [kind : Handshake]) /\ Len(wire[e]) <= MaxWire + 1
    /\ \A c \in Conns : attempts[c] \in 0 .. MaxAttempts
    /\ \A n \in Nodes : received[n] \subseteq Frame
    /\ \A e \in Ends : dropped[e] \subseteq 1 .. MaxBroadcasts
    /\ receiver \in [Nodes -> BOOLEAN]

(* The connection by which what process p broadcasts can reach m. *)
Route(p, m) == IF Dials(p[1], m) THEN <<p[1], p[2], m>> ELSE <<m, process[m], p[1]>>

Routes == {l \in Processes \X Nodes : l[1][1] # l[2]}

(* The end at m will still take frames off the wire. *)
Open(e) == end[e].stage \in {"idle", "msg1", "msg2", "msg3", "dialing"} \/ "reader" \in end[e].tasks

(* The places of the payloads in a list of frames that come from p. *)
PlacesFrom(frames, p) ==
    LET fromP == SelectSeq(frames, LAMBDA f : f.kind = "frame" /\ f.from = p)
    IN  [i \in 1 .. Len(fromP) |-> fromP[i].at]

(* What p has broadcast and m may still receive, the oldest first: in m's  *)
(* incoming queue, on the wire, and in the ring beyond the writer's cursor. *)
InFlight(p, m) ==
    LET e == <<Route(p, m), p[1]>>
        onWire == PlacesFrom(wire[e], p)
        waiting == [i \in 1 .. Len(ring[p]) - end[e].cursor + 1 |-> end[e].cursor + i - 1]
    IN  PlacesFrom(incoming[m], p)
        \o (IF Open(Other(e)) THEN onWire ELSE <<>>)
        \o (IF Open(Other(e)) /\ p = Current(p[1]) /\ Subscribed(e) THEN waiting ELSE <<>>)

(* The mesh keeps its contract: on every link payloads are delivered in    *)
(* the order of their broadcasts and none of them twice, whatever is       *)
(* dropped by a lagging writer, a broken connection or a crash.            *)
Contract == INSTANCE LossyFifo WITH
    Links <- Routes, Payloads <- 1 .. MaxBroadcasts,
    sent <- [p \in Processes |-> [i \in 1 .. Len(ring[p]) |-> i]],
    queue <- [l \in Routes |-> InFlight(l[1], l[2])]

MeshIsLossyFifo == Contract!Spec

(* The payload at place i of the ring that the writer at e reads is still  *)
(* on its way: in the other side's queue, on the wire, or in the ring at   *)
(* or beyond the writer's cursor.                                          *)
OnItsWay(e, i) ==
    LET f == FrameOf(Current(e[2]), i)
        m == Other(e)[2]
    IN  \/ \E j \in DOMAIN incoming[m] : incoming[m][j] = f
        \/ /\ Open(Other(e))
           /\ \/ end[e].cursor <= i
              \/ \E j \in DOMAIN wire[e] : wire[e][j] = f

(* Nothing goes missing without a trace.  As long as the connection is not *)
(* broken and the caller opposite keeps its receiver, every payload        *)
(* broadcast since the writer's subscription has been received, is on its  *)
(* way, or was logged as dropped: one that lagged or did not fit.          *)
GapsAreLogged ==
    \A e \in Ends : Subscribed(e) /\ socket[e[1]] # "down" /\ receiver[Other(e)[2]] =>
        \A i \in end[e].first .. Len(ring[Current(e[2])]) :
            \/ FrameOf(Current(e[2]), i) \in received[Other(e)[2]]
            \/ OnItsWay(e, i)
            \/ i \in dropped[e]

(* A node receives frames from the processes of its own peers only. *)
OnlyPeersAreHeard ==
    \A n \in Nodes : \A f \in received[n] : f.from[1] \in peers[n]

(* Every dialer's task gets somewhere: both ends go live, or it gives up,  *)
(* or the connection is broken or refused.                                 *)
DialingSettles ==
    \A c \in Conns : end[<<c, c[1]>>].stage = "dialing" ~>
        \/ end[<<c, c[1]>>].stage = "live" /\ end[<<c, c[3]>>].stage = "live"
        \/ end[<<c, c[1]>>].stage = "closed"
        \/ socket[c] = "down"

(* What the crate's notes say of a transient disconnect: it may drop what  *)
(* is in flight, and broadcasting again makes up for it.  So two peers     *)
(* whose processes run are connected again in the end.                     *)
DisconnectIsTransient ==
    \A c \in Conns :
        socket[c] = "down" /\ c[1] \in peers[c[3]] ~>
            \/ ~up[c[1]] \/ ~up[c[3]]
            \/ \E k \in 0 .. MaxFaults : socket[<<c[1], k, c[3]>>] = "up"

(* Everything that is on its way arrives or is lost: no writer or reader   *)
(* gets stuck on a full queue, a full socket or a half-open connection.    *)
MeshDrains ==
    \A l \in Routes : []<>(InFlight(l[1], l[2]) = <<>>)
=============================================================================
