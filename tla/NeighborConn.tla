---------------------------- MODULE NeighborConn ----------------------------
(***************************************************************************)
(* The neighbour connection of src/src/emergency_net/emergency_conn.c:     *)
(* ec_reliable_broadcast_ns, its two timers (send_neighbor_data and        *)
(* send_neighbor_ack) and its receive handler neighbor_recv, on every node *)
(* of a network, over a radio that loses frames and collides.              *)
(*                                                                         *)
(* A packet is broadcast once to all neighbours, then multicast or unicast *)
(* every six seconds to those that have not acknowledged it, one packet at *)
(* a time, until all have or it has been sent MaxTimesSent times.          *)
(*                                                                         *)
(* In scope: the sending queue with its leftovers, the duplicate queue,    *)
(* both timers, the application's reply and its forwarding of the packets  *)
(* the sink floods, frames waiting to be handled, loss, collision, crash   *)
(* and restart.  Durations are left out: a pending timer may fire at any   *)
(* time.  The neighbour tables do not change.  The other five packet types *)
(* do not occupy the queue here.                                           *)
(***************************************************************************)
EXTENDS PacketBuffer, DupeQueue

CONSTANTS
  Sink,              \* the node whose broadcasts are flooded
  Neighbors,         \* the neighbour table of each node
  InRange,           \* who can hear each node, and the sink
  MaxTimesSent,      \* transmissions before a packet is given up
  NoFrame,           \* nothing waiting at a node's radio
  Requesters,        \* nodes whose application sends packets of its own
  MaxOwn,            \* bound: packets a node originates in one life
  MaxFloods,         \* bound: packets the sink broadcasts
  Crashers,          \* nodes that may lose power
  MaxCrashes         \* bound: crashes of each of them

ASSUME NeighborConnAssumption ==
  /\ Sink \notin Node
  /\ Neighbors \in [Node -> SUBSET Node]
  /\ InRange \in [Node \cup {Sink} -> SUBSET Node]
  /\ MaxTimesSent \in 1..255
  /\ DupeQueueLength \in 1..255
  /\ Requesters \subseteq Node /\ Crashers \subseteq Node
  /\ MaxOwn \in 0..255 /\ MaxFloods \in 0..255 /\ MaxCrashes \in Nat

\* What identifies a packet to the protocol.
Key == (Node \cup {Sink}) \X (0..255)

\* A packet, in the queue or on the air.  to holds the receivers a multicast
\* or unicast names, and every node for a broadcast.  data stands for the
\* payload: the life of the originator in which the packet was made.
Packet ==
  [ack : BOOLEAN, originator : Node \cup {Sink}, seqno : 0..255,
   sender : Node \cup {Sink}, to : SUBSET Node, data : Nat]

ASSUME NoFrameAssumption == NoFrame \notin Packet

KeyOf(p) == <<p.originator, p.seqno>>

VARIABLES
  ec,          \* struct ec of each node, with the seqno of its application
  rx,          \* the frame waiting at each node's radio
  up,          \* the nodes that are running
  life,        \* restarts of each node
  sink_seqno,  \* packets the sink has broadcast
  seen,        \* history: keys each node's application received or originated
  log          \* history: packets handed to each node's application, in order,
               \* since it last started

vars == <<ec, rx, up, life, sink_seqno, seen, log>>

ClosedEc ==
  [sq |-> EmptyBuffer, dq |-> << >>, ack_timer |-> FALSE,
   data_timer |-> FALSE, seqno |-> 0]

Init ==
  /\ ec = [n \in Node |-> ClosedEc]
  /\ rx = [n \in Node |-> NoFrame]
  /\ up = Node
  /\ life = [n \in Node |-> 0]
  /\ sink_seqno = 0
  /\ seen = [n \in Node |-> {}]
  /\ log = [n \in Node |-> << >>]

-----------------------------------------------------------------------------
(* Operators on the struct ec of one node. *)

BroadcastPacket(n, key, data) ==
  [ack |-> FALSE, originator |-> key[1], seqno |-> key[2], sender |-> n,
   to |-> Node, data |-> data]

AckPacket(n, p) ==
  [ack |-> TRUE, originator |-> p.originator, seqno |-> p.seqno, sender |-> n,
   to |-> {p.sender}, data |-> 0]

\* Mutant of ReliableBroadcastNs: the data timer is not set.
BroadcastWithoutTimer(c, n, key, data) ==
  IF Neighbors[n] = {}
  THEN c
  ELSE StorePacketForDupeChecks(
         [c EXCEPT !.sq = AddPacket(@, NEIGHBOR_DATA,
                                    BroadcastPacket(n, key, data), Neighbors[n])],
         key)

\* ec_reliable_broadcast_ns on node n.
ReliableBroadcastNs(c, n, key, data) ==
  IF Neighbors[n] = {}
  THEN c
  ELSE StorePacketForDupeChecks(
         [c EXCEPT !.sq = AddPacket(@, NEIGHBOR_DATA,
                                    BroadcastPacket(n, key, data), Neighbors[n]),
                   !.data_timer = TRUE], key)

\* The application sends a packet of its own: g_np.seqno++.
OwnBroadcast(c, n) ==
  ReliableBroadcastNs([c EXCEPT !.seqno = @ + 1], n, <<n, c.seqno>>, life[n])

MayOriginate(n) == n \in Requesters /\ ec[n].seqno < MaxOwn

\* The application's receive callback: what the sink flooded is forwarded, and
\* the packet may make the application send one of its own.
Callback(c, n, p, reply) ==
  LET forwarded == IF p.originator = Sink
                   THEN ReliableBroadcastNs(c, n, KeyOf(p), p.data)
                   ELSE c
  IN  IF reply THEN OwnBroadcast(forwarded, n) ELSE forwarded

\* Unless it waits in the queue already, an ACK for p is queued.
QueueAck(c, n, p) ==
  IF IsQueued(c.sq, AckPacket(n, p))
  THEN c
  ELSE [c EXCEPT !.sq = AddUntrackedPacket(@, NEIGHBOR_ACK, AckPacket(n, p)),
                 !.ack_timer = TRUE]

-----------------------------------------------------------------------------
(* The radio.  A node holds one frame that it has not handled yet; what    *)
(* arrives meanwhile is lost, and so may be any frame on its way to any    *)
(* node.  A multicast or unicast that does not name a node would be looked *)
(* at there and ignored: it is not put at that node's radio at all.        *)

Transmit(n, frame) ==
  \E H \in SUBSET {m \in InRange[n] \cap frame.to :
                     m \in up /\ rx[m] = NoFrame} :
    rx' = [m \in Node |-> IF m \in H THEN frame ELSE rx[m]]

\* Packet i of buffer sq goes out with the header and data of p, unless the
\* radio reports a collision.  Either way the timer is set again.
SendDataPacket(n, sq, i, p) ==
  \/ /\ ec' = [ec EXCEPT ![n].sq = IncrementTimesSent(sq, i)]
     /\ Transmit(n, [p EXCEPT !.to = IF sq.queued[i].times_sent = 0
                                     THEN Node
                                     ELSE sq.queued[i].unacked_ns])
  \/ /\ ec' = [ec EXCEPT ![n].sq = sq]
     /\ UNCHANGED rx

-----------------------------------------------------------------------------
(* send_neighbor_data: the data timer fires. *)

DataTimerFires(n) ==
  /\ n \in up
  /\ ec[n].data_timer
  /\ UNCHANGED <<up, life, sink_seqno, seen, log>>

\* Nothing to send: the timer is not set again.
NoDataToSend(n) ==
  /\ DataTimerFires(n)
  /\ FirstOfType(ec[n].sq, NEIGHBOR_DATA) = {}
  /\ ec' = [ec EXCEPT ![n].data_timer = FALSE]
  /\ UNCHANGED rx

SendFirstData(n) ==
  /\ DataTimerFires(n)
  /\ \E i \in FirstOfType(ec[n].sq, NEIGHBOR_DATA) :
       /\ ec[n].sq.queued[i].times_sent < MaxTimesSent
       /\ SendDataPacket(n, ec[n].sq, i, ec[n].sq.queued[i].p)

\* The first packet was sent too often and is dropped.  Only the first packet
\* of the type was ever sent (OnlyFirstSent), so one turn of the loop drops
\* all there is to drop.  If another packet is next, what goes out in its name
\* is still the header and data of the dropped one: p was taken before the loop.
GiveUpFirstData(n) ==
  /\ DataTimerFires(n)
  /\ \E i \in FirstOfType(ec[n].sq, NEIGHBOR_DATA) :
       LET dropped == ec[n].sq.queued[i]
           sq      == FreePacket(ec[n].sq, i)
       IN  /\ dropped.times_sent >= MaxTimesSent
           /\ \/ /\ FirstOfType(sq, NEIGHBOR_DATA) = {}
                 /\ ec' = [ec EXCEPT ![n].sq = sq, ![n].data_timer = FALSE]
                 /\ UNCHANGED rx
              \/ \E j \in FirstOfType(sq, NEIGHBOR_DATA) :
                   SendDataPacket(n, sq, j, dropped.p)

-----------------------------------------------------------------------------
(* send_neighbor_ack: the ACK timer fires. *)

AckTimerFires(n) ==
  /\ n \in up
  /\ ec[n].ack_timer
  /\ UNCHANGED <<up, life, sink_seqno, seen, log>>

NoAckToSend(n) ==
  /\ AckTimerFires(n)
  /\ FirstOfType(ec[n].sq, NEIGHBOR_ACK) = {}
  /\ ec' = [ec EXCEPT ![n].ack_timer = FALSE]
  /\ UNCHANGED rx

\* An ACK leaves the queue with its first collision-free transmission.  After
\* a collision the timer is set again and nothing else has changed.
SendFirstAck(n) ==
  /\ AckTimerFires(n)
  /\ \E i \in FirstOfType(ec[n].sq, NEIGHBOR_ACK) :
       LET sq == FreePacket(ec[n].sq, i)
       IN  /\ ec' = [ec EXCEPT ![n].sq = sq,
                               ![n].ack_timer = OfType(sq, NEIGHBOR_ACK) # {}]
           /\ Transmit(n, ec[n].sq.queued[i].p)

-----------------------------------------------------------------------------
(* neighbor_recv: the node handles the frame waiting at its radio. *)

ForUs(n) == n \in rx[n].to /\ rx[n].sender \in Neighbors[n]

Handle(n) ==
  /\ n \in up
  /\ rx[n] # NoFrame
  /\ rx' = [rx EXCEPT ![n] = NoFrame]
  /\ UNCHANGED <<up, life, sink_seqno>>

RecvNotForUs(n) ==
  /\ Handle(n)
  /\ rx[n].sender # Sink
  /\ ~ForUs(n)
  /\ UNCHANGED <<ec, seen, log>>

\* Mutant of RecvAck: the packet stays although everybody acknowledged it.
RecvAckFreesNothing(n) ==
  /\ Handle(n)
  /\ ForUs(n)
  /\ rx[n].ack
  /\ \E i \in FindByOriginatorSeqno(ec[n].sq, rx[n]) :
       ec' = [ec EXCEPT ![n].sq = NeighborAcked(@, i, rx[n].sender)]
  /\ UNCHANGED <<seen, log>>

\* The packet found is whichever comes first in type order, an ACK of our own
\* with the same originator and number before the data that was acknowledged.
RecvAck(n) ==
  /\ Handle(n)
  /\ ForUs(n)
  /\ rx[n].ack
  /\ \E i \in FindByOriginatorSeqno(ec[n].sq, rx[n]) :
       LET sq == NeighborAcked(ec[n].sq, i, rx[n].sender)
       IN  ec' = IF AllNeighborsAcked(sq, i)
                 THEN [ec EXCEPT ![n].sq = FreePacket(sq, i),
                                 ![n].data_timer = TRUE]
                 ELSE [ec EXCEPT ![n].sq = sq]
  /\ UNCHANGED <<seen, log>>

RecvAckForNonSentPacket(n) ==
  /\ Handle(n)
  /\ ForUs(n)
  /\ rx[n].ack
  /\ FindByOriginatorSeqno(ec[n].sq, rx[n]) = {}
  /\ UNCHANGED <<ec, seen, log>>

RecvDupe(n) ==
  /\ Handle(n)
  /\ ForUs(n)
  /\ ~rx[n].ack
  /\ Contains(ec[n].dq, KeyOf(rx[n]))
  /\ ec' = [ec EXCEPT ![n] = QueueAck(@, n, rx[n])]
  /\ UNCHANGED <<seen, log>>

\* What node n's application and duplicate queue do with a new packet p.
Deliver(n, p, c) ==
  /\ seen' = [seen EXCEPT ![n] = @ \cup {KeyOf(p)} \cup
                                 {<<n, s>> : s \in ec[n].seqno .. c.seqno - 1}]
  /\ log' = [log EXCEPT ![n] = Append(@, p)]

\* Room for an ACK, a forwarded packet and one of the application's own.
RecvNewData(n) ==
  /\ Handle(n)
  /\ ForUs(n)
  /\ ~rx[n].ack
  /\ ~Contains(ec[n].dq, KeyOf(rx[n]))
  /\ HasRoomForPackets(ec[n].sq, 3)
  /\ \E reply \in {FALSE, MayOriginate(n)} :
       LET c == Callback(ec[n], n, rx[n], reply)
       IN  /\ ec' = [ec EXCEPT ![n] =
                       QueueAck(StorePacketForDupeChecks(c, KeyOf(rx[n])), n, rx[n])]
           /\ Deliver(n, rx[n], c)

\* Mutants of RecvDataOverflow: a dropped packet is acknowledged, or remembered
\* as a duplicate, so that its next copy is.
RecvOverflowAcks(n) ==
  /\ Handle(n)
  /\ ForUs(n)
  /\ ~rx[n].ack
  /\ ~Contains(ec[n].dq, KeyOf(rx[n]))
  /\ ~HasRoomForPackets(ec[n].sq, 3)
  /\ ec' = [ec EXCEPT ![n] = QueueAck(@, n, rx[n])]
  /\ UNCHANGED <<seen, log>>

RecvOverflowRemembers(n) ==
  /\ Handle(n)
  /\ ForUs(n)
  /\ ~rx[n].ack
  /\ ~Contains(ec[n].dq, KeyOf(rx[n]))
  /\ ~HasRoomForPackets(ec[n].sq, 3)
  /\ ec' = [ec EXCEPT ![n] = StorePacketForDupeChecks(@, KeyOf(rx[n]))]
  /\ UNCHANGED <<seen, log>>

\* No room: dropped, and not acknowledged.
RecvDataOverflow(n) ==
  /\ Handle(n)
  /\ ForUs(n)
  /\ ~rx[n].ack
  /\ ~Contains(ec[n].dq, KeyOf(rx[n]))
  /\ ~HasRoomForPackets(ec[n].sq, 3)
  /\ UNCHANGED <<ec, seen, log>>

\* broadcast_recv for a packet straight from the sink: the same callback, no
\* ACK; a duplicate, or one there is no room for, is dropped.
RecvFromSink(n) ==
  /\ Handle(n)
  /\ rx[n].sender = Sink
  /\ IF ~Contains(ec[n].dq, KeyOf(rx[n])) /\ HasRoomForPackets(ec[n].sq, 3)
     THEN \E reply \in {FALSE, MayOriginate(n)} :
            LET c == Callback(ec[n], n, rx[n], reply)
            IN  /\ ec' = [ec EXCEPT ![n] =
                            StorePacketForDupeChecks(c, KeyOf(rx[n]))]
                /\ Deliver(n, rx[n], c)
     ELSE UNCHANGED <<ec, seen, log>>

-----------------------------------------------------------------------------
(* The application, the sink, and power failures. *)

\* Keep-alives, sensed emergencies and commands: a packet of the node's own.
AppBroadcast(n) ==
  /\ n \in up
  /\ MayOriginate(n)
  /\ ec' = [ec EXCEPT ![n] = OwnBroadcast(@, n)]
  /\ seen' = [seen EXCEPT ![n] = @ \cup {<<n, ec[n].seqno>>}]
  /\ UNCHANGED <<rx, up, life, sink_seqno, log>>

SinkBroadcast ==
  /\ sink_seqno < MaxFloods
  /\ sink_seqno' = sink_seqno + 1
  /\ Transmit(Sink, [ack |-> FALSE, originator |-> Sink, seqno |-> sink_seqno,
                     sender |-> Sink, to |-> Node, data |-> 0])
  /\ UNCHANGED <<ec, up, life, seen, log>>

Crash(n) ==
  /\ n \in up \cap Crashers
  /\ life[n] < MaxCrashes
  /\ up' = up \ {n}
  /\ ec' = [ec EXCEPT ![n] = ClosedEc]
  /\ rx' = [rx EXCEPT ![n] = NoFrame]
  /\ life' = [life EXCEPT ![n] = @ + 1]
  /\ log' = [log EXCEPT ![n] = << >>]
  /\ UNCHANGED <<sink_seqno, seen>>

\* reset_node_properties: cleared memory, the same neighbours from flash.
Restart(n) ==
  /\ n \notin up
  /\ up' = up \cup {n}
  /\ UNCHANGED <<ec, rx, life, sink_seqno, seen, log>>

SendData(n) == NoDataToSend(n) \/ SendFirstData(n) \/ GiveUpFirstData(n)

SendAck(n) == NoAckToSend(n) \/ SendFirstAck(n)

Recv(n) ==
  \/ RecvNotForUs(n)
  \/ RecvAck(n)
  \/ RecvAckForNonSentPacket(n)
  \/ RecvDupe(n)
  \/ RecvNewData(n)
  \/ RecvDataOverflow(n)
  \/ RecvFromSink(n)

Next ==
  \/ \E n \in Node : \/ SendData(n)
                     \/ SendAck(n)
                     \/ Recv(n)
                     \/ AppBroadcast(n)
                     \/ Crash(n)
                     \/ Restart(n)
  \/ SinkBroadcast

Spec == Init /\ [][Next]_vars

(* Timers fire, waiting frames are handled, and the radio does not report a  *)
(* collision for ever (a send that collides changes nothing, so it does not  *)
(* count as a step).  Nothing obliges the application, the sink or the power *)
(* supply, and no frame is ever obliged to arrive.                           *)
Fairness ==
  \A n \in Node : /\ WF_vars(SendData(n))
                  /\ WF_vars(SendAck(n))
                  /\ WF_vars(Recv(n))

FairSpec == Spec /\ Fairness

-----------------------------------------------------------------------------
(* Types. *)

BufferedPacket ==
  [type : PacketType, p : Packet, unacked_ns : SUBSET Node,
   times_sent : Nat]

PacketBufferRecord ==
  [queued : Seq(BufferedPacket), leftover : Seq(SUBSET Node),
   null_write : BOOLEAN]

EcRecord ==
  [sq : PacketBufferRecord, dq : Seq(Key), ack_timer : BOOLEAN,
   data_timer : BOOLEAN, seqno : 0..255]

\* Every variable has its type, and the duplicate queue its bounded length.
TypeOK ==
  /\ ec \in [Node -> EcRecord]
  /\ \A n \in Node : Len(ec[n].dq) <= DupeQueueLength
  /\ rx \in [Node -> Packet \cup {NoFrame}]
  /\ up \in SUBSET Node
  /\ life \in [Node -> Nat]
  /\ sink_seqno \in 0..MaxFloods
  /\ seen \in [Node -> SUBSET Key]
  /\ log \in [Node -> Seq(Packet)]

-----------------------------------------------------------------------------
(* Safety. *)

DataPositions(n) == OfType(ec[n].sq, NEIGHBOR_DATA)

AckPositions(n) == OfType(ec[n].sq, NEIGHBOR_ACK)

\* Every slot of the sending queue is in a list or free, through every
\* early return, give-up and misdirected acknowledgement.
NoSlotLost ==
  \A n \in Node :
    Len(ec[n].sq.queued) + Len(ec[n].sq.leftover) = SendingQueueLength

\* No lost wake-up: whatever freed, queued or collided last, a queued packet
\* always has its timer pending (the timers are only set by whoever queues or
\* frees, and are dropped when their handler finds nothing).
NoStalledPacket ==
  \A n \in Node : /\ DataPositions(n) # {} => ec[n].data_timer
                  /\ AckPositions(n) # {} => ec[n].ack_timer

\* Stop and wait: a data packet behind another one was never sent.  The loop
\* of send_neighbor_data and the order of delivery rest on it.
OnlyFirstSent ==
  \A n \in Node : \A i, j \in DataPositions(n) :
    i < j => ec[n].sq.queued[j].times_sent = 0

\* ASSERT(nsize != 0), emergency_conn.c:99: a data packet in the queue always
\* waits for someone, so that a retransmission has a receiver.
DataWaitsForSomeone ==
  \A n \in Node : \A i \in DataPositions(n) :
    ec[n].sq.queued[i].unacked_ns # {}

\* A neighbour is struck off a packet's list only if the packet has reached
\* its application, or was originated there: losses, duplicates, stale slots
\* and ACKs found for the wrong packet never confirm what was not received.
AckedWasSeen ==
  \A n \in Node : \A i \in DataPositions(n) :
    \A m \in Neighbors[n] \ ec[n].sq.queued[i].unacked_ns :
      KeyOf(ec[n].sq.queued[i].p) \in seen[m]

SameMessage(p, q) == KeyOf(p) = KeyOf(q) /\ p.data = q.data

\* The data packets that leave node n's queue in this step.
Leaving(n) ==
  {p \in {ec[n].sq.queued[i].p : i \in DataPositions(n)} :
     \A j \in DataPositions(n)' : ec'[n].sq.queued[j].p # p}

\* Reliability as the application sees it (emergency_conn.h:71): a packet that
\* is freed because every neighbour acknowledged it was handed to each of them,
\* payload and all, unless they made it themselves.
ConfirmedWasDelivered ==
  [][\A n \in Node : Handle(n) => \A p \in Leaving(n) : \A m \in Neighbors[n] :
       \/ p.originator = m
       \/ \E j \in DOMAIN log[m] : SameMessage(log[m][j], p)]_vars

\* Duplicate suppression: retransmissions, lost ACKs and copies forwarded by
\* several neighbours reach the application once.
DeliveredOnce ==
  \A m \in Node : \A i, j \in DOMAIN log[m] :
    SameMessage(log[m][i], log[m][j]) => i = j

\* In-order, emergency_conn.h:71: what a node, or the sink, makes and sends in
\* one life arrives from it in the order of its numbers, give-ups and stale
\* repeats included.
DeliveredInOrder ==
  \A m \in Node : \A i, j \in DOMAIN log[m] :
    (/\ i < j
     /\ log[m][i].sender = log[m][j].sender
     /\ log[m][i].originator = log[m][i].sender
     /\ log[m][j].originator = log[m][j].sender
     /\ log[m][i].data = log[m][j].data)
    => log[m][i].seqno <= log[m][j].seqno

\* The three reserved slots (emergency_conn.c:518) are enough: handing a new
\* packet to the application, with its forward, its reply and the ACK, never
\* adds to a full buffer.
ReservedRoomSuffices ==
  [][\A n \in Node : Len(log'[n]) > Len(log[n]) =>
       ec'[n].sq.null_write = ec[n].sq.null_write]_vars

-----------------------------------------------------------------------------
(* What it implements. *)

\* The element of M with i - 1 others below it.
Nth(M, i) == CHOOSE x \in M : Cardinality({y \in M : y < x}) = i - 1

\* The data packets of a queue, oldest first, as messages.
Messages(q) ==
  LET M == {i \in DOMAIN q : q[i].type = NEIGHBOR_DATA}
  IN  [i \in 1..Cardinality(M) |->
         [key     |-> KeyOf(q[Nth(M, i)].p),
          waiting |-> q[Nth(M, i)].unacked_ns,
          sent    |-> q[Nth(M, i)].times_sent]]

Outstanding == [n \in Node |-> Messages(ec[n].sq.queued)]

Reliable == INSTANCE ReliableBroadcast
              WITH Peers <- Neighbors, outstanding <- Outstanding, known <- seen,
                   Number <- 0..(MaxOwn + MaxFloods),
                   Attempts <- MaxTimesSent

\* The protocol implements the reliable broadcast of its header: a packet
\* leaves the queue only when all neighbours know it, or as the oldest, given up
\* after MaxTimesSent transmissions, or with the power; and nobody learns of a packet nobody originated.
ImplementsReliableBroadcast == Reliable!Spec

-----------------------------------------------------------------------------
(* Liveness, under FairSpec. *)

\* Every queued packet is sent, acknowledged or given up: whatever is lost and
\* whoever stays silent, a sending queue is empty again and again.
QueueDrains == \A n \in Node : []<>(ec[n].sq.queued = << >>)

=============================================================================
