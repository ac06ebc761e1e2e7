---------------------------- MODULE EmergencyConn ----------------------------
(***************************************************************************)
(* The other connections of src/src/emergency_net/emergency_conn.c: the    *)
(* broadcasts that flood the network (ec_broadcast), reliable multicast    *)
(* and unicast (ec_reliable_multicast, ec_reliable_unicast) and the mesh   *)
(* on which nodes report to the sink (ec_mesh).  All queue in the one      *)
(* sending queue and share the one duplicate queue of a node.              *)
(*                                                                         *)
(* The application above (main_reg_sensor.c) is modelled by what it does   *)
(* to the connection: it floods EMERGENCY, the sink floods EXTRACT_REPORT, *)
(* every node forwards what it hears for the first time, and answers the   *)
(* latter with a report.  Multicasts are a service of emergency_conn.h     *)
(* whose packet, IM_YOUR_NEW_NEIGHBOR, the application handles; its calls  *)
(* are commented out at main_reg_sensor.c:1018.                            *)
(*                                                                         *)
(* The neighbour connection is in NeighborConn and does not occupy the     *)
(* queue here.  Durations are left out: a pending timer may fire at any    *)
(* time.  A send that collides only sets its timer again, changes nothing  *)
(* else, and so is left out.  A frame is handled in the step that sends    *)
(* it: handling touches the receiver alone, so whatever else a node did    *)
(* between a frame's arrival and its handling, it might have done before.  *)
(***************************************************************************)
EXTENDS PacketBuffer, DupeQueue

CONSTANTS
  Sink,             \* the node at the serial line
  InRange,          \* who can hear each node
  Neighbors,        \* the neighbour table each node is set up with
  Receivers,        \* whom each node multicasts to, nobody or some
  MaxTimesSentMesh, \* attempts before a report is given up
  NoNode,           \* the null address, rimeaddr_null
  AlarmedNodes,     \* nodes that sense an emergency once
  Relays,           \* nodes over which the route replies of others pass
  MaxSinkPackets,   \* bound: packets of the sink, EXTRACT_REPORT or multicast
  MaxLosses         \* bound: frames the radio loses

ASSUME EmergencyConnAssumption ==
  /\ IsFiniteSet(Node) /\ Sink \in Node /\ NoNode \notin Node
  /\ InRange \in [Node -> SUBSET Node]
  /\ Neighbors \in [Node -> SUBSET Node]
  /\ Receivers \in [Node -> SUBSET Node]
  /\ \A n \in Node : n \notin InRange[n] /\ n \notin Receivers[n]
  /\ MaxTimesSentMesh \in 1..255 /\ DupeQueueLength \in 1..255
  /\ AlarmedNodes \subseteq Node \ {Sink} /\ Relays \subseteq Node \ {Sink}
  /\ MaxSinkPackets \in Nat /\ MaxLosses \in Nat

\* The types of sensor packets that use these connections.
EMERGENCY_PACKET      == "EMERGENCY_PACKET"
EXTRACT_REPORT_PACKET == "EXTRACT_REPORT_PACKET"
IM_YOUR_NEW_NEIGHBOR  == "IM_YOUR_NEW_NEIGHBOR"
NODE_REPORT_PACKET    == "NODE_REPORT_PACKET"

\* A packet, in the queue or on the air.  A broadcast is to every node, a
\* multicast or unicast to the nodes it names.
Packet ==
  [ack : BOOLEAN, originator : Node \cup {NoNode}, seqno : 0..255,
   sender : Node \cup {NoNode}, to : SUBSET Node,
   data : {EMERGENCY_PACKET, EXTRACT_REPORT_PACKET, IM_YOUR_NEW_NEIGHBOR,
           NODE_REPORT_PACKET, "none"}]

KeyOf(p) == <<p.originator, p.seqno>>

IsBroadcast(p) == p.to = Node

VARIABLES
  ec,       \* struct ec of each node, with the seqno of its application
  mesh,     \* the state of Contiki's mesh towards the sink, at each node
  failed,   \* nodes stopped by the ASSERT(0) of packet_buffer_free
  losses,
  floods,   \* history: keys of the packets that were broadcast
  handed,   \* history: keys of the packets handed to each application, in order
  missed    \* history: keys of frames each node did not take in

vars == <<ec, mesh, failed, losses, floods, handed, missed>>

Init ==
  /\ ec = [n \in Node |->
             [sq |-> EmptyBuffer, dq |-> << >>, ns |-> Neighbors[n], seqno |-> 0,
              broadcast_timer |-> FALSE, data_timer |-> FALSE,
              ack_timer |-> FALSE, mesh_timer |-> FALSE]]
  /\ mesh = [n \in Node |->
               [route |-> FALSE, queued_data |-> FALSE]]
  /\ failed = {}
  /\ losses = 0
  /\ floods = {}
  /\ handed = [n \in Node |-> << >>]
  /\ missed = [n \in Node |-> {}]

-----------------------------------------------------------------------------
(* The interface of emergency_conn.h, on the record c of one node. *)

\* ec_broadcast
EcBroadcast(c, n, key, data) ==
  StorePacketForDupeChecks(
    [c EXCEPT !.sq = AddPacket(@, BROADCAST_DATA,
                       [ack |-> FALSE, originator |-> key[1], seqno |-> key[2],
                        sender |-> n, to |-> Node, data |-> data], c.ns),
              !.broadcast_timer = TRUE], key)

\* ec_reliable_multicast, and ec_reliable_unicast if there is one receiver.
EcReliableMulticast(c, n, receivers, key, data) ==
  StorePacketForDupeChecks(
    [c EXCEPT !.sq = AddPacket(@, MULTICAST_UNICAST_DATA,
                       [ack |-> FALSE, originator |-> key[1], seqno |-> key[2],
                        sender |-> n, to |-> receivers, data |-> data], receivers),
              !.data_timer = TRUE], key)

\* ec_mesh
EcMesh(c, destination, seqno, data) ==
  [c EXCEPT !.sq = AddUntrackedPacket(@, MESH_DATA,
                     [ack |-> FALSE, originator |-> NoNode, seqno |-> seqno,
                      sender |-> NoNode, to |-> {destination}, data |-> data]),
            !.mesh_timer = TRUE]

\* What the application of node n does with the packets of these connections.
Callback(c, n, p) ==
  CASE p.data = IM_YOUR_NEW_NEIGHBOR -> [c EXCEPT !.ns = @ \cup {p.originator}]
    [] IsBroadcast(p) /\ n = Sink -> c
    [] p.data = EMERGENCY_PACKET /\ n # Sink -> EcBroadcast(c, n, KeyOf(p), p.data)
    [] p.data = EXTRACT_REPORT_PACKET /\ n # Sink ->
         LET forwarded == EcBroadcast(c, n, KeyOf(p), p.data)
         IN  EcMesh([forwarded EXCEPT !.seqno = (@ + 1) % 256], p.originator,
                    c.seqno, NODE_REPORT_PACKET)

-----------------------------------------------------------------------------
(* broadcast_recv: the record c of node n after the frame p. *)

AckPacket(n, p) ==
  [ack |-> TRUE, originator |-> p.originator, seqno |-> p.seqno, sender |-> n,
   to |-> {p.sender}, data |-> "none"]

\* Multicasts and unicasts are acknowledged, unless the ACK waits already.
QueueAck(c, n, p) ==
  IF IsBroadcast(p) \/ IsQueued(c.sq, AckPacket(n, p))
  THEN c
  ELSE [c EXCEPT !.sq = AddUntrackedPacket(@, MULTICAST_UNICAST_ACK, AckPacket(n, p)),
                 !.ack_timer = TRUE]

\* The packet found is whichever comes first in type order.
AckReceived(c, p) ==
  LET found == FindByOriginatorSeqno(c.sq, p)
  IN  IF found = {}
      THEN c
      ELSE LET i  == CHOOSE i \in found : TRUE
               sq == NeighborAcked(c.sq, i, p.sender)
           IN  IF AllNeighborsAcked(sq, i)
               THEN [c EXCEPT !.sq = FreePacket(sq, i), !.data_timer = TRUE]
               ELSE [c EXCEPT !.sq = sq]

IsNew(c, p) == ~p.ack /\ ~Contains(c.dq, KeyOf(p))

\* Room for an ACK, a forwarded packet and one of the application's own.
HasRoom(c) == HasRoomForPackets(c.sq, 3)

\* Mutant of Received: a packet there is no room for is acknowledged.
ReceivedAcksAll(c, n, p) ==
  CASE p.ack       -> AckReceived(c, p)
    [] ~p.ack /\ ~IsNew(c, p) -> QueueAck(c, n, p)
    [] IsNew(c, p) /\ HasRoom(c) ->
         QueueAck(StorePacketForDupeChecks(Callback(c, n, p), KeyOf(p)), n, p)
    [] IsNew(c, p) /\ ~HasRoom(c) -> QueueAck(c, n, p)

\* A new packet there is no room for is dropped, and not acknowledged.
Received(c, n, p) ==
  CASE p.ack -> AckReceived(c, p)
    [] ~p.ack /\ ~IsNew(c, p) -> QueueAck(c, n, p)
    [] IsNew(c, p) /\ HasRoom(c) ->
         QueueAck(StorePacketForDupeChecks(Callback(c, n, p), KeyOf(p)), n, p)
    [] IsNew(c, p) /\ ~HasRoom(c) -> c

-----------------------------------------------------------------------------
(* The senders: a timer of node n fires. *)

TimerFires(n, timer) == n \notin failed /\ timer

\* Node n, whose record becomes c, sends frame to the nodes in range that it is
\* for.  It is lost at some of them.
Transmit(n, c, frame) ==
  LET hearers == (InRange[n] \cap frame.to) \ failed
  IN  \E lost \in SUBSET hearers :
        /\ losses' = losses + Cardinality(lost) /\ losses' <= MaxLosses
        /\ ec' = [m \in Node |->
             IF m = n THEN c
             ELSE IF m \in hearers \ lost THEN Received(ec[m], m, frame)
             ELSE ec[m]]
        /\ handed' = [m \in Node |->
             IF m \in hearers \ lost /\ IsNew(ec[m], frame) /\ HasRoom(ec[m])
             THEN Append(handed[m], KeyOf(frame)) ELSE handed[m]]
        /\ missed' = [m \in Node |->
             IF m \in lost \/ (m \in hearers /\ IsNew(ec[m], frame) /\ ~HasRoom(ec[m]))
             THEN missed[m] \cup {KeyOf(frame)} ELSE missed[m]]
        /\ UNCHANGED <<mesh, failed, floods>>

\* A timer fires although nothing is left to send.
NothingToSend(n) ==
  /\ n \notin failed
  /\ \/ /\ ec[n].broadcast_timer /\ FirstOfType(ec[n].sq, BROADCAST_DATA) = {}
        /\ ec' = [ec EXCEPT ![n].broadcast_timer = FALSE]
     \/ /\ ec[n].data_timer /\ FirstOfType(ec[n].sq, MULTICAST_UNICAST_DATA) = {}
        /\ ec' = [ec EXCEPT ![n].data_timer = FALSE]
     \/ /\ ec[n].ack_timer /\ FirstOfType(ec[n].sq, MULTICAST_UNICAST_ACK) = {}
        /\ ec' = [ec EXCEPT ![n].ack_timer = FALSE]
     \/ /\ ec[n].mesh_timer /\ FirstOfType(ec[n].sq, MESH_DATA) = {}
        /\ ec' = [ec EXCEPT ![n].mesh_timer = FALSE]
  /\ UNCHANGED <<mesh, failed, losses, floods, handed, missed>>

\* Mutant of SendBroadcastData: the timer is not set for the next packet.
SendBroadcastDataOnce(n) ==
  /\ TimerFires(n, ec[n].broadcast_timer)
  /\ \E i \in FirstOfType(ec[n].sq, BROADCAST_DATA) :
       Transmit(n, [ec[n] EXCEPT !.sq = FreePacket(@, i), !.broadcast_timer = FALSE],
                ec[n].sq.queued[i].p)

\* A broadcast is sent once and leaves the queue.
SendBroadcastData(n) ==
  /\ TimerFires(n, ec[n].broadcast_timer)
  /\ \E i \in FirstOfType(ec[n].sq, BROADCAST_DATA) :
       LET sq == FreePacket(ec[n].sq, i)
       IN  Transmit(n, [ec[n] EXCEPT !.sq = sq,
                                     !.broadcast_timer = OfType(sq, BROADCAST_DATA) # {}],
                    ec[n].sq.queued[i].p)

\* The first multicast goes to those that have yet to acknowledge it, again and
\* again: nothing reads how often it was sent, so that is not counted here.
SendMulticastUnicastData(n) ==
  /\ TimerFires(n, ec[n].data_timer)
  /\ \E i \in FirstOfType(ec[n].sq, MULTICAST_UNICAST_DATA) :
       Transmit(n, ec[n],
                [ec[n].sq.queued[i].p EXCEPT !.to = ec[n].sq.queued[i].unacked_ns])

SendMulticastUnicastAck(n) ==
  /\ TimerFires(n, ec[n].ack_timer)
  /\ \E i \in FirstOfType(ec[n].sq, MULTICAST_UNICAST_ACK) :
       LET sq == FreePacket(ec[n].sq, i)
       IN  Transmit(n, [ec[n] EXCEPT !.sq = sq,
                                     !.ack_timer = OfType(sq, MULTICAST_UNICAST_ACK) # {}],
                    ec[n].sq.queued[i].p)

-----------------------------------------------------------------------------
(* send_mesh_data and the mesh of Contiki as it uses it: a packet goes out   *)
(* at once if there is a route, or else waits while a route is looked for    *)
(* (queued_data), the last one in place of any other.                        *)

\* meshdata_sent: the first report is freed, whichever was sent.  If there is
\* none, packet_buffer_free(NULL) stops the node.
MeshdataSent(n, c) ==
  LET reports == FirstOfType(c.sq, MESH_DATA)
  IN  IF reports = {}
      THEN ec' = [ec EXCEPT ![n] = c] /\ failed' = failed \cup {n}
      ELSE /\ \E i \in reports :
                ec' = [ec EXCEPT ![n] = [c EXCEPT !.sq = FreePacket(@, i),
                                                  !.mesh_timer = TRUE]]
           /\ UNCHANGED failed

\* mesh_send of report i of the record c, its timer having fired.
MeshSend(n, c, i) ==
  LET sent == [c EXCEPT !.sq = IncrementTimesSent(@, i), !.mesh_timer = FALSE]
  IN  \/ /\ mesh[n].route
         /\ MeshdataSent(n, sent)
         /\ UNCHANGED mesh
      \/ /\ ~mesh[n].route
         /\ mesh' = [mesh EXCEPT ![n].queued_data = TRUE]
         /\ ec' = [ec EXCEPT ![n] = sent]
         /\ UNCHANGED failed

\* The first report is sent; one that was sent too often makes way for the next.
SendMeshData(n) ==
  /\ n \notin failed
  /\ ec[n].mesh_timer
  /\ \E i \in FirstOfType(ec[n].sq, MESH_DATA) :
       LET c    == IF ec[n].sq.queued[i].times_sent < MaxTimesSentMesh
                   THEN ec[n] ELSE [ec[n] EXCEPT !.sq = FreePacket(@, i)]
           next == FirstOfType(c.sq, MESH_DATA)
       IN  \/ \E j \in next : MeshSend(n, c, j)
           \/ /\ next = {}
              /\ ec' = [ec EXCEPT ![n] = [c EXCEPT !.mesh_timer = FALSE]]
              /\ UNCHANGED <<mesh, failed>>
  /\ UNCHANGED <<losses, floods, handed, missed>>

\* found_route: the reply arrives, and what the mesh has queued is sent.
FoundRoute(n) ==
  /\ n \notin failed
  /\ mesh[n].queued_data
  /\ mesh' = [mesh EXCEPT ![n] = [route |-> TRUE, queued_data |-> FALSE]]
  /\ MeshdataSent(n, ec[n])
  /\ UNCHANGED <<losses, floods, handed, missed>>

\* Mutant of RouteTimedOut: meshdata_timeout does not set the timer.
RouteTimedOutQuietly(n) ==
  /\ n \notin failed
  /\ mesh[n].queued_data
  /\ mesh' = [mesh EXCEPT ![n].queued_data = FALSE]
  /\ UNCHANGED <<ec, failed, losses, floods, handed, missed>>

\* route_timed_out and meshdata_timeout: the report is tried again.
RouteTimedOut(n) ==
  /\ n \notin failed
  /\ mesh[n].queued_data
  /\ mesh' = [mesh EXCEPT ![n].queued_data = FALSE]
  /\ ec' = [ec EXCEPT ![n].mesh_timer = TRUE]
  /\ UNCHANGED <<failed, losses, floods, handed, missed>>

\* A node that passes on another node's route reply from the sink enters the
\* route in its table, too.  Routes that are not used age and go.
RouteChanges(n) ==
  /\ n \notin failed
  /\ mesh[n].route \/ n \in Relays
  /\ mesh' = [mesh EXCEPT ![n].route = ~@]
  /\ UNCHANGED <<ec, failed, losses, floods, handed, missed>>

-----------------------------------------------------------------------------
(* What the applications originate. *)

OwnKey(n) == <<n, ec[n].seqno>>

Counted(c) == [c EXCEPT !.seqno = (@ + 1) % 256]

\* send_emergency_packet and the sink's command extract_report_packet
AppBroadcast(n, data) ==
  /\ n \notin failed
  /\ ec' = [ec EXCEPT ![n] = EcBroadcast(Counted(@), n, OwnKey(n), data)]
  /\ floods' = floods \cup {OwnKey(n)}
  /\ UNCHANGED <<mesh, failed, losses, handed, missed>>

SenseEmergency(n) ==
  /\ n \in AlarmedNodes
  /\ \A key \in floods : key[1] # n
  /\ AppBroadcast(n, EMERGENCY_PACKET)

ExtractReports ==
  /\ ec[Sink].seqno < MaxSinkPackets
  /\ AppBroadcast(Sink, EXTRACT_REPORT_PACKET)

\* A node multicasts once: before it sent anything of its own.
AppMulticast(n) ==
  /\ n \notin failed
  /\ Receivers[n] # {} /\ ec[n].seqno = 0
  /\ ec' = [ec EXCEPT ![n] = EcReliableMulticast(Counted(@), n, Receivers[n],
                                                 OwnKey(n), IM_YOUR_NEW_NEIGHBOR)]
  /\ UNCHANGED <<mesh, failed, losses, floods, handed, missed>>

Next ==
  \/ \E n \in Node : \/ NothingToSend(n)
                     \/ SendBroadcastData(n)
                     \/ SendMulticastUnicastData(n)
                     \/ SendMulticastUnicastAck(n)
                     \/ SendMeshData(n)
                     \/ FoundRoute(n)
                     \/ RouteTimedOut(n)
                     \/ RouteChanges(n)
                     \/ SenseEmergency(n)
                     \/ AppMulticast(n)
  \/ ExtractReports

Spec == Init /\ [][Next]_vars

-----------------------------------------------------------------------------
BufferedPacket ==
  [type : PacketType, p : Packet, unacked_ns : SUBSET Node, times_sent : 0..MaxTimesSentMesh]

Key == Node \X (0..255)

EcRecord ==
  [sq : [queued : Seq(BufferedPacket), leftover : Seq(SUBSET Node), null_write : BOOLEAN],
   dq : Seq(Key), ns : SUBSET Node, seqno : 0..255, broadcast_timer : BOOLEAN, data_timer : BOOLEAN,
   ack_timer : BOOLEAN, mesh_timer : BOOLEAN]

\* Every variable has its type, every slot of a sending queue is in a list or
\* free, and a report is tried no more often than it may be.
TypeOK ==
  /\ ec \in [Node -> EcRecord]
  /\ \A n \in Node :
       Len(ec[n].sq.queued) + Len(ec[n].sq.leftover) = SendingQueueLength
  /\ mesh \in [Node -> [route : BOOLEAN, queued_data : BOOLEAN]]
  /\ failed \subseteq Node
  /\ losses \in 0..MaxLosses
  /\ floods \subseteq Key
  /\ handed \in [Node -> Seq(Key)]
  /\ missed \in [Node -> SUBSET Key]

-----------------------------------------------------------------------------
\* Nothing is about to be sent or handled for the floods.
FloodsOver == \A n \in Node : ~ec[n].broadcast_timer

\* The floods node n sends on: its own, and unless it is the sink those it heard.
SendsOn(n) ==
  {key \in ToSet(ec[n].dq) \cap floods : n # Sink \/ key[1] = Sink}

\* Flooding (the doc comment of ec_broadcast's callback, emergency_conn.h:65):
\* when all is quiet, whoever is in range of a node that has a flooded packet has
\* it too, or lost a frame of it, or had no room.  However floods cross in the
\* queues, none is left behind in one.
FloodReaches ==
  FloodsOver => \A m \in Node : \A n \in InRange[m] : \A key \in SendsOn(m) :
    \/ key \in ToSet(ec[n].dq) \cup missed[n]
    \/ n \in failed

MulticastsOf(n) ==
  {ec[n].sq.queued[i].p : i \in OfType(ec[n].sq, MULTICAST_UNICAST_DATA)}

\* Reliable multicast: a packet leaves the queue only when every node it names
\* has handed it to its application, however often it and its ACKs were lost and
\* whatever else was queued with the same slots.
ConfirmedWasHanded ==
  [][\A n \in Node : \A p \in MulticastsOf(n) \ MulticastsOf(n)' :
       \A m \in p.to : KeyOf(p) \in ToSet(handed[m])]_vars

\* packet_buffer_free finds what it is to free ("Should never happen",
\* packet_buffer.c:189).
FreesWhatIsQueued == failed = {}

\* A report in the queue is about to be tried again, or the mesh looks for its
\* route: whichever way the attempts end, none is forgotten in the slot of the
\* sending queue that the floods need (the two callbacks of emergency_conn.c:808
\* are all that wakes the reports).
ReportNotStranded ==
  \A n \in Node \ failed : OfType(ec[n].sq, MESH_DATA) # {} =>
    ec[n].mesh_timer \/ mesh[n].queued_data

=============================================================================
