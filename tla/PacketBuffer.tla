---------------------------- MODULE PacketBuffer ----------------------------
(***************************************************************************)
(* The sending queue of src/src/emergency_net/packet_buffer.[ch]: packets  *)
(* of several types share the slots of one queue_buffer, each type being a *)
(* FIFO list of its own (prio_heads).                                      *)
(*                                                                         *)
(* A buffer pb is the record                                               *)
(*   queued      the buffered packets in the order they were allocated;    *)
(*               the list of a type is the subsequence of that type        *)
(*   leftover    the free slots, next to be taken first; all that matters  *)
(*               of a free slot is the unacked_ns its last user left in it *)
(*   null_write  whether a packet was ever added to a full buffer          *)
(*                                                                         *)
(* allocate_buffered_packet hands the slot to add_buffered_packet_tail     *)
(* before anyone tests it for NULL, so adding to a full buffer writes      *)
(* through a null pointer.  On the MSP430 address 0 is writable and the    *)
(* lists are left as they were; null_write records that it happened.       *)
(***************************************************************************)
EXTENDS SequencesExt

CONSTANTS Node,                 \* the sensor nodes
          SendingQueueLength    \* slots in the sending queue

ASSUME BufferAssumption == SendingQueueLength \in 1..255

\* The type (priority) numbers of emergency_conn.c.
NEIGHBOR_ACK           == 0
NEIGHBOR_DATA          == 1
BROADCAST_DATA         == 2
MULTICAST_UNICAST_ACK  == 3
MULTICAST_UNICAST_DATA == 4
TIMESYNCH_DATA         == 5
MESH_DATA              == 6

PacketType == 0..6

\* packet_buffer_init, on memory that was cleared: no slot has leftovers.
EmptyBuffer ==
  [queued     |-> << >>,
   leftover   |-> [i \in 1..SendingQueueLength |-> {}],
   null_write |-> FALSE]

\* Mutant of HasRoomForPackets: off by one.
HasRoomButOne(pb, n) == Len(pb.queued) + n <= SendingQueueLength + 1

HasRoomForPackets(pb, n) == Len(pb.queued) + n <= SendingQueueLength

Full(pb) == pb.leftover = << >>

\* Mutant of AddPacket: the new packet becomes the head of its list.
AddPacketInFront(pb, type, p, ns) ==
  IF Full(pb)
  THEN [pb EXCEPT !.null_write = TRUE]
  ELSE [pb EXCEPT
          !.queued   = Cons([type |-> type, p |-> p, unacked_ns |-> ns,
                             times_sent |-> 0], @),
          !.leftover = Tail(@)]

\* packet_buffer_*_packet with a neighbour table: all of ns have yet to ack.
AddPacket(pb, type, p, ns) ==
  IF Full(pb)
  THEN [pb EXCEPT !.null_write = TRUE]
  ELSE [pb EXCEPT
          !.queued   = Append(@, [type |-> type, p |-> p, unacked_ns |-> ns,
                                  times_sent |-> 0]),
          !.leftover = Tail(@)]

\* packet_buffer_unicast_packet with ns = NULL: unacked_ns is not initialised
\* and keeps whatever the slot held.
AddUntrackedPacket(pb, type, p) ==
  IF Full(pb)
  THEN [pb EXCEPT !.null_write = TRUE]
  ELSE AddPacket(pb, type, p, Head(pb.leftover))

\* Mutant of FreePacket: the slot does not go back to the free ones.
FreePacketLeaks(pb, i) == [pb EXCEPT !.queued = RemoveAt(@, i)]

FreePacket(pb, i) ==
  [pb EXCEPT !.queued   = RemoveAt(@, i),
             !.leftover = Cons(pb.queued[i].unacked_ns, @)]

\* Mutant of NeighborAcked: the test is the wrong way round and the others are
\* struck off.
OthersAcked(pb, i, m) ==
  [pb EXCEPT !.queued[i].unacked_ns = @ \cap {m}]

NeighborAcked(pb, i, m) ==
  [pb EXCEPT !.queued[i].unacked_ns = @ \ {m}]

AllNeighborsAcked(pb, i) == pb.queued[i].unacked_ns = {}

\* Mutant of IncrementTimesSent: transmissions are not counted.
DoNotCount(pb, i) == pb

IncrementTimesSent(pb, i) ==
  [pb EXCEPT !.queued[i].times_sent = @ + 1]

\* Mutant of FirstOf: the lists are searched from their ends.
LastOf(pb, M) ==
  {i \in M : \A j \in M : \/ pb.queued[i].type < pb.queued[j].type
                          \/ pb.queued[i].type = pb.queued[j].type /\ i >= j}

\* The position, as a set of at most one element, that a search through the
\* lists in type order, each from its head, meets first among the positions M.
FirstOf(pb, M) ==
  {i \in M : \A j \in M : \/ pb.queued[i].type < pb.queued[j].type
                          \/ pb.queued[i].type = pb.queued[j].type /\ i <= j}

OfType(pb, type) == {i \in DOMAIN pb.queued : pb.queued[i].type = type}

\* packet_buffer_get_first_packet_from_type
FirstOfType(pb, type) == FirstOf(pb, OfType(pb, type))

\* packet_buffer_find_buffered_packet with originator_seqno_cmp: whatever the
\* type and the flags, the originator and its sequence number decide.
FindByOriginatorSeqno(pb, p) ==
  FirstOf(pb, {i \in DOMAIN pb.queued :
                 /\ pb.queued[i].p.originator = p.originator
                 /\ pb.queued[i].p.seqno = p.seqno})

\* packet_buffer_find_buffered_packet with unicast_packet_cmp: the whole header.
IsQueued(pb, p) == \E i \in DOMAIN pb.queued : pb.queued[i].p = p

=============================================================================
