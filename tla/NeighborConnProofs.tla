------------------------- MODULE NeighborConnProofs -------------------------
(***************************************************************************)
(* For every network, neighbour table, radio range, queue length, number   *)
(* of crashes: the neighbour connection keeps its types and its slots,     *)
(* strikes a neighbour off a packet's list only if the packet got there,   *)
(* never stalls, delivers in order and no packet twice while it remembers  *)
(* it, and implements the reliable broadcast of its header.                *)
(***************************************************************************)
EXTENDS NeighborConn, PacketBufferProofs

-----------------------------------------------------------------------------
(* The inductive invariant.  AckedWasSeen speaks of the data packets of a  *)
(* queue; to survive the arrival of an ACK it needs the same of the ACKs   *)
(* on the air, hence of the ACKs in the queues they come from, hence of    *)
(* the duplicate queue that makes a node repeat an ACK.  Nobody learns of  *)
(* a packet nobody originated if that is so of all frames and queues.      *)

\* The keys of packets that somebody originated, when sn is what each node has
\* seen.
Genuine(sn) ==
  {key \in Key \cap (Node \cup {Sink}) \X (0..(MaxOwn + MaxFloods)) :
     key[1] = Sink \/ key \in sn[key[1]]}

\* The packets that may be queued at n.
GoodEntries(n, sn) ==
  {b \in BufferedPacket :
     /\ KeyOf(b.p) \in sn[n]
     /\ b.p.ack => b.p.sender = n
     /\ b.type = NEIGHBOR_DATA =>
          \A m \in Neighbors[n] \ b.unacked_ns : KeyOf(b.p) \in sn[m]}

GoodEcs(n, sn) ==
  {c \in [sq : BufferOf(GoodEntries(n, sn)), dq : Seq(sn[n]),
          ack_timer : BOOLEAN, data_timer : BOOLEAN, seqno : 0..255] :
     Len(c.dq) <= DupeQueueLength}

GoodFrames(sn) ==
  {p \in Packet : /\ KeyOf(p) \in Genuine(sn)
                  /\ p.ack => p.sender \in Node /\ KeyOf(p) \in sn[p.sender]}

Histories == {sn \in [Node -> SUBSET Key] : \A n \in Node : sn[n] \subseteq Genuine(sn)}

Grows(sn, tn) == \A n \in Node : sn[n] \subseteq tn[n]

EcInv == /\ ec \in [Node -> EcRecord]
         /\ \A n \in Node : ec[n] \in GoodEcs(n, seen)

RxInv == rx \in [Node -> GoodFrames(seen) \cup {NoFrame}]

RestInv == /\ up \in SUBSET Node
           /\ life \in [Node -> Nat]
           /\ sink_seqno \in 0..MaxFloods
           /\ seen \in Histories
           /\ log \in [Node -> Seq(Packet)]

IInv == EcInv /\ RxInv /\ RestInv

-----------------------------------------------------------------------------
(* What is good stays good while more is seen. *)

\* A queued packet.
LEMMA GoodEntriesMonotonic ==
  ASSUME NEW n \in Node, NEW sn, NEW tn, Grows(sn, tn)
  PROVE  GoodEntries(n, sn) \subseteq GoodEntries(n, tn)
<1>1. \A m \in Neighbors[n] : m \in Node  BY NeighborConnAssumption
<1> QED  BY <1>1 DEF GoodEntries, Grows

\* A node's struct ec.
LEMMA GoodEcsMonotonic ==
  ASSUME NEW n \in Node, NEW sn, NEW tn, Grows(sn, tn), NEW c \in GoodEcs(n, sn)
  PROVE  c \in GoodEcs(n, tn)
<1>1. c.sq \in BufferOf(GoodEntries(n, tn))
  <2>1. c.sq \in BufferOf(GoodEntries(n, sn))  BY DEF GoodEcs
  <2> QED  BY <2>1, GoodEntriesMonotonic, BufferOfMonotonic
<1>2. c.dq \in Seq(tn[n])
  <2>1. c.dq \in Seq(sn[n]) /\ sn[n] \subseteq tn[n]  BY DEF GoodEcs, Grows
  <2> QED  BY <2>1, SeqMonotonic
<1> QED  BY <1>1, <1>2 DEF GoodEcs

\* What was originated.
LEMMA GenuineMonotonic ==
  ASSUME NEW sn, NEW tn, Grows(sn, tn)
  PROVE  Genuine(sn) \subseteq Genuine(tn)
BY DEF Genuine, Grows, Key

\* A node learns of something that was originated, now or before.
LEMMA HistoryExtended ==
  ASSUME NEW sn \in Histories, NEW n \in Node, NEW K \in SUBSET Key,
         NEW tn, tn = [sn EXCEPT ![n] = @ \cup K], K \subseteq Genuine(tn)
  PROVE  tn \in Histories /\ Grows(sn, tn) /\ K \subseteq tn[n]
<1>1. sn \in [Node -> SUBSET Key] /\ \A m \in Node : sn[m] \subseteq Genuine(sn)
  BY DEF Histories
<1>2. tn \in [Node -> SUBSET Key]  BY <1>1
<1>3. Grows(sn, tn) /\ K \subseteq tn[n]  BY <1>1 DEF Grows
<1>4. Genuine(sn) \subseteq Genuine(tn)  BY <1>3, GenuineMonotonic
<1>5. \A m \in Node : tn[m] \subseteq Genuine(tn)
  <2> TAKE m \in Node
  <2>1. CASE m = n  BY <2>1, <1>1, <1>4
  <2>2. CASE m # n  BY <2>2, <1>1, <1>4
  <2> QED  BY <2>1, <2>2
<1> QED  BY <1>2, <1>3, <1>5 DEF Histories

\* A node's own packet, once it knows of it.
LEMMA OwnIsGenuine ==
  ASSUME NEW sn, NEW n \in Node, NEW k \in 0..255, k < MaxOwn, <<n, k>> \in sn[n]
  PROVE  <<n, k>> \in Key /\ <<n, k>> \in Genuine(sn)
<1>1. k \in 0..(MaxOwn + MaxFloods)  BY NeighborConnAssumption
<1> QED  BY <1>1 DEF Genuine, Key

\* A frame.
LEMMA GoodFramesMonotonic ==
  ASSUME NEW sn, NEW tn, Grows(sn, tn)
  PROVE  GoodFrames(sn) \subseteq GoodFrames(tn)
BY GenuineMonotonic DEF GoodFrames, Grows

\* A good struct ec has its type.
LEMMA GoodEcsTyped ==
  ASSUME NEW n \in Node, NEW sn \in Histories, NEW c \in GoodEcs(n, sn)
  PROVE  c \in EcRecord
<1>1. c.sq \in PacketBufferRecord
  <2>1. c.sq \in BufferOf(GoodEntries(n, sn))  BY DEF GoodEcs
  <2>2. GoodEntries(n, sn) \subseteq BufferedPacket  BY DEF GoodEntries
  <2>3. c.sq \in BufferOf(BufferedPacket)  BY <2>1, <2>2, BufferOfMonotonic
  <2> QED  BY <2>3 DEF BufferOf, PacketBufferRecord
<1>2. c.dq \in Seq(Key)
  <2>1. c.dq \in Seq(sn[n]) /\ sn[n] \subseteq Key  BY DEF GoodEcs, Histories
  <2> QED  BY <2>1, SeqMonotonic
<1> QED  BY <1>1, <1>2 DEF GoodEcs, EcRecord

-----------------------------------------------------------------------------
(* The operators on one node's struct ec keep it good. *)

\* Remembering a key that has been seen.
LEMMA StoreGood ==
  ASSUME NEW n \in Node, NEW sn \in Histories, NEW c \in GoodEcs(n, sn),
         NEW key \in sn[n]
  PROVE  /\ StorePacketForDupeChecks(c, key) \in GoodEcs(n, sn)
         /\ StorePacketForDupeChecks(c, key).seqno = c.seqno
<1> DEFINE S == sn[n]
           d == c.dq
           kept == IF Len(d) < DupeQueueLength THEN d ELSE Front(d)
<1>1. d \in Seq(S) /\ Len(d) <= DupeQueueLength /\ Len(d) \in Nat
  BY LenProperties DEF GoodEcs
<1>2. DupeQueueLength \in 1..255  BY NeighborConnAssumption
<1>3. kept \in Seq(S) /\ Len(kept) \in Nat /\ Len(kept) < DupeQueueLength
  <2>1. CASE Len(d) < DupeQueueLength  BY <2>1, <1>1
  <2>2. CASE ~(Len(d) < DupeQueueLength)
    <3>1. d # << >>  BY <2>2, <1>1, <1>2, EmptySeq
    <3>2. Front(d) \in Seq(S) /\ Len(Front(d)) = Len(d) - 1
      <4> HIDE DEF d, S
      <4> QED  BY <3>1, <1>1, FrontProperties
    <3>3. kept = Front(d)  BY <2>2
    <3> HIDE DEF kept, d
    <3> QED  BY <3>2, <3>3, <1>1, <1>2, LenProperties
  <2> QED  BY <2>1, <2>2
<1> HIDE DEF kept
<1>4. Cons(key, kept) \in Seq(S) /\ Len(Cons(key, kept)) = Len(kept) + 1
  <2> HIDE DEF S
  <2>1. key \in S  BY DEF S
  <2> QED  BY <2>1, <1>3, ConsProperties
<1>5. CASE Contains(c.dq, key)
  BY <1>5 DEF StorePacketForDupeChecks
<1>6. CASE ~Contains(c.dq, key)
  <2> DEFINE d2 == Cons(key, kept)
  <2>1. StorePacketForDupeChecks(c, key) = [c EXCEPT !.dq = d2]
    BY <1>6 DEF StorePacketForDupeChecks, kept
  <2>2. d2 \in Seq(sn[n]) /\ Len(d2) <= DupeQueueLength
    <3> HIDE DEF S
    <3>1. d2 \in Seq(S) /\ Len(d2) = Len(kept) + 1  BY <1>4
    <3> HIDE DEF d2
    <3>2. Len(d2) <= DupeQueueLength  BY <3>1, <1>3, <1>2
    <3> QED  BY <3>1, <3>2 DEF S
  <2> HIDE DEF d2
  <2> QED  BY <2>1, <2>2 DEF GoodEcs
<1> QED  BY <1>5, <1>6

\* Queueing a packet for all neighbours.
LEMMA ReliableBroadcastGood ==
  ASSUME NEW n \in Node, NEW sn \in Histories, NEW c \in GoodEcs(n, sn),
         NEW key \in sn[n], NEW data \in Nat
  PROVE  /\ ReliableBroadcastNs(c, n, key, data) \in GoodEcs(n, sn)
         /\ ReliableBroadcastNs(c, n, key, data).seqno = c.seqno
<1>1. CASE Neighbors[n] = {}  BY <1>1 DEF ReliableBroadcastNs
<1>2. CASE Neighbors[n] # {}
  <2> DEFINE p == BroadcastPacket(n, key, data)
             b == [type |-> NEIGHBOR_DATA, p |-> p, unacked_ns |-> Neighbors[n],
                   times_sent |-> 0]
             sq2 == AddPacket(c.sq, NEIGHBOR_DATA, p, Neighbors[n])
             c2 == [c EXCEPT !.sq = sq2, !.data_timer = TRUE]
  <2>1. key \in Key  BY DEF Histories
  <2>2. p \in Packet /\ p.ack = FALSE
    BY <2>1 DEF BroadcastPacket, Packet, Key
  <2>3. Neighbors[n] \in SUBSET Node  BY NeighborConnAssumption
  <2>4. b \in GoodEntries(n, sn)
    <3>1. KeyOf(p) = key  BY <2>1 DEF BroadcastPacket, KeyOf, Key
    <3> HIDE DEF p
    <3> QED
      BY <2>2, <2>3, <3>1 DEF GoodEntries, BufferedPacket, PacketType, NEIGHBOR_DATA
  <2>5. c.sq \in BufferOf(GoodEntries(n, sn))  BY DEF GoodEcs
  <2>6. sq2 \in BufferOf(GoodEntries(n, sn))
    <3> HIDE DEF p
    <3> QED  BY <2>4, <2>5, AddPacketProperties
  <2> HIDE DEF sq2
  <2>7. c2 \in GoodEcs(n, sn) /\ c2.seqno = c.seqno  BY <2>6 DEF GoodEcs
  <2>8. ReliableBroadcastNs(c, n, key, data) = StorePacketForDupeChecks(c2, key)
    BY <1>2 DEF ReliableBroadcastNs, sq2
  <2> HIDE DEF c2
  <2> QED  BY <2>7, <2>8, StoreGood
<1> QED  BY <1>1, <1>2

\* A packet of the node's own.
LEMMA OwnBroadcastGood ==
  ASSUME NEW n \in Node, NEW sn \in Histories, NEW c \in GoodEcs(n, sn),
         <<n, c.seqno>> \in sn[n], c.seqno < MaxOwn, life[n] \in Nat
  PROVE  /\ OwnBroadcast(c, n) \in GoodEcs(n, sn)
         /\ OwnBroadcast(c, n).seqno = c.seqno + 1
<1> DEFINE c2 == [c EXCEPT !.seqno = @ + 1]
           key == <<n, c.seqno>>
<1>1. c2 \in GoodEcs(n, sn) /\ c2.seqno = c.seqno + 1
  <2> DEFINE s == c.seqno + 1
  <2>1. c.seqno \in 0..255 /\ MaxOwn \in 0..255
    BY NeighborConnAssumption DEF GoodEcs
  <2>2. s \in 0..255  BY <2>1
  <2> HIDE DEF s
  <2>3. [c EXCEPT !.seqno = s] \in GoodEcs(n, sn)  BY <2>2 DEF GoodEcs
  <2>4. [c EXCEPT !.seqno = s].seqno = s  BY DEF GoodEcs
  <2> QED  BY <2>3, <2>4 DEF s
<1>2. key \in sn[n]  OBVIOUS
<1>3. OwnBroadcast(c, n) = ReliableBroadcastNs(c2, n, key, life[n])
  BY DEF OwnBroadcast
<1> HIDE DEF c2, key
<1> QED  BY <1>1, <1>2, <1>3, ReliableBroadcastGood

\* Queueing an ACK for a packet that has been seen.
LEMMA QueueAckGood ==
  ASSUME NEW n \in Node, NEW sn \in Histories, NEW c \in GoodEcs(n, sn),
         NEW p \in Packet, p.sender \in Node, KeyOf(p) \in sn[n]
  PROVE  QueueAck(c, n, p) \in GoodEcs(n, sn)
<1> DEFINE a == AckPacket(n, p)
           sq2 == AddUntrackedPacket(c.sq, NEIGHBOR_ACK, a)
           Entry(ns) == [type |-> NEIGHBOR_ACK, p |-> a, unacked_ns |-> ns,
                         times_sent |-> 0]
<1>1. CASE IsQueued(c.sq, a)  BY <1>1 DEF QueueAck
<1>2. CASE ~IsQueued(c.sq, a)
  <2>1. a \in Packet /\ a.ack /\ a.sender = n /\ KeyOf(a) = KeyOf(p)
    <3>1. {p.sender} \in SUBSET Node  OBVIOUS
    <3> QED  BY <3>1 DEF AckPacket, Packet, KeyOf
  <2>2. c.sq \in BufferOf(GoodEntries(n, sn))  BY DEF GoodEcs
  <2>3. \A ns \in SUBSET Node : Entry(ns) \in GoodEntries(n, sn)
    <3> HIDE DEF a
    <3> QED  BY <2>1 DEF GoodEntries, BufferedPacket, PacketType, NEIGHBOR_ACK,
                         NEIGHBOR_DATA
  <2>4. sq2 \in BufferOf(GoodEntries(n, sn))
    <3> HIDE DEF a
    <3> QED  BY <2>2, <2>3, AddUntrackedPacketProperties
  <2> HIDE DEF sq2
  <2>5. QueueAck(c, n, p) = [c EXCEPT !.sq = sq2, !.ack_timer = TRUE]
    BY <1>2 DEF QueueAck, sq2
  <2> QED  BY <2>4, <2>5 DEF GoodEcs
<1> QED  BY <1>1, <1>2

\* A buffer in which a packet was sent once more.
LEMMA IncrementGood ==
  ASSUME NEW n \in Node, NEW sn, NEW sq \in BufferOf(GoodEntries(n, sn)),
         NEW i \in DOMAIN sq.queued
  PROVE  IncrementTimesSent(sq, i) \in BufferOf(GoodEntries(n, sn))
<1> DEFINE b == sq.queued[i]
           b2 == [b EXCEPT !.times_sent = @ + 1]
<1>1. b \in GoodEntries(n, sn)  BY BufferElement
<1>2. b2 \in GoodEntries(n, sn)
  <2> HIDE DEF b
  <2> QED  BY <1>1 DEF GoodEntries, BufferedPacket
<1>3. IncrementTimesSent(sq, i) = [sq EXCEPT !.queued[i] = b2]
  BY DEF IncrementTimesSent
<1> HIDE DEF b2
<1> QED  BY <1>2, <1>3, UpdatePacketProperties

\* A buffer from which a packet was freed.
LEMMA FreeGood ==
  ASSUME NEW n \in Node, NEW sn, NEW sq \in BufferOf(GoodEntries(n, sn)),
         NEW i \in DOMAIN sq.queued
  PROVE  FreePacket(sq, i) \in BufferOf(GoodEntries(n, sn))
<1>1. \A b \in GoodEntries(n, sn) : b.unacked_ns \in SUBSET Node
  BY DEF GoodEntries, BufferedPacket
<1> QED  BY <1>1, FreePacketProperties

\* A buffer in which neighbour m was struck off the packet found for an ACK:
\* the packet's key, which is the ACK's, was seen by m.
LEMMA AckedGood ==
  ASSUME NEW n \in Node, NEW sn, NEW sq \in BufferOf(GoodEntries(n, sn)),
         NEW p, NEW m \in Node, KeyOf(p) \in sn[m],
         NEW i \in FindByOriginatorSeqno(sq, p)
  PROVE  /\ NeighborAcked(sq, i, m) \in BufferOf(GoodEntries(n, sn))
         /\ i \in DOMAIN NeighborAcked(sq, i, m).queued
<1> DEFINE b == sq.queued[i]
           b2 == [b EXCEPT !.unacked_ns = @ \ {m}]
<1>1. i \in DOMAIN sq.queued /\ KeyOf(b.p) = KeyOf(p)
  BY FirstOfPositions DEF FindByOriginatorSeqno, KeyOf
<1>2. b \in GoodEntries(n, sn)  BY <1>1, BufferElement
<1>3. b2 \in GoodEntries(n, sn)
  <2> HIDE DEF b
  <2> QED  BY <1>1, <1>2 DEF GoodEntries, BufferedPacket
<1>4. NeighborAcked(sq, i, m) = [sq EXCEPT !.queued[i] = b2]
  BY DEF NeighborAcked
<1> HIDE DEF b2
<1> QED  BY <1>1, <1>3, <1>4, UpdatePacketProperties

-----------------------------------------------------------------------------
(* The steps.  Each changes the struct ec of one node, may put a frame at  *)
(* some radios, and only adds to what has been seen.                       *)

\* The initial state is good.
LEMMA InitIInv == Init => IInv
<1> SUFFICES ASSUME Init PROVE IInv
  OBVIOUS
<1>1. /\ seen \in Histories
      /\ \A n \in Node : seen[n] = {}
  BY DEF Init, Histories
<1>2. ASSUME NEW n \in Node PROVE ClosedEc \in GoodEcs(n, seen)
  <2> DEFINE sq == EmptyBuffer
  <2>1. sq \in BufferOf(GoodEntries(n, seen))  BY EmptyBufferOf
  <2>2. << >> \in Seq(seen[n]) /\ Len(<< >>) = 0  BY EmptySeq
  <2>3. ClosedEc = [sq |-> sq, dq |-> << >>, ack_timer |-> FALSE,
                    data_timer |-> FALSE, seqno |-> 0]
    BY DEF ClosedEc
  <2> HIDE DEF sq
  <2> QED  BY <2>1, <2>2, <2>3, NeighborConnAssumption DEF GoodEcs
<1>3. EcInv
  <2>1. \A n \in Node : ec[n] = ClosedEc /\ ec[n] \in GoodEcs(n, seen)
    BY <1>2 DEF Init
  <2>2. \A n \in Node : ClosedEc \in EcRecord  BY <1>1, <1>2, GoodEcsTyped
  <2>3. ec = [n \in Node |-> ClosedEc]  BY DEF Init
  <2> QED  BY <2>1, <2>2, <2>3 DEF EcInv
<1>4. RxInv  BY DEF Init, RxInv
<1>5. RestInv  BY <1>1, NeighborConnAssumption DEF Init, RestInv
<1> QED  BY <1>3, <1>4, <1>5 DEF IInv

\* What a step has to leave behind.
LEMMA StepIInv ==
  ASSUME IInv, NEW n \in Node, NEW c \in GoodEcs(n, seen'),
         ec' = [ec EXCEPT ![n] = c],
         rx' \in [Node -> GoodFrames(seen) \cup {NoFrame}],
         Grows(seen, seen'), RestInv'
  PROVE  IInv'
<1>1. seen' \in Histories  BY DEF RestInv
<1>2. ec \in [Node -> EcRecord] /\ c \in EcRecord
  BY <1>1, GoodEcsTyped DEF IInv, EcInv
<1>3. ASSUME NEW m \in Node PROVE ec'[m] \in GoodEcs(m, seen')
  <2>1. ec[m] \in GoodEcs(m, seen')  BY GoodEcsMonotonic DEF IInv, EcInv
  <2> QED  BY <2>1, <1>2
<1>4. EcInv'  BY <1>2, <1>3 DEF EcInv
<1>5. GoodFrames(seen) \subseteq GoodFrames(seen')  BY GoodFramesMonotonic
<1>6. RxInv'  BY <1>5 DEF RxInv
<1> QED  BY <1>4, <1>6 DEF IInv

\* A step that leaves the histories and the nodes' lives alone.
LEMMA QuietStepIInv ==
  ASSUME IInv, NEW n \in Node, NEW c \in GoodEcs(n, seen),
         ec' = [ec EXCEPT ![n] = c],
         rx' \in [Node -> GoodFrames(seen) \cup {NoFrame}],
         UNCHANGED <<up, life, sink_seqno, seen, log>>
  PROVE  IInv'
<1>1. RestInv'  BY DEF IInv, RestInv
<1>2. Grows(seen, seen') /\ c \in GoodEcs(n, seen')  BY DEF Grows
<1> QED  BY <1>1, <1>2, StepIInv

\* Sending a good frame.
LEMMA TransmitGood ==
  ASSUME IInv, NEW n, NEW frame \in GoodFrames(seen), Transmit(n, frame)
  PROVE  rx' \in [Node -> GoodFrames(seen) \cup {NoFrame}]
BY DEF Transmit, IInv, RxInv

\* What is queued is a good frame.
LEMMA EntryIsFrame ==
  ASSUME NEW n \in Node, NEW sn \in Histories, NEW b \in GoodEntries(n, sn)
  PROVE  b.p \in GoodFrames(sn) /\ b.unacked_ns \in SUBSET Node
BY DEF GoodEntries, GoodFrames, BufferedPacket, Histories

\* Handling a frame leaves the radios good.
LEMMA HandleGood ==
  ASSUME IInv, NEW n \in Node, Handle(n)
  PROVE  /\ rx' \in [Node -> GoodFrames(seen) \cup {NoFrame}]
         /\ rx[n] \in GoodFrames(seen)
         /\ rx[n] \in Packet
BY DEF IInv, RxInv, Handle, GoodFrames

\* The transmission of a data packet, or the collision.
LEMMA SendDataPacketIInv ==
  ASSUME IInv, NEW n \in Node, NEW sq \in BufferOf(GoodEntries(n, seen)),
         NEW i \in DOMAIN sq.queued, NEW p \in GoodFrames(seen),
         SendDataPacket(n, sq, i, p),
         UNCHANGED <<up, life, sink_seqno, seen, log>>
  PROVE  IInv'
<1>0. ec[n] \in GoodEcs(n, seen) /\ ec \in [Node -> EcRecord]
  BY DEF IInv, EcInv
<1>1. CASE ec' = [ec EXCEPT ![n].sq = sq] /\ UNCHANGED rx
  <2> DEFINE c == [ec[n] EXCEPT !.sq = sq]
  <2>1. c \in GoodEcs(n, seen)  BY <1>0 DEF GoodEcs
  <2>2. ec' = [ec EXCEPT ![n] = c]  BY <1>1
  <2>3. rx' \in [Node -> GoodFrames(seen) \cup {NoFrame}]
    BY <1>1 DEF IInv, RxInv
  <2> HIDE DEF c
  <2> QED  BY <2>1, <2>2, <2>3, QuietStepIInv
<1>2. ASSUME NEW to \in SUBSET Node,
             ec' = [ec EXCEPT ![n].sq = IncrementTimesSent(sq, i)],
             Transmit(n, [p EXCEPT !.to = to])
      PROVE  IInv'
  <2> DEFINE sq2 == IncrementTimesSent(sq, i)
             c == [ec[n] EXCEPT !.sq = sq2]
             frame == [p EXCEPT !.to = to]
  <2>1. sq2 \in BufferOf(GoodEntries(n, seen))  BY IncrementGood
  <2>2. ec' = [ec EXCEPT ![n] = c]  BY <1>2
  <2> HIDE DEF sq2
  <2>3. c \in GoodEcs(n, seen)  BY <1>0, <2>1 DEF GoodEcs
  <2>4. frame \in GoodFrames(seen)  BY <1>2 DEF GoodFrames, Packet, KeyOf
  <2> HIDE DEF c, frame
  <2>5. rx' \in [Node -> GoodFrames(seen) \cup {NoFrame}]
    BY <2>4, <1>2, TransmitGood DEF frame
  <2> QED  BY <2>2, <2>3, <2>5, QuietStepIInv
<1>3. sq.queued[i].unacked_ns \in SUBSET Node
  BY BufferElement, EntryIsFrame DEF IInv, RestInv
<1> QED  BY <1>1, <1>2, <1>3 DEF SendDataPacket

\* The data timer.
LEMMA SendDataIInv ==
  ASSUME IInv, NEW n \in Node, SendData(n)
  PROVE  IInv'
<1> DEFINE S == GoodEntries(n, seen)
           sq == ec[n].sq
<1>0. /\ ec[n] \in GoodEcs(n, seen)
      /\ ec \in [Node -> EcRecord]
      /\ rx \in [Node -> GoodFrames(seen) \cup {NoFrame}]
  BY DEF IInv, EcInv, RxInv
<1>1. sq \in BufferOf(S)  BY <1>0 DEF GoodEcs
<1>2. \A i \in FirstOfType(sq, NEIGHBOR_DATA) : i \in DOMAIN sq.queued
  BY FirstOfPositions DEF FirstOfType, OfType
<1>3. CASE NoDataToSend(n)
  <2> DEFINE c == [ec[n] EXCEPT !.data_timer = FALSE]
  <2>1. c \in GoodEcs(n, seen)  BY <1>0 DEF GoodEcs
  <2>2. ec' = [ec EXCEPT ![n] = c]  BY <1>3 DEF NoDataToSend
  <2> HIDE DEF c
  <2> QED
    BY <2>1, <2>2, <1>0, <1>3, QuietStepIInv DEF NoDataToSend, DataTimerFires
<1>4. CASE SendFirstData(n)
  <2>1. PICK i \in FirstOfType(sq, NEIGHBOR_DATA) :
          SendDataPacket(n, sq, i, sq.queued[i].p)
    BY <1>4 DEF SendFirstData
  <2> DEFINE p == sq.queued[i].p
  <2>2. i \in DOMAIN sq.queued  BY <1>2
  <2>3. p \in GoodFrames(seen)  BY <1>1, <2>2, BufferElement, EntryIsFrame DEF IInv, RestInv
  <2>4. UNCHANGED <<up, life, sink_seqno, seen, log>>
    BY <1>4 DEF SendFirstData, DataTimerFires
  <2> HIDE DEF sq
  <2> QED  BY <2>1, <2>2, <2>3, <2>4, <1>1, SendDataPacketIInv
<1>5. CASE GiveUpFirstData(n)
  <2>1. PICK i \in FirstOfType(sq, NEIGHBOR_DATA) :
          \/ /\ ec' = [ec EXCEPT ![n].sq = FreePacket(sq, i), ![n].data_timer = FALSE]
             /\ UNCHANGED rx
          \/ \E j \in FirstOfType(FreePacket(sq, i), NEIGHBOR_DATA) :
               SendDataPacket(n, FreePacket(sq, i), j, sq.queued[i].p)
    BY <1>5 DEF GiveUpFirstData
  <2> DEFINE p == sq.queued[i].p
             sq2 == FreePacket(sq, i)
  <2>2. i \in DOMAIN sq.queued  BY <1>2
  <2>3. p \in GoodFrames(seen)  BY <1>1, <2>2, BufferElement, EntryIsFrame DEF IInv, RestInv
  <2>4. UNCHANGED <<up, life, sink_seqno, seen, log>>
    BY <1>5 DEF GiveUpFirstData, DataTimerFires
  <2>5. sq2 \in BufferOf(S)
    <3> HIDE DEF sq
    <3> QED  BY <1>1, <2>2, FreeGood
  <2>6. CASE /\ ec' = [ec EXCEPT ![n].sq = sq2, ![n].data_timer = FALSE]
             /\ UNCHANGED rx
    <3> DEFINE c == [ec[n] EXCEPT !.sq = sq2, !.data_timer = FALSE]
    <3>1. ec' = [ec EXCEPT ![n] = c]  BY <2>6, <1>0
    <3> HIDE DEF sq2
    <3>2. c \in GoodEcs(n, seen)  BY <2>5, <1>0 DEF GoodEcs
    <3> HIDE DEF c
    <3>3. rx' \in [Node -> GoodFrames(seen) \cup {NoFrame}]  BY <2>6, <1>0
    <3> QED  BY <3>1, <3>2, <3>3, <2>4, QuietStepIInv
  <2>7. ASSUME NEW j \in FirstOfType(sq2, NEIGHBOR_DATA),
               SendDataPacket(n, sq2, j, p)
        PROVE  IInv'
    <3>1. j \in DOMAIN sq2.queued
      BY FirstOfPositions DEF FirstOfType, OfType
    <3> HIDE DEF sq2, p
    <3> QED  BY <3>1, <2>3, <2>4, <2>5, <2>7, SendDataPacketIInv
  <2> QED  BY <2>1, <2>6, <2>7
<1> QED  BY <1>3, <1>4, <1>5 DEF SendData

\* The ACK timer.
LEMMA SendAckIInv ==
  ASSUME IInv, NEW n \in Node, SendAck(n)
  PROVE  IInv'
<1> DEFINE S == GoodEntries(n, seen)
           sq == ec[n].sq
<1>0. /\ ec[n] \in GoodEcs(n, seen)
      /\ ec \in [Node -> EcRecord]
      /\ rx \in [Node -> GoodFrames(seen) \cup {NoFrame}]
  BY DEF IInv, EcInv, RxInv
<1>1. sq \in BufferOf(S)  BY <1>0 DEF GoodEcs
<1>2. UNCHANGED <<up, life, sink_seqno, seen, log>>
  BY DEF SendAck, NoAckToSend, SendFirstAck, AckTimerFires
<1>3. CASE NoAckToSend(n)
  <2> DEFINE c == [ec[n] EXCEPT !.ack_timer = FALSE]
  <2>1. c \in GoodEcs(n, seen)  BY <1>0 DEF GoodEcs
  <2>2. ec' = [ec EXCEPT ![n] = c]  BY <1>3 DEF NoAckToSend
  <2> HIDE DEF c
  <2> QED  BY <2>1, <2>2, <1>0, <1>2, <1>3, QuietStepIInv DEF NoAckToSend
<1>4. CASE SendFirstAck(n)
  <2>1. PICK i \in FirstOfType(sq, NEIGHBOR_ACK) :
          /\ ec' = [ec EXCEPT ![n].sq = FreePacket(sq, i),
                              ![n].ack_timer =
                                 OfType(FreePacket(sq, i), NEIGHBOR_ACK) # {}]
          /\ Transmit(n, sq.queued[i].p)
    BY <1>4 DEF SendFirstAck
  <2> DEFINE p == sq.queued[i].p
             sq2 == FreePacket(sq, i)
             timer == OfType(sq2, NEIGHBOR_ACK) # {}
             c == [ec[n] EXCEPT !.sq = sq2, !.ack_timer = timer]
  <2>2. i \in DOMAIN sq.queued  BY FirstOfPositions DEF FirstOfType, OfType
  <2>3. p \in GoodFrames(seen)  BY <1>1, <2>2, BufferElement, EntryIsFrame DEF IInv, RestInv
  <2>4. sq2 \in BufferOf(S)
    <3> HIDE DEF sq
    <3> QED  BY <1>1, <2>2, FreeGood
  <2>5. ec' = [ec EXCEPT ![n] = c]  BY <2>1, <1>0
  <2>6. timer \in BOOLEAN  OBVIOUS
  <2>7. Transmit(n, p)  BY <2>1
  <2> HIDE DEF sq2, timer, p
  <2>8. c \in GoodEcs(n, seen)  BY <2>4, <2>6, <1>0 DEF GoodEcs
  <2> HIDE DEF c
  <2>9. rx' \in [Node -> GoodFrames(seen) \cup {NoFrame}]
    BY <2>3, <2>7, TransmitGood
  <2> QED  BY <2>5, <2>8, <2>9, <1>2, QuietStepIInv
<1> QED  BY <1>3, <1>4 DEF SendAck

\* An ACK arrives.
LEMMA RecvAckIInv ==
  ASSUME IInv, NEW n \in Node, RecvAck(n)
  PROVE  IInv'
<1> DEFINE S == GoodEntries(n, seen)
           sq == ec[n].sq
           m == rx[n].sender
<1>0. /\ ec[n] \in GoodEcs(n, seen)
      /\ ec \in [Node -> EcRecord]
  BY DEF IInv, EcInv
<1>1. sq \in BufferOf(S)  BY <1>0 DEF GoodEcs
<1>2. /\ rx' \in [Node -> GoodFrames(seen) \cup {NoFrame}]
      /\ rx[n] \in GoodFrames(seen) /\ rx[n].ack
      /\ UNCHANGED <<up, life, sink_seqno, seen, log>>
  BY HandleGood DEF RecvAck, Handle
<1>3. m \in Node /\ KeyOf(rx[n]) \in seen[m]  BY <1>2 DEF GoodFrames
<1>4. PICK i \in FindByOriginatorSeqno(sq, rx[n]) :
        ec' = IF AllNeighborsAcked(NeighborAcked(sq, i, m), i)
              THEN [ec EXCEPT ![n].sq = FreePacket(NeighborAcked(sq, i, m), i),
                              ![n].data_timer = TRUE]
              ELSE [ec EXCEPT ![n].sq = NeighborAcked(sq, i, m)]
  BY DEF RecvAck
<1> DEFINE sq2 == NeighborAcked(sq, i, m)
           sq3 == FreePacket(sq2, i)
<1>5. sq2 \in BufferOf(S) /\ i \in DOMAIN sq2.queued
  <2> HIDE DEF sq, m
  <2> QED  BY <1>1, <1>3, AckedGood
<1>6. sq3 \in BufferOf(S)
  <2> HIDE DEF sq2
  <2> QED  BY <1>5, FreeGood
<1>7. CASE AllNeighborsAcked(sq2, i)
  <2> DEFINE c == [ec[n] EXCEPT !.sq = sq3, !.data_timer = TRUE]
  <2>1. ec' = [ec EXCEPT ![n] = c]  BY <1>4, <1>7, <1>0
  <2> HIDE DEF sq3
  <2>2. c \in GoodEcs(n, seen)  BY <1>6, <1>0 DEF GoodEcs
  <2> HIDE DEF c
  <2> QED  BY <2>1, <2>2, <1>2, QuietStepIInv
<1>8. CASE ~AllNeighborsAcked(sq2, i)
  <2> DEFINE c == [ec[n] EXCEPT !.sq = sq2]
  <2>1. ec' = [ec EXCEPT ![n] = c]  BY <1>4, <1>8, <1>0
  <2> HIDE DEF sq2
  <2>2. c \in GoodEcs(n, seen)  BY <1>5, <1>0 DEF GoodEcs
  <2> HIDE DEF c
  <2> QED  BY <2>1, <2>2, <1>2, QuietStepIInv
<1> QED  BY <1>7, <1>8

\* The application's callback, for any history that knows the packet and, if
\* the application replies, the reply.
LEMMA CallbackGood ==
  ASSUME NEW n \in Node, NEW sn \in Histories, NEW c \in GoodEcs(n, sn),
         NEW p \in Packet, KeyOf(p) \in sn[n], life[n] \in Nat,
         NEW reply \in BOOLEAN,
         reply => c.seqno < MaxOwn /\ <<n, c.seqno>> \in sn[n]
  PROVE  /\ Callback(c, n, p, reply) \in GoodEcs(n, sn)
         /\ Callback(c, n, p, reply).seqno = IF reply THEN c.seqno + 1 ELSE c.seqno
<1> DEFINE f == IF p.originator = Sink
                THEN ReliableBroadcastNs(c, n, KeyOf(p), p.data)
                ELSE c
<1>1. f \in GoodEcs(n, sn) /\ f.seqno = c.seqno
  <2>1. p.data \in Nat  BY DEF Packet
  <2> QED  BY <2>1, ReliableBroadcastGood
<1>2. Callback(c, n, p, reply) = IF reply THEN OwnBroadcast(f, n) ELSE f
  BY DEF Callback
<1> HIDE DEF f
<1> QED  BY <1>1, <1>2, OwnBroadcastGood

\* A packet is delivered to the application.
LEMMA DeliverGood ==
  ASSUME IInv, NEW n \in Node, NEW reply \in {FALSE, MayOriginate(n)},
         rx[n] \in Packet,
         Deliver(n, rx[n], Callback(ec[n], n, rx[n], reply)),
         UNCHANGED <<up, life, sink_seqno>>
  PROVE  /\ Callback(ec[n], n, rx[n], reply) \in GoodEcs(n, seen')
         /\ KeyOf(rx[n]) \in seen'[n]
         /\ Grows(seen, seen')
         /\ RestInv'
         /\ reply \in BOOLEAN
         /\ reply => ec[n].seqno < MaxOwn /\ <<n, ec[n].seqno>> \in seen'[n]
<1> DEFINE p == rx[n]
           c == Callback(ec[n], n, p, reply)
           s == ec[n].seqno
           all == [m \in Node |-> {key \in Key : key[2] \in 0..(MaxOwn + MaxFloods)}]
           own == {<<n, k>> : k \in s .. c.seqno - 1}
<1>0. /\ ec[n] \in GoodEcs(n, seen)
      /\ seen \in Histories /\ life[n] \in Nat /\ log \in [Node -> Seq(Packet)]
      /\ s \in 0..255
      /\ KeyOf(p) \in Key /\ KeyOf(p) \in Genuine(seen) /\ <<n, s>> \in Key
  <2>1. rx[n] \in GoodFrames(seen)  BY NoFrameAssumption DEF IInv, RxInv
  <2>2. KeyOf(p) \in Genuine(seen) /\ KeyOf(p) \in Key  BY <2>1 DEF GoodFrames, Genuine
  <2> QED  BY <2>2 DEF IInv, EcInv, RestInv, EcRecord, Key
<1>1. reply \in BOOLEAN /\ (reply => s < MaxOwn)  BY DEF MayOriginate
<1>2. all \in Histories /\ Grows(seen, all)
  <2>1. seen \in [Node -> SUBSET Key] /\ \A m \in Node : seen[m] \subseteq Genuine(seen)
    BY <1>0 DEF Histories
  <2>2. all \in [Node -> SUBSET Key]  OBVIOUS
  <2>3. \A m \in Node : all[m] \subseteq Genuine(all)
    BY DEF Genuine, Key
  <2>4. Grows(seen, all)  BY <2>1 DEF Grows, Genuine, Key
  <2> QED  BY <2>2, <2>3, <2>4 DEF Histories
<1>3. c.seqno = IF reply THEN s + 1 ELSE s
  <2>1. ec[n] \in GoodEcs(n, all)  BY <1>0, <1>2, GoodEcsMonotonic
  <2>2. KeyOf(p) \in all[n]  BY <1>0 DEF Genuine, Key
  <2>3. reply => <<n, s>> \in all[n]
    <3>1. reply => s \in 0..(MaxOwn + MaxFloods)
      <4> HIDE DEF s
      <4> QED  BY <1>0, <1>1, NeighborConnAssumption
    <3> QED  BY <3>1, <1>0
  <2> HIDE DEF all
  <2> QED  BY <2>1, <2>2, <2>3, <1>0, <1>1, <1>2, CallbackGood
<1>4. seen' = [seen EXCEPT ![n] = @ \cup {KeyOf(p)} \cup own]
  BY DEF Deliver
<1>5. reply => <<n, s>> \in own
  <2> HIDE DEF c, s
  <2>1. ASSUME reply PROVE s \in s .. c.seqno - 1  BY <2>1, <1>0, <1>3
  <2> QED  BY <2>1
<1>6. \A k \in s .. c.seqno - 1 : k \in 0..255 /\ k < MaxOwn
  <2> HIDE DEF c, s
  <2>1. CASE reply
    <3>1. c.seqno - 1 = s /\ s < MaxOwn  BY <2>1, <1>0, <1>1, <1>3
    <3> QED  BY <3>1, <1>0
  <2>2. CASE ~reply
    <3>1. c.seqno - 1 = s - 1  BY <2>2, <1>0, <1>3
    <3> QED  BY <3>1, <1>0
  <2> QED  BY <2>1, <2>2
<1>7. /\ seen' \in Histories
      /\ Grows(seen, seen')
      /\ KeyOf(p) \in seen'[n]
      /\ reply => <<n, s>> \in seen'[n]
  <2> DEFINE K == {KeyOf(p)} \cup own
  <2>1. K \in SUBSET Key
    <3>1. \A k \in s .. c.seqno - 1 : <<n, k>> \in Key
      <4> HIDE DEF c, s
      <4> QED  BY <1>6 DEF Key
    <3>2. own \in SUBSET Key  BY <3>1
    <3> HIDE DEF own, p
    <3> QED  BY <3>2, <1>0
  <2>2. seen \in [Node -> SUBSET Key]  BY <1>0 DEF Histories
  <2>3. seen' = [seen EXCEPT ![n] = @ \cup K]
    <3> HIDE DEF own, p
    <3> QED  BY <1>4, <2>2
  <2>4. own \subseteq seen'[n]  BY <2>2, <2>3
  <2>5. \A k \in s .. c.seqno - 1 : <<n, k>> \in Genuine(seen')
    <3> TAKE k \in s .. c.seqno - 1
    <3>1. <<n, k>> \in seen'[n]  BY <2>4
    <3> HIDE DEF own, K, p, c, s
    <3> QED  BY <3>1, <1>6, OwnIsGenuine
  <2>6. KeyOf(p) \in Genuine(seen')
    <3>1. Grows(seen, seen')  BY <2>2, <2>3 DEF Grows
    <3> QED  BY <3>1, <1>0, GenuineMonotonic
  <2>7. K \subseteq Genuine(seen')  BY <2>5, <2>6
  <2>8. KeyOf(p) \in K /\ (reply => <<n, s>> \in K)  BY <1>5
  <2> HIDE DEF K, own, p, c, s
  <2>9. seen' \in Histories /\ Grows(seen, seen') /\ K \subseteq seen'[n]
    <3>1. ASSUME NEW Q \in SUBSET Key, seen' = [seen EXCEPT ![n] = @ \cup Q],
                 Q \subseteq Genuine(seen')
          PROVE  seen' \in Histories /\ Grows(seen, seen') /\ Q \subseteq seen'[n]
      <4>1. seen \in Histories  BY <1>0
      <4>2. \A tn : /\ tn = [seen EXCEPT ![n] = @ \cup Q]
                    /\ Q \subseteq Genuine(tn)
                    => tn \in Histories /\ Grows(seen, tn) /\ Q \subseteq tn[n]
        BY <4>1, HistoryExtended
      <4> QED  BY <4>2, <3>1
    <3> QED  BY <2>1, <2>3, <2>7, <3>1
  <2> QED  BY <2>8, <2>9
<1> HIDE DEF own
<1>8. c \in GoodEcs(n, seen')
  <2>1. ec[n] \in GoodEcs(n, seen')  BY <1>0, <1>7, GoodEcsMonotonic
  <2> QED  BY <2>1, <1>0, <1>1, <1>7, CallbackGood
<1>9. RestInv'
  <2>1. Append(log[n], p) \in Seq(Packet)  BY <1>0, AppendProperties
  <2>2. log' \in [Node -> Seq(Packet)]  BY <2>1, <1>0 DEF Deliver
  <2> QED  BY <2>2, <1>7 DEF IInv, RestInv
<1> QED  BY <1>1, <1>7, <1>8, <1>9

\* A duplicate is acknowledged again.
LEMMA RecvDupeIInv ==
  ASSUME IInv, NEW n \in Node, RecvDupe(n)
  PROVE  IInv'
<1> DEFINE c == QueueAck(ec[n], n, rx[n])
<1>1. /\ rx' \in [Node -> GoodFrames(seen) \cup {NoFrame}]
      /\ rx[n] \in Packet
      /\ UNCHANGED <<up, life, sink_seqno, seen, log>>
  BY HandleGood DEF RecvDupe, Handle
<1>2. rx[n].sender \in Node  BY NeighborConnAssumption DEF RecvDupe, ForUs
<1>3. ec[n] \in GoodEcs(n, seen) /\ seen \in Histories
  BY DEF IInv, EcInv, RestInv
<1>4. KeyOf(rx[n]) \in seen[n]
  <2>1. ec[n].dq \in Seq(seen[n])  BY <1>3 DEF GoodEcs
  <2>2. PICK i \in 1..Len(ec[n].dq) : ec[n].dq[i] = KeyOf(rx[n])
    BY DEF RecvDupe, Contains
  <2> QED  BY <2>1, <2>2, ElementOfSeq
<1>5. c \in GoodEcs(n, seen)  BY <1>1, <1>2, <1>3, <1>4, QueueAckGood
<1>6. ec' = [ec EXCEPT ![n] = c]  BY DEF RecvDupe
<1> HIDE DEF c
<1> QED  BY <1>1, <1>5, <1>6, QuietStepIInv

\* A new packet from a neighbour.
LEMMA RecvNewDataIInv ==
  ASSUME IInv, NEW n \in Node, RecvNewData(n)
  PROVE  IInv'
<1>1. /\ rx' \in [Node -> GoodFrames(seen) \cup {NoFrame}]
      /\ rx[n] \in Packet
      /\ UNCHANGED <<up, life, sink_seqno>>
  BY HandleGood DEF RecvNewData, Handle
<1>2. rx[n].sender \in Node  BY NeighborConnAssumption DEF RecvNewData, ForUs
<1>3. PICK reply \in {FALSE, MayOriginate(n)} :
        LET c == Callback(ec[n], n, rx[n], reply)
        IN  /\ ec' = [ec EXCEPT ![n] =
                        QueueAck(StorePacketForDupeChecks(c, KeyOf(rx[n])), n, rx[n])]
            /\ Deliver(n, rx[n], c)
  BY DEF RecvNewData
<1> DEFINE c == Callback(ec[n], n, rx[n], reply)
           c2 == StorePacketForDupeChecks(c, KeyOf(rx[n]))
           c3 == QueueAck(c2, n, rx[n])
<1>4. /\ c \in GoodEcs(n, seen')
      /\ KeyOf(rx[n]) \in seen'[n]
      /\ Grows(seen, seen')
      /\ RestInv'
  BY <1>1, <1>3, DeliverGood
<1>5. ec' = [ec EXCEPT ![n] = c3]  BY <1>3
<1>6. seen' \in Histories  BY <1>4 DEF RestInv
<1> HIDE DEF c
<1>7. c2 \in GoodEcs(n, seen')  BY <1>4, <1>6, StoreGood
<1> HIDE DEF c2
<1>8. c3 \in GoodEcs(n, seen')  BY <1>1, <1>2, <1>4, <1>6, <1>7, QueueAckGood
<1> HIDE DEF c3
<1> QED  BY <1>1, <1>4, <1>5, <1>8, StepIInv

\* A packet straight from the sink.
LEMMA RecvFromSinkIInv ==
  ASSUME IInv, NEW n \in Node, RecvFromSink(n)
  PROVE  IInv'
<1>1. /\ rx' \in [Node -> GoodFrames(seen) \cup {NoFrame}]
      /\ rx[n] \in Packet
      /\ UNCHANGED <<up, life, sink_seqno>>
  BY HandleGood DEF RecvFromSink, Handle
<1>2. ec[n] \in GoodEcs(n, seen) /\ ec \in [Node -> EcRecord]
  BY DEF IInv, EcInv
<1>3. CASE UNCHANGED <<ec, seen, log>>
  <2>1. ec' = [ec EXCEPT ![n] = ec[n]]  BY <1>2, <1>3
  <2> QED  BY <2>1, <1>1, <1>2, <1>3, QuietStepIInv
<1>4. ASSUME NEW reply \in {FALSE, MayOriginate(n)},
             ec' = [ec EXCEPT ![n] =
                      StorePacketForDupeChecks(Callback(ec[n], n, rx[n], reply),
                                               KeyOf(rx[n]))],
             Deliver(n, rx[n], Callback(ec[n], n, rx[n], reply))
      PROVE  IInv'
  <2> DEFINE c == Callback(ec[n], n, rx[n], reply)
             c2 == StorePacketForDupeChecks(c, KeyOf(rx[n]))
  <2>1. /\ c \in GoodEcs(n, seen')
        /\ KeyOf(rx[n]) \in seen'[n]
        /\ Grows(seen, seen')
        /\ RestInv'
    BY <1>1, <1>4, DeliverGood
  <2>2. ec' = [ec EXCEPT ![n] = c2]  BY <1>4
  <2>3. seen' \in Histories  BY <2>1 DEF RestInv
  <2> HIDE DEF c
  <2>4. c2 \in GoodEcs(n, seen')  BY <2>1, <2>3, StoreGood
  <2> HIDE DEF c2
  <2> QED  BY <2>1, <2>2, <2>4, <1>1, StepIInv
<1> QED  BY <1>3, <1>4 DEF RecvFromSink

\* Any frame is handled.
LEMMA RecvIInv ==
  ASSUME IInv, NEW n \in Node, Recv(n)
  PROVE  IInv'
<1>1. CASE RecvNotForUs(n) \/ RecvAckForNonSentPacket(n) \/ RecvDataOverflow(n)
  <2>1. Handle(n) /\ UNCHANGED <<ec, seen, log>>
    BY <1>1 DEF RecvNotForUs, RecvAckForNonSentPacket, RecvDataOverflow
  <2>2. UNCHANGED <<up, life, sink_seqno>>  BY <2>1 DEF Handle
  <2>3. rx' \in [Node -> GoodFrames(seen) \cup {NoFrame}]  BY <2>1, HandleGood
  <2>4. ec[n] \in GoodEcs(n, seen) /\ ec' = [ec EXCEPT ![n] = ec[n]]
    BY <2>1 DEF IInv, EcInv
  <2> QED  BY <2>1, <2>2, <2>3, <2>4, QuietStepIInv
<1> QED
  BY <1>1, RecvAckIInv, RecvDupeIInv, RecvNewDataIInv, RecvFromSinkIInv DEF Recv

\* The application sends a packet of its own.
LEMMA AppBroadcastIInv ==
  ASSUME IInv, NEW n \in Node, AppBroadcast(n)
  PROVE  IInv'
<1> DEFINE key == <<n, ec[n].seqno>>
           c == OwnBroadcast(ec[n], n)
<1>0. /\ ec[n] \in GoodEcs(n, seen)
      /\ seen \in Histories /\ life[n] \in Nat
      /\ rx \in [Node -> GoodFrames(seen) \cup {NoFrame}]
      /\ key \in Key
  BY DEF IInv, EcInv, RxInv, RestInv, EcRecord, Key
<1>1. /\ ec' = [ec EXCEPT ![n] = c]
      /\ seen' = [seen EXCEPT ![n] = @ \cup {key}]
      /\ UNCHANGED <<rx, up, life, sink_seqno, log>>
      /\ ec[n].seqno < MaxOwn
  BY DEF AppBroadcast, MayOriginate
<1>2. seen' \in Histories /\ Grows(seen, seen') /\ key \in seen'[n]
  <2>1. key \in seen'[n]  BY <1>0, <1>1 DEF Histories
  <2>2. {key} \subseteq Genuine(seen')
    <3>1. ec[n].seqno \in 0..255  BY <1>0 DEF GoodEcs
    <3> QED  BY <2>1, <3>1, <1>1, OwnIsGenuine
  <2> DEFINE K == {key}
  <2>3. K \in SUBSET Key /\ key \in K  BY <1>0
  <2>4. seen' = [seen EXCEPT ![n] = @ \cup K]  BY <1>1
  <2>5. K \subseteq Genuine(seen')  BY <2>2
  <2>6. seen' \in Histories /\ Grows(seen, seen')
    <3> HIDE DEF K, key
    <3> QED  BY <2>3, <2>4, <2>5, <1>0, HistoryExtended
  <2> QED  BY <2>1, <2>6
<1>3. c \in GoodEcs(n, seen')
  <2>1. ec[n] \in GoodEcs(n, seen')  BY <1>0, <1>2, GoodEcsMonotonic
  <2> QED  BY <2>1, <1>0, <1>1, <1>2, OwnBroadcastGood
<1>4. RestInv'  BY <1>1, <1>2 DEF IInv, RestInv
<1>5. rx' \in [Node -> GoodFrames(seen) \cup {NoFrame}]  BY <1>0, <1>1
<1> HIDE DEF c
<1> QED  BY <1>1, <1>2, <1>3, <1>4, <1>5, StepIInv

\* The sink broadcasts.
LEMMA SinkBroadcastIInv ==
  ASSUME IInv, SinkBroadcast
  PROVE  IInv'
<1> DEFINE frame == [ack |-> FALSE, originator |-> Sink, seqno |-> sink_seqno,
                     sender |-> Sink, to |-> Node, data |-> 0]
<1>1. sink_seqno \in 0..255 /\ sink_seqno' \in 0..MaxFloods
  BY NeighborConnAssumption DEF IInv, RestInv, SinkBroadcast
<1>2. frame \in GoodFrames(seen)
  <2>1. KeyOf(frame) = <<Sink, sink_seqno>>  BY DEF KeyOf
  <2>2. sink_seqno \in 0..(MaxOwn + MaxFloods)
    BY NeighborConnAssumption DEF IInv, RestInv
  <2>3. KeyOf(frame) \in Genuine(seen)  BY <2>1, <2>2, <1>1 DEF Genuine, Key
  <2>4. frame \in Packet  BY <1>1 DEF Packet
  <2> HIDE DEF frame
  <2> QED  BY <2>3, <2>4 DEF GoodFrames, frame
<1>3. Transmit(Sink, frame)  BY DEF SinkBroadcast
<1> HIDE DEF frame
<1>4. rx' \in [Node -> GoodFrames(seen) \cup {NoFrame}]
  BY <1>2, <1>3, TransmitGood
<1>5. RestInv'  BY <1>1 DEF SinkBroadcast, IInv, RestInv
<1>6. UNCHANGED <<ec, seen>>  BY DEF SinkBroadcast
<1>7. RxInv'  BY <1>4, <1>6 DEF RxInv, GoodFrames
<1>8. EcInv'  BY <1>6 DEF IInv, EcInv
<1> QED  BY <1>5, <1>7, <1>8 DEF IInv

\* A node loses power.
LEMMA CrashIInv ==
  ASSUME IInv, NEW n \in Node, Crash(n)
  PROVE  IInv'
<1> DEFINE c == ClosedEc
           sq == EmptyBuffer
<1>1. c \in GoodEcs(n, seen')
  <2>1. sq \in BufferOf(GoodEntries(n, seen'))  BY EmptyBufferOf
  <2>2. << >> \in Seq(seen'[n]) /\ Len(<< >>) = 0  BY EmptySeq
  <2>3. c = [sq |-> sq, dq |-> << >>, ack_timer |-> FALSE,
             data_timer |-> FALSE, seqno |-> 0]
    BY DEF ClosedEc
  <2> HIDE DEF sq, c
  <2> QED  BY <2>1, <2>2, <2>3, NeighborConnAssumption DEF GoodEcs
<1>2. /\ ec' = [ec EXCEPT ![n] = c]
      /\ UNCHANGED <<sink_seqno, seen>>
  BY DEF Crash
<1> HIDE DEF c
<1>3. rx' \in [Node -> GoodFrames(seen) \cup {NoFrame}]
  BY DEF Crash, IInv, RxInv
<1>4. RestInv'
  <2>1. << >> \in Seq(Packet)  BY EmptySeq
  <2> QED  BY <2>1 DEF Crash, IInv, RestInv
<1>5. Grows(seen, seen')  BY <1>2 DEF Grows
<1> QED  BY <1>1, <1>2, <1>3, <1>4, <1>5, StepIInv

\* Every step keeps the invariant.
LEMMA NextIInv == IInv /\ [Next]_vars => IInv'
<1> SUFFICES ASSUME IInv, [Next]_vars PROVE IInv'
  OBVIOUS
<1>1. ASSUME NEW n \in Node, SendData(n) PROVE IInv'  BY <1>1, SendDataIInv
<1>2. ASSUME NEW n \in Node, SendAck(n) PROVE IInv'  BY <1>2, SendAckIInv
<1>3. ASSUME NEW n \in Node, Recv(n) PROVE IInv'  BY <1>3, RecvIInv
<1>4. ASSUME NEW n \in Node, AppBroadcast(n) PROVE IInv'
  BY <1>4, AppBroadcastIInv
<1>5. ASSUME NEW n \in Node, Crash(n) PROVE IInv'  BY <1>5, CrashIInv
<1>6. ASSUME NEW n \in Node, Restart(n) PROVE IInv'
  BY <1>6 DEF Restart, IInv, EcInv, RxInv, RestInv
<1>7. CASE SinkBroadcast  BY <1>7, SinkBroadcastIInv
<1>8. CASE UNCHANGED vars
  BY <1>8 DEF vars, IInv, EcInv, RxInv, RestInv
<1> QED
  BY <1>1, <1>2, <1>3, <1>4, <1>5, <1>6, <1>7, <1>8 DEF Next

-----------------------------------------------------------------------------
(* The sending queue itself.  Who waits, who was sent and which timer is   *)
(* set are matters of one node, and each operation keeps them on its own.  *)

\* Only the first data packet was sent, and each data packet waits for someone.
SoundQueue(q) ==
  /\ \A i, j \in DOMAIN q :
       q[i].type = NEIGHBOR_DATA /\ q[j].type = NEIGHBOR_DATA /\ i < j
       => q[j].times_sent = 0
  /\ \A i \in DOMAIN q : q[i].type = NEIGHBOR_DATA => q[i].unacked_ns # {}

\* The packets of these two types have their timers among W.
Timed == {NEIGHBOR_ACK, NEIGHBOR_DATA}

Awake(q, W) == \A i \in DOMAIN q : q[i].type \in Timed => q[i].type \in W

\* The types whose timers are pending.
Pending(c) ==
  {t \in Timed : \/ t = NEIGHBOR_ACK /\ c.ack_timer
                 \/ t = NEIGHBOR_DATA /\ c.data_timer}

Sound(c) == SoundQueue(c.sq.queued) /\ Awake(c.sq.queued, Pending(c))

QInv == \A n \in Node : Sound(ec[n])

\* d is c with at most one packet more, and not at the cost of a null write if
\* there was room.
OneMore(c, d) ==
  /\ Len(d.sq.queued) <= Len(c.sq.queued) + 1
  /\ HasRoomForPackets(c.sq, 1) => d.sq.null_write = c.sq.null_write

\* Entries are what the lemmas about buffers want.
LEMMA EntriesTyped ==
  ASSUME NEW n \in Node, NEW sn
  PROVE  \A b \in GoodEntries(n, sn) : b.type \in Nat /\ b.unacked_ns \in SUBSET Node
BY DEF GoodEntries, BufferedPacket, PacketType

\* The queue of a good struct ec.
LEMMA GoodQueue ==
  ASSUME NEW n \in Node, NEW sn, NEW c \in GoodEcs(n, sn)
  PROVE  /\ c.sq \in BufferOf(GoodEntries(n, sn))
         /\ c.sq.queued \in Seq(GoodEntries(n, sn))
         /\ Len(c.sq.queued) \in Nat
         /\ DOMAIN c.sq.queued = 1..Len(c.sq.queued)
<1>1. c.sq \in BufferOf(GoodEntries(n, sn))  BY DEF GoodEcs
<1>2. c.sq.queued \in Seq(GoodEntries(n, sn))  BY <1>1 DEF BufferOf
<1> QED  BY <1>1, <1>2, LenProperties

\* The duplicate queue is another matter.
LEMMA StoreSound ==
  ASSUME NEW n \in Node, NEW sn, NEW c \in GoodEcs(n, sn), NEW key
  PROVE  /\ StorePacketForDupeChecks(c, key).sq = c.sq
         /\ Pending(StorePacketForDupeChecks(c, key)) = Pending(c)
<1> DEFINE d == Cons(key, IF Len(c.dq) < DupeQueueLength THEN c.dq ELSE Front(c.dq))
<1>1. StorePacketForDupeChecks(c, key) \in {c, [c EXCEPT !.dq = d]}
  BY DEF StorePacketForDupeChecks
<1> HIDE DEF d
<1> QED  BY <1>1 DEF GoodEcs, Pending

\* A packet is added, if there is room.
LEMMA AddSound ==
  ASSUME NEW S, NEW pb \in BufferOf(S), NEW type, NEW p, NEW ns,
         [type |-> type, p |-> p, unacked_ns |-> ns, times_sent |-> 0] \in S,
         type = NEIGHBOR_DATA => ns # {},
         SoundQueue(pb.queued), NEW W, Awake(pb.queued, W), type \in W
  PROVE  LET pb2 == AddPacket(pb, type, p, ns)
         IN  /\ SoundQueue(pb2.queued)
             /\ Awake(pb2.queued, W)
             /\ Len(pb2.queued) <= Len(pb.queued) + 1
             /\ HasRoomForPackets(pb, 1) => pb2.null_write = pb.null_write
<1> DEFINE pb2 == AddPacket(pb, type, p, ns)
<1>1. CASE Full(pb)
  <2>1. pb2 = [pb EXCEPT !.null_write = TRUE]  BY <1>1 DEF AddPacket
  <2>2. pb2.queued = pb.queued /\ Len(pb.queued) \in Nat
    BY <2>1, LenProperties DEF BufferOf
  <2>3. ~HasRoomForPackets(pb, 1)  BY <1>1, RoomIsNotFull
  <2> HIDE DEF pb2
  <2> QED  BY <2>2, <2>3 DEF pb2
<1>2. CASE ~Full(pb)
  <2> DEFINE q == pb.queued
             q2 == pb2.queued
             k == Len(q)
             b == [type |-> type, p |-> p, unacked_ns |-> ns, times_sent |-> 0]
  <2>1. /\ k \in Nat /\ DOMAIN q = 1..k
        /\ DOMAIN q2 = 1..(k + 1) /\ Len(q2) = k + 1
        /\ q2[k + 1] = b
        /\ \A i \in 1..k : q2[i] = q[i]
        /\ pb2.null_write = pb.null_write
    BY <1>2, AddPacketPositions
  <2>2. b.type = type /\ b.times_sent = 0 /\ b.unacked_ns = ns  OBVIOUS
  <2> HIDE DEF q, q2, b, k, pb2
  <2>3. \A i \in 1..(k + 1) : i = k + 1 \/ i \in 1..k  BY <2>1
  <2>4. SoundQueue(q2)
    <3>1. ASSUME NEW i \in 1..(k + 1), NEW j \in 1..(k + 1), i < j,
                 q2[i].type = NEIGHBOR_DATA, q2[j].type = NEIGHBOR_DATA
          PROVE  q2[j].times_sent = 0
      <4>1. i \in 1..k  BY <3>1, <2>1
      <4>2. CASE j = k + 1  BY <4>2, <2>1, <2>2
      <4>3. CASE j \in 1..k
        BY <4>1, <4>3, <3>1, <2>1 DEF SoundQueue, q
      <4> QED  BY <4>2, <4>3, <2>3
    <3>2. ASSUME NEW i \in 1..(k + 1), q2[i].type = NEIGHBOR_DATA
          PROVE  q2[i].unacked_ns # {}
      <4>1. CASE i = k + 1  BY <4>1, <3>2, <2>1, <2>2
      <4>2. CASE i \in 1..k  BY <4>2, <3>2, <2>1 DEF SoundQueue, q
      <4> QED  BY <4>1, <4>2, <2>3
    <3> QED  BY <3>1, <3>2, <2>1 DEF SoundQueue
  <2>5. Awake(q2, W)
    <3>1. ASSUME NEW i \in 1..(k + 1)
          PROVE  q2[i].type \in Timed => q2[i].type \in W
      <4>1. CASE i = k + 1  BY <4>1, <2>1, <2>2
      <4>2. CASE i \in 1..k  BY <4>2, <2>1 DEF Awake, q
      <4> QED  BY <4>1, <4>2, <2>3
    <3> QED  BY <3>1, <2>1 DEF Awake
  <2>6. Len(q2) <= k + 1  BY <2>1
  <2> QED  BY <2>1, <2>4, <2>5, <2>6 DEF q, q2, k, pb2
<1> QED  BY <1>1, <1>2

\* Queueing a packet for all neighbours sets the data timer.
LEMMA ReliableBroadcastSound ==
  ASSUME NEW n \in Node, NEW sn \in Histories, NEW c \in GoodEcs(n, sn),
         NEW key \in sn[n], NEW data \in Nat, Sound(c)
  PROVE  LET d == ReliableBroadcastNs(c, n, key, data)
         IN  Sound(d) /\ OneMore(c, d)
<1> DEFINE d == ReliableBroadcastNs(c, n, key, data)
<1>0. Len(c.sq.queued) \in Nat  BY GoodQueue
<1>1. CASE Neighbors[n] = {}
  <2>1. d = c  BY <1>1 DEF ReliableBroadcastNs
  <2> QED  BY <2>1, <1>0 DEF OneMore
<1>2. CASE Neighbors[n] # {}
  <2> DEFINE p == BroadcastPacket(n, key, data)
             b == [type |-> NEIGHBOR_DATA, p |-> p, unacked_ns |-> Neighbors[n],
                   times_sent |-> 0]
             sq2 == AddPacket(c.sq, NEIGHBOR_DATA, p, Neighbors[n])
             c2 == [c EXCEPT !.sq = sq2, !.data_timer = TRUE]
  <2>1. p \in Packet /\ p.ack = FALSE /\ KeyOf(p) = key
    <3>1. key \in Key  BY DEF Histories
    <3> QED  BY <3>1 DEF BroadcastPacket, Packet, Key, KeyOf
  <2>2. Neighbors[n] \in SUBSET Node  BY NeighborConnAssumption
  <2>3. b \in GoodEntries(n, sn)
    <3> HIDE DEF p
    <3> QED
      BY <2>1, <2>2 DEF GoodEntries, BufferedPacket, PacketType, NEIGHBOR_DATA
  <2>4. c.sq \in BufferOf(GoodEntries(n, sn))  BY GoodQueue
  <2> DEFINE W == Pending(c) \cup {NEIGHBOR_DATA}
  <2>6. SoundQueue(c.sq.queued) /\ Awake(c.sq.queued, W)
    BY DEF Sound, Awake
  <2>7. /\ SoundQueue(sq2.queued) /\ Awake(sq2.queued, W)
        /\ Len(sq2.queued) <= Len(c.sq.queued) + 1
        /\ HasRoomForPackets(c.sq, 1) => sq2.null_write = c.sq.null_write
    <3>1. NEIGHBOR_DATA \in W  OBVIOUS
    <3> HIDE DEF p, W
    <3> QED  BY <1>2, <2>3, <2>4, <2>6, <3>1, AddSound
  <2>8. sq2 \in BufferOf(GoodEntries(n, sn))
    <3> HIDE DEF p
    <3> QED  BY <2>3, <2>4, AddPacketProperties
  <2> HIDE DEF sq2
  <2>9. /\ c2 \in GoodEcs(n, sn)
        /\ c2.sq = sq2 /\ Pending(c2) = W
    BY <2>8 DEF GoodEcs, Pending, Timed
  <2>10. d = StorePacketForDupeChecks(c2, key)
    BY <1>2 DEF ReliableBroadcastNs, sq2
  <2> HIDE DEF c2, d
  <2> HIDE DEF W
  <2>11. d.sq = sq2 /\ Pending(d) = W
    BY <2>9, <2>10, StoreSound
  <2>12. Sound(d) /\ OneMore(c, d)  BY <2>7, <2>11 DEF Sound, OneMore
  <2> QED  BY <2>12 DEF d
<1> QED  BY <1>1, <1>2

\* So does a packet of the node's own.
LEMMA OwnBroadcastSound ==
  ASSUME NEW n \in Node, NEW sn \in Histories, NEW c \in GoodEcs(n, sn),
         <<n, c.seqno>> \in sn[n], c.seqno < MaxOwn, life[n] \in Nat, Sound(c)
  PROVE  LET d == OwnBroadcast(c, n)
         IN  Sound(d) /\ OneMore(c, d)
<1> DEFINE s == c.seqno + 1
           c2 == [c EXCEPT !.seqno = s]
           key == <<n, c.seqno>>
<1>1. s \in 0..255
  <2>1. c.seqno \in 0..255 /\ MaxOwn \in 0..255
    BY NeighborConnAssumption DEF GoodEcs
  <2> QED  BY <2>1
<1> HIDE DEF s
<1>2. /\ c2 \in GoodEcs(n, sn)
      /\ c2.sq = c.sq /\ Pending(c2) = Pending(c)
  BY <1>1 DEF GoodEcs, Pending
<1>3. OwnBroadcast(c, n) = ReliableBroadcastNs(c2, n, key, life[n])
  BY DEF OwnBroadcast, s
<1>4. key \in sn[n]  OBVIOUS
<1> HIDE DEF c2, key
<1>5. Sound(c2)  BY <1>2 DEF Sound
<1>6. /\ Sound(ReliableBroadcastNs(c2, n, key, life[n]))
      /\ OneMore(c2, ReliableBroadcastNs(c2, n, key, life[n]))
  BY <1>2, <1>4, <1>5, ReliableBroadcastSound
<1> QED  BY <1>2, <1>3, <1>6 DEF OneMore

\* Queueing an ACK sets the ACK timer.
LEMMA QueueAckSound ==
  ASSUME NEW n \in Node, NEW sn \in Histories, NEW c \in GoodEcs(n, sn),
         NEW p \in Packet, p.sender \in Node, KeyOf(p) \in sn[n], Sound(c)
  PROVE  LET d == QueueAck(c, n, p)
         IN  Sound(d) /\ OneMore(c, d)
<1> DEFINE a == AckPacket(n, p)
           sq2 == AddUntrackedPacket(c.sq, NEIGHBOR_ACK, a)
           d == QueueAck(c, n, p)
           Entry(ns) == [type |-> NEIGHBOR_ACK, p |-> a, unacked_ns |-> ns,
                         times_sent |-> 0]
<1>0. /\ c.sq \in BufferOf(GoodEntries(n, sn))
      /\ Len(c.sq.queued) \in Nat
  BY GoodQueue
<1>1. CASE IsQueued(c.sq, a)
  <2>1. d = c  BY <1>1 DEF QueueAck
  <2> QED  BY <2>1, <1>0 DEF OneMore
<1>2. CASE ~IsQueued(c.sq, a)
  <2>1. \A ns \in SUBSET Node : Entry(ns) \in GoodEntries(n, sn)
    <3>1. a \in Packet /\ a.ack /\ a.sender = n /\ KeyOf(a) = KeyOf(p)
      <4>1. {p.sender} \in SUBSET Node  OBVIOUS
      <4> QED  BY <4>1 DEF AckPacket, Packet, KeyOf
    <3> HIDE DEF a
    <3> QED  BY <3>1 DEF GoodEntries, BufferedPacket, PacketType, NEIGHBOR_ACK,
                         NEIGHBOR_DATA
  <2> DEFINE W == Pending(c) \cup {NEIGHBOR_ACK}
  <2>2. SoundQueue(c.sq.queued) /\ Awake(c.sq.queued, W)
    BY DEF Sound, Awake
  <2>3. /\ SoundQueue(sq2.queued) /\ Awake(sq2.queued, W)
        /\ Len(sq2.queued) <= Len(c.sq.queued) + 1
        /\ HasRoomForPackets(c.sq, 1) => sq2.null_write = c.sq.null_write
    <3>1. CASE Full(c.sq)
      <4>1. sq2 = [c.sq EXCEPT !.null_write = TRUE]
        BY <3>1 DEF AddUntrackedPacket
      <4>2. sq2.queued = c.sq.queued  BY <4>1, <1>0 DEF BufferOf
      <4>3. ~HasRoomForPackets(c.sq, 1)  BY <3>1, <1>0, RoomIsNotFull
      <4> HIDE DEF sq2, W
      <4> QED  BY <4>2, <4>3, <2>2, <1>0
    <3>2. CASE ~Full(c.sq)
      <4> DEFINE ns == Head(c.sq.leftover)
      <4>1. ns \in SUBSET Node
        <5>1. c.sq.leftover \in Seq(SUBSET Node)  BY <1>0 DEF BufferOf
        <5> QED  BY <5>1, <3>2, HeadTailProperties DEF Full
      <4>2. sq2 = AddPacket(c.sq, NEIGHBOR_ACK, a, ns)
        BY <3>2 DEF AddUntrackedPacket
      <4>3. NEIGHBOR_ACK # NEIGHBOR_DATA  BY DEF NEIGHBOR_DATA, NEIGHBOR_ACK
      <4>4. Entry(ns) \in GoodEntries(n, sn)  BY <4>1, <2>1
      <4>5. NEIGHBOR_ACK \in W  OBVIOUS
      <4> HIDE DEF ns, a, W, sq2
      <4> QED  BY <4>2, <4>3, <4>4, <4>5, <2>2, <1>0, AddSound
    <3> QED  BY <3>1, <3>2
  <2> HIDE DEF sq2
  <2>4. d = [c EXCEPT !.sq = sq2, !.ack_timer = TRUE]
    BY <1>2 DEF QueueAck, sq2
  <2>5. d.sq = sq2 /\ Pending(d) = W
    BY <2>4 DEF GoodEcs, Pending, Timed
  <2> HIDE DEF d, W
  <2>6. Sound(d) /\ OneMore(c, d)  BY <2>3, <2>5 DEF Sound, OneMore
  <2> QED  BY <2>6 DEF d
<1> QED  BY <1>1, <1>2

\* The application's callback takes at most two of the three places kept free.
LEMMA CallbackSound ==
  ASSUME NEW n \in Node, NEW sn \in Histories, NEW c \in GoodEcs(n, sn),
         NEW p \in Packet, KeyOf(p) \in sn[n], life[n] \in Nat,
         NEW reply \in BOOLEAN,
         reply => c.seqno < MaxOwn /\ <<n, c.seqno>> \in sn[n],
         Sound(c)
  PROVE  LET d == Callback(c, n, p, reply)
         IN  /\ Sound(d)
             /\ HasRoomForPackets(c.sq, 3) =>
                  HasRoomForPackets(d.sq, 1) /\ d.sq.null_write = c.sq.null_write
<1> DEFINE f == IF p.originator = Sink
                THEN ReliableBroadcastNs(c, n, KeyOf(p), p.data)
                ELSE c
           g == OwnBroadcast(f, n)
           d == Callback(c, n, p, reply)
<1>1. f \in GoodEcs(n, sn) /\ f.seqno = c.seqno
  <2>1. p.data \in Nat  BY DEF Packet
  <2> QED  BY <2>1, ReliableBroadcastGood
<1>2. Sound(f) /\ OneMore(c, f)
  <2>1. p.data \in Nat  BY DEF Packet
  <2>2. Len(c.sq.queued) \in Nat  BY GoodQueue
  <2>3. CASE p.originator = Sink  BY <2>1, <2>3, ReliableBroadcastSound
  <2>4. CASE p.originator # Sink  BY <2>2, <2>4 DEF OneMore
  <2> QED  BY <2>3, <2>4
<1>3. d = IF reply THEN g ELSE f  BY DEF Callback
<1> HIDE DEF f, d
<1>4. ASSUME reply PROVE g \in GoodEcs(n, sn) /\ Sound(g) /\ OneMore(f, g)
  BY <1>1, <1>2, <1>4, OwnBroadcastGood, OwnBroadcastSound
<1> HIDE DEF g
<1>5. Sound(d)  BY <1>2, <1>3, <1>4
<1>6. ASSUME HasRoomForPackets(c.sq, 3)
      PROVE  HasRoomForPackets(d.sq, 1) /\ d.sq.null_write = c.sq.null_write
  <2> DEFINE lc == Len(c.sq.queued)
             lf == Len(f.sq.queued)
             lg == Len(g.sq.queued)
  <2>1. lc \in Nat /\ lf \in Nat /\ SendingQueueLength \in Nat
    BY <1>1, GoodQueue, BufferAssumption
  <2>2. lc + 3 <= SendingQueueLength  BY <1>6 DEF HasRoomForPackets
  <2>3. lf <= lc + 1  BY <1>2 DEF OneMore
  <2>4. HasRoomForPackets(c.sq, 1) /\ HasRoomForPackets(f.sq, 1)
    <3> HIDE DEF lc, lf
    <3>1. lc + 1 <= SendingQueueLength /\ lf + 1 <= SendingQueueLength
      BY <2>1, <2>2, <2>3
    <3> QED  BY <3>1 DEF HasRoomForPackets, lc, lf
  <2>5. f.sq.null_write = c.sq.null_write  BY <1>2, <2>4 DEF OneMore
  <2>6. CASE ~reply  BY <2>4, <2>5, <2>6, <1>3
  <2>7. CASE reply
    <3>1. lg \in Nat /\ lg <= lf + 1  BY <1>4, <2>7, GoodQueue DEF OneMore
    <3>2. lg + 1 <= SendingQueueLength
      <4> HIDE DEF lc, lf, lg
      <4> QED  BY <3>1, <2>1, <2>2, <2>3
    <3>3. g.sq.null_write = f.sq.null_write
      BY <1>4, <2>4, <2>7 DEF OneMore
    <3> QED  BY <3>2, <3>3, <2>5, <2>7, <1>3 DEF HasRoomForPackets
  <2> QED  BY <2>6, <2>7
<1> QED  BY <1>5, <1>6 DEF d

\* A packet leaves the queue, and it may be the only one that waits for nobody.
LEMMA FreeSound ==
  ASSUME NEW S, NEW pb \in BufferOf(S), NEW i \in DOMAIN pb.queued,
         \A a, b \in DOMAIN pb.queued :
           pb.queued[a].type = NEIGHBOR_DATA /\ pb.queued[b].type = NEIGHBOR_DATA /\ a < b
           => pb.queued[b].times_sent = 0,
         \A a \in DOMAIN pb.queued \ {i} :
           pb.queued[a].type = NEIGHBOR_DATA => pb.queued[a].unacked_ns # {}
  PROVE  /\ SoundQueue(FreePacket(pb, i).queued)
         /\ \A a \in DOMAIN FreePacket(pb, i).queued :
              \E b \in DOMAIN pb.queued : FreePacket(pb, i).queued[a] = pb.queued[b]
<1> DEFINE q == pb.queued
           q2 == FreePacket(pb, i).queued
           k == Len(q)
           old(j) == IF j < i THEN j ELSE j + 1
<1>1. /\ k \in Nat /\ DOMAIN q = 1..k /\ i \in 1..k
      /\ DOMAIN q2 = 1..(k - 1)
      /\ \A j \in 1..(k - 1) : q2[j] = IF j < i THEN q[j] ELSE q[j + 1]
  BY FreePacketPositions
<1>2. /\ \A a, b \in DOMAIN q :
           q[a].type = NEIGHBOR_DATA /\ q[b].type = NEIGHBOR_DATA /\ a < b
           => q[b].times_sent = 0
      /\ \A a \in DOMAIN q \ {i} : q[a].type = NEIGHBOR_DATA => q[a].unacked_ns # {}
  OBVIOUS
<1> HIDE DEF q, q2, k
<1>3. ASSUME NEW j \in 1..(k - 1)
      PROVE  old(j) \in 1..k /\ old(j) # i /\ q2[j] = q[old(j)]
  BY <1>1
<1>4. \A a, b \in 1..(k - 1) : a < b => old(a) < old(b)  BY <1>1
<1>5. SoundQueue(q2)
  <2>1. ASSUME NEW a \in DOMAIN q2, NEW b \in DOMAIN q2, a < b,
               q2[a].type = NEIGHBOR_DATA, q2[b].type = NEIGHBOR_DATA
        PROVE  q2[b].times_sent = 0
    BY <2>1, <1>1, <1>2, <1>3, <1>4
  <2>2. ASSUME NEW a \in DOMAIN q2, q2[a].type = NEIGHBOR_DATA
        PROVE  q2[a].unacked_ns # {}
    BY <2>2, <1>1, <1>2, <1>3
  <2> QED  BY <2>1, <2>2 DEF SoundQueue
<1>6. \A a \in DOMAIN q2 : \E b \in DOMAIN q : q2[a] = q[b]  BY <1>1, <1>3
<1> QED  BY <1>5, <1>6 DEF q, q2

\* The same of a sound queue.
LEMMA FreeSoundQueue ==
  ASSUME NEW S, NEW pb \in BufferOf(S), NEW i \in DOMAIN pb.queued,
         SoundQueue(pb.queued)
  PROVE  /\ SoundQueue(FreePacket(pb, i).queued)
         /\ \A a \in DOMAIN FreePacket(pb, i).queued :
              \E b \in DOMAIN pb.queued : FreePacket(pb, i).queued[a] = pb.queued[b]
<1>1. /\ \A a, b \in DOMAIN pb.queued :
           pb.queued[a].type = NEIGHBOR_DATA /\ pb.queued[b].type = NEIGHBOR_DATA /\ a < b
           => pb.queued[b].times_sent = 0
      /\ \A a \in DOMAIN pb.queued \ {i} :
           pb.queued[a].type = NEIGHBOR_DATA => pb.queued[a].unacked_ns # {}
  BY DEF SoundQueue
<1> QED  BY <1>1, FreeSound

\* The first data packet is sent once more.
LEMMA IncrementSound ==
  ASSUME NEW n \in Node, NEW sn, NEW sq \in BufferOf(GoodEntries(n, sn)),
         NEW i \in FirstOfType(sq, NEIGHBOR_DATA), SoundQueue(sq.queued)
  PROVE  /\ SoundQueue(IncrementTimesSent(sq, i).queued)
         /\ DOMAIN IncrementTimesSent(sq, i).queued = DOMAIN sq.queued
         /\ \A a \in DOMAIN sq.queued :
              IncrementTimesSent(sq, i).queued[a].type = sq.queued[a].type
<1> DEFINE q == sq.queued
           b == [q[i] EXCEPT !.times_sent = @ + 1]
           q2 == [q EXCEPT ![i] = b]
<1>1. i \in OfType(sq, NEIGHBOR_DATA) /\ \A j \in OfType(sq, NEIGHBOR_DATA) : i <= j
  BY FirstOfTypeLeast DEF NEIGHBOR_DATA
<1>2. i \in DOMAIN q /\ DOMAIN q \subseteq Nat
  <2>1. q \in Seq(GoodEntries(n, sn))  BY DEF BufferOf
  <2>2. DOMAIN q = 1..Len(q) /\ Len(q) \in Nat  BY <2>1, LenProperties
  <2> QED  BY <2>2, <1>1 DEF OfType
<1>3. b.type = q[i].type /\ b.unacked_ns = q[i].unacked_ns
  <2>1. q[i] \in GoodEntries(n, sn)  BY <1>2, BufferElement
  <2> QED  BY <2>1 DEF GoodEntries, BufferedPacket
<1>4. IncrementTimesSent(sq, i).queued = q2
  <2>1. IncrementTimesSent(sq, i) = [sq EXCEPT !.queued = q2]
    BY DEF IncrementTimesSent
  <2> HIDE DEF q2
  <2> QED  BY <2>1 DEF BufferOf
<1> HIDE DEF b
<1>5. /\ DOMAIN q2 = DOMAIN q
      /\ \A a \in DOMAIN q : q2[a] = IF a = i THEN b ELSE q[a]
  BY <1>2
<1> HIDE DEF q2
<1>6. \A a \in DOMAIN q : q2[a].type = q[a].type /\ q2[a].unacked_ns = q[a].unacked_ns
  BY <1>3, <1>5
<1>7. SoundQueue(q2)
  <2>1. ASSUME NEW x \in DOMAIN q, NEW y \in DOMAIN q, x < y,
               q[x].type = NEIGHBOR_DATA, q[y].type = NEIGHBOR_DATA
        PROVE  q2[y].times_sent = 0
    <3>1. i <= x  BY <2>1, <1>1 DEF OfType
    <3>2. y # i  BY <3>1, <2>1, <1>2
    <3> QED  BY <3>2, <2>1, <1>5 DEF SoundQueue
  <2>2. \A x \in DOMAIN q : q[x].type = NEIGHBOR_DATA => q[x].unacked_ns # {}
    BY DEF SoundQueue
  <2> QED  BY <2>1, <2>2, <1>5, <1>6 DEF SoundQueue
<1> QED  BY <1>4, <1>5, <1>6, <1>7

\* Fewer packets have no more timers to wait for.
LEMMA AwakeFewer ==
  ASSUME NEW q, NEW r, NEW W, NEW V, Awake(q, W), W \subseteq V,
         \A a \in DOMAIN r : \E b \in DOMAIN q : r[a] = q[b]
  PROVE  Awake(r, V)
BY DEF Awake

\* A step that changes the struct ec of one node.
LEMMA StepQInv ==
  ASSUME IInv, QInv, NEW n \in Node, NEW c, Sound(c), ec' = [ec EXCEPT ![n] = c]
  PROVE  QInv'
<1>1. DOMAIN ec = Node  BY DEF IInv, EcInv
<1>2. \A m \in Node : ec'[m] = c \/ ec'[m] = ec[m]  BY <1>1
<1> QED  BY <1>2 DEF QInv

\* What a node's queue is like before a step.
LEMMA QueueBefore ==
  ASSUME IInv, QInv, NEW n \in Node
  PROVE  /\ ec[n] \in GoodEcs(n, seen) /\ ec \in [Node -> EcRecord]
         /\ ec[n].sq \in BufferOf(GoodEntries(n, seen))
         /\ SoundQueue(ec[n].sq.queued)
         /\ Awake(ec[n].sq.queued, Pending(ec[n]))
<1>1. ec[n] \in GoodEcs(n, seen) /\ ec \in [Node -> EcRecord]  BY DEF IInv, EcInv
<1> QED  BY <1>1, GoodQueue DEF QInv, Sound

\* A search for the first packet of a type.
LEMMA NothingFirst ==
  ASSUME NEW n \in Node, NEW sn, NEW sq \in BufferOf(GoodEntries(n, sn)), NEW type,
         FirstOfType(sq, type) = {}
  PROVE  \A a \in DOMAIN sq.queued : sq.queued[a].type # type
<1>1. OfType(sq, type) = {}  BY EntriesTyped, FirstOfTypeFound
<1> QED  BY <1>1 DEF OfType

\* The transmission of the first data packet, or the collision.
LEMMA SendDataPacketQInv ==
  ASSUME IInv, QInv, NEW n \in Node, NEW sq \in BufferOf(GoodEntries(n, seen)),
         NEW i \in FirstOfType(sq, NEIGHBOR_DATA), NEW p,
         SoundQueue(sq.queued), Awake(sq.queued, Pending(ec[n])),
         SendDataPacket(n, sq, i, p)
  PROVE  QInv'
<1> DEFINE sq1 == IncrementTimesSent(sq, i)
<1>1. ec[n] \in GoodEcs(n, seen) /\ ec \in [Node -> EcRecord]  BY QueueBefore
<1>2. ASSUME NEW s \in {sq, sq1}, ec' = [ec EXCEPT ![n].sq = s] PROVE QInv'
  <2> DEFINE c == [ec[n] EXCEPT !.sq = s]
  <2>1. SoundQueue(s.queued) /\ Awake(s.queued, Pending(ec[n]))
    <3>1. /\ SoundQueue(sq1.queued)
          /\ DOMAIN sq1.queued = DOMAIN sq.queued
          /\ \A a \in DOMAIN sq.queued : sq1.queued[a].type = sq.queued[a].type
      BY IncrementSound
    <3> HIDE DEF sq1
    <3>2. Awake(sq1.queued, Pending(ec[n]))  BY <3>1 DEF Awake
    <3> QED  BY <3>1, <3>2
  <2>2. c.sq = s /\ Pending(c) = Pending(ec[n])  BY <1>1 DEF GoodEcs, Pending
  <2>3. ec' = [ec EXCEPT ![n] = c]  BY <1>2
  <2> HIDE DEF c
  <2>4. Sound(c)  BY <2>1, <2>2 DEF Sound
  <2> QED  BY <2>3, <2>4, StepQInv
<1> QED  BY <1>2 DEF SendDataPacket

\* The data timer.
LEMMA SendDataQInv ==
  ASSUME IInv, QInv, NEW n \in Node, SendData(n)
  PROVE  QInv'
<1> DEFINE S == GoodEntries(n, seen)
           sq == ec[n].sq
           W == Pending(ec[n])
<1>0. /\ ec[n] \in GoodEcs(n, seen) /\ ec \in [Node -> EcRecord]
      /\ sq \in BufferOf(S)
      /\ SoundQueue(sq.queued) /\ Awake(sq.queued, W)
  BY QueueBefore
<1>1. ASSUME NEW s \in BufferOf(S), SoundQueue(s.queued), Awake(s.queued, W),
             FirstOfType(s, NEIGHBOR_DATA) = {},
             ec' = [ec EXCEPT ![n].sq = s, ![n].data_timer = FALSE]
      PROVE  QInv'
  <2> DEFINE c == [ec[n] EXCEPT !.sq = s, !.data_timer = FALSE]
  <2>1. c.sq = s /\ Pending(c) = Pending(ec[n]) \ {NEIGHBOR_DATA}
    BY <1>0 DEF GoodEcs, Pending, NEIGHBOR_ACK, NEIGHBOR_DATA
  <2>2. \A a \in DOMAIN s.queued : s.queued[a].type # NEIGHBOR_DATA
    BY <1>1, NothingFirst
  <2>3. ec' = [ec EXCEPT ![n] = c]  BY <1>1, <1>0
  <2> HIDE DEF c
  <2>4. Sound(c)  BY <1>1, <2>1, <2>2 DEF Sound, Awake
  <2> QED  BY <2>3, <2>4, StepQInv
<1>2. CASE NoDataToSend(n)
  <2>1. ec' = [ec EXCEPT ![n].sq = sq, ![n].data_timer = FALSE]
    BY <1>0, <1>2 DEF NoDataToSend, GoodEcs
  <2>2. FirstOfType(sq, NEIGHBOR_DATA) = {}  BY <1>2 DEF NoDataToSend
  <2> HIDE DEF sq, S, W
  <2> QED  BY <2>1, <2>2, <1>0, <1>1
<1>3. CASE SendFirstData(n)
  <2>1. PICK i \in FirstOfType(sq, NEIGHBOR_DATA) :
          SendDataPacket(n, sq, i, sq.queued[i].p)
    BY <1>3 DEF SendFirstData
  <2> QED  BY <2>1, <1>0, SendDataPacketQInv
<1>4. CASE GiveUpFirstData(n)
  <2>1. PICK i \in FirstOfType(sq, NEIGHBOR_DATA) :
          \/ /\ FirstOfType(FreePacket(sq, i), NEIGHBOR_DATA) = {}
             /\ ec' = [ec EXCEPT ![n].sq = FreePacket(sq, i), ![n].data_timer = FALSE]
          \/ \E j \in FirstOfType(FreePacket(sq, i), NEIGHBOR_DATA) :
               SendDataPacket(n, FreePacket(sq, i), j, sq.queued[i].p)
    BY <1>4 DEF GiveUpFirstData
  <2> DEFINE sq2 == FreePacket(sq, i)
  <2>2. i \in DOMAIN sq.queued  BY FirstOfPositions DEF FirstOfType, OfType
  <2>3. sq2 \in BufferOf(S)
    <3> HIDE DEF sq
    <3> QED  BY <1>0, <2>2, FreeGood
  <2>4. /\ SoundQueue(sq2.queued)
        /\ \A a \in DOMAIN sq2.queued : \E b \in DOMAIN sq.queued :
             sq2.queued[a] = sq.queued[b]
    <3> HIDE DEF S, sq
    <3> QED  BY <1>0, <2>2, FreeSoundQueue
  <2>5. Awake(sq2.queued, W)
    <3> HIDE DEF sq2, sq, W
    <3> QED  BY <1>0, <2>4, AwakeFewer
  <2>6. CASE /\ FirstOfType(sq2, NEIGHBOR_DATA) = {}
             /\ ec' = [ec EXCEPT ![n].sq = sq2, ![n].data_timer = FALSE]
    <3> HIDE DEF sq2, S, W
    <3> QED  BY <2>3, <2>4, <2>5, <2>6, <1>1
  <2>7. ASSUME NEW j \in FirstOfType(sq2, NEIGHBOR_DATA),
               SendDataPacket(n, sq2, j, sq.queued[i].p)
        PROVE  QInv'
    <3> HIDE DEF sq2
    <3> QED  BY <2>3, <2>4, <2>5, <2>7, SendDataPacketQInv
  <2> QED  BY <2>1, <2>6, <2>7
<1> QED  BY <1>2, <1>3, <1>4 DEF SendData

\* The ACK timer.
LEMMA SendAckQInv ==
  ASSUME IInv, QInv, NEW n \in Node, SendAck(n)
  PROVE  QInv'
<1> DEFINE S == GoodEntries(n, seen)
           sq == ec[n].sq
<1>0. /\ ec[n] \in GoodEcs(n, seen) /\ ec \in [Node -> EcRecord]
      /\ sq \in BufferOf(S)
      /\ SoundQueue(sq.queued) /\ Awake(sq.queued, Pending(ec[n]))
  BY QueueBefore
<1>1. ASSUME NEW s, SoundQueue(s.queued), Awake(s.queued, Pending(ec[n])),
             NEW timer \in BOOLEAN,
             \A a \in DOMAIN s.queued : s.queued[a].type = NEIGHBOR_ACK => timer,
             ec' = [ec EXCEPT ![n].sq = s, ![n].ack_timer = timer]
      PROVE  QInv'
  <2> DEFINE c == [ec[n] EXCEPT !.sq = s, !.ack_timer = timer]
  <2>1. c.sq = s /\ c.data_timer = ec[n].data_timer /\ c.ack_timer = timer
    BY <1>0 DEF GoodEcs
  <2>2. ec' = [ec EXCEPT ![n] = c]  BY <1>1, <1>0
  <2> HIDE DEF c
  <2>3. Awake(s.queued, Pending(c))
    <3> SUFFICES ASSUME NEW a \in DOMAIN s.queued, s.queued[a].type \in Timed
                 PROVE  s.queued[a].type \in Pending(c)
      BY DEF Awake
    <3>1. CASE s.queued[a].type = NEIGHBOR_ACK
      <4>1. c.ack_timer  BY <3>1, <1>1, <2>1
      <4> QED  BY <3>1, <4>1 DEF Pending, Timed
    <3>2. CASE s.queued[a].type = NEIGHBOR_DATA
      <4>1. NEIGHBOR_DATA \in Pending(ec[n])  BY <3>2, <1>1 DEF Awake, Timed
      <4>2. ec[n].data_timer  BY <4>1 DEF Pending, NEIGHBOR_ACK, NEIGHBOR_DATA
      <4> QED  BY <3>2, <4>2, <2>1 DEF Pending, Timed
    <3> QED  BY <3>1, <3>2 DEF Timed
  <2>4. Sound(c)  BY <1>1, <2>1, <2>3 DEF Sound
  <2> QED  BY <2>2, <2>4, StepQInv
<1>2. CASE NoAckToSend(n)
  <2>1. ec' = [ec EXCEPT ![n].sq = sq, ![n].ack_timer = FALSE]
    BY <1>0, <1>2 DEF NoAckToSend, GoodEcs
  <2>2. \A a \in DOMAIN sq.queued : sq.queued[a].type # NEIGHBOR_ACK
    <3>1. FirstOfType(sq, NEIGHBOR_ACK) = {}  BY <1>2 DEF NoAckToSend
    <3> HIDE DEF sq
    <3> QED  BY <3>1, <1>0, NothingFirst
  <2> HIDE DEF sq
  <2>3. \A a \in DOMAIN sq.queued : sq.queued[a].type = NEIGHBOR_ACK => FALSE
    BY <2>2
  <2> QED  BY <2>1, <2>3, <1>0, <1>1
<1>3. CASE SendFirstAck(n)
  <2>1. PICK i \in FirstOfType(sq, NEIGHBOR_ACK) :
          ec' = [ec EXCEPT ![n].sq = FreePacket(sq, i),
                           ![n].ack_timer =
                              OfType(FreePacket(sq, i), NEIGHBOR_ACK) # {}]
    BY <1>3 DEF SendFirstAck
  <2> DEFINE sq2 == FreePacket(sq, i)
             timer == OfType(sq2, NEIGHBOR_ACK) # {}
  <2>2. i \in DOMAIN sq.queued  BY FirstOfPositions DEF FirstOfType, OfType
  <2>3. /\ SoundQueue(sq2.queued)
        /\ \A a \in DOMAIN sq2.queued : \E b \in DOMAIN sq.queued :
             sq2.queued[a] = sq.queued[b]
    <3> HIDE DEF S, sq
    <3> QED  BY <1>0, <2>2, FreeSoundQueue
  <2>4. Awake(sq2.queued, Pending(ec[n]))
    <3> HIDE DEF sq2, sq
    <3> QED  BY <1>0, <2>3, AwakeFewer
  <2>5. ec' = [ec EXCEPT ![n].sq = sq2, ![n].ack_timer = timer]  BY <2>1
  <2>6. timer \in BOOLEAN  OBVIOUS
  <2> HIDE DEF sq2
  <2>7. \A a \in DOMAIN sq2.queued : sq2.queued[a].type = NEIGHBOR_ACK => timer
    BY DEF OfType
  <2> HIDE DEF timer
  <2> QED  BY <2>3, <2>4, <2>5, <2>6, <2>7, <1>1
<1> QED  BY <1>2, <1>3 DEF SendAck

\* An ACK arrives.  Until the packet is freed it may be the one that waits for
\* nobody.
LEMMA RecvAckQInv ==
  ASSUME IInv, QInv, NEW n \in Node, RecvAck(n)
  PROVE  QInv'
<1> DEFINE S == GoodEntries(n, seen)
           sq == ec[n].sq
           m == rx[n].sender
           W == Pending(ec[n])
<1>0. /\ ec[n] \in GoodEcs(n, seen) /\ ec \in [Node -> EcRecord]
      /\ sq \in BufferOf(S)
      /\ SoundQueue(sq.queued) /\ Awake(sq.queued, W)
  BY QueueBefore
<1>1. m \in Node /\ KeyOf(rx[n]) \in seen[m]
  BY HandleGood DEF RecvAck, GoodFrames
<1>2. PICK i \in FindByOriginatorSeqno(sq, rx[n]) :
        ec' = IF AllNeighborsAcked(NeighborAcked(sq, i, m), i)
              THEN [ec EXCEPT ![n].sq = FreePacket(NeighborAcked(sq, i, m), i),
                              ![n].data_timer = TRUE]
              ELSE [ec EXCEPT ![n].sq = NeighborAcked(sq, i, m)]
  BY DEF RecvAck
<1> DEFINE sq2 == NeighborAcked(sq, i, m)
           sq3 == FreePacket(sq2, i)
           q  == sq.queued
           q2 == sq2.queued
<1>3. sq2 \in BufferOf(S) /\ i \in DOMAIN q2
  <2> HIDE DEF sq, m
  <2> QED  BY <1>0, <1>1, AckedGood
<1>4. /\ DOMAIN q2 = DOMAIN q
      /\ \A a \in DOMAIN q : /\ q2[a].type = q[a].type
                             /\ q2[a].times_sent = q[a].times_sent
                             /\ a # i => q2[a] = q[a]
  <2> DEFINE b == [q[i] EXCEPT !.unacked_ns = @ \ {m}]
             r == [q EXCEPT ![i] = b]
  <2>1. i \in DOMAIN q  BY FirstOfPositions DEF FindByOriginatorSeqno
  <2>2. q[i] \in BufferedPacket
    <3> HIDE DEF sq
    <3> QED  BY <2>1, <1>0, BufferElement DEF GoodEntries
  <2>3. b.type = q[i].type /\ b.times_sent = q[i].times_sent
    BY <2>2 DEF BufferedPacket
  <2>4. sq2 = [sq EXCEPT !.queued = r]  BY DEF NeighborAcked
  <2> HIDE DEF b
  <2>5. /\ DOMAIN r = DOMAIN q
        /\ \A a \in DOMAIN q : r[a] = IF a = i THEN b ELSE q[a]
    OBVIOUS
  <2> HIDE DEF r
  <2>6. q2 = r
    <3> HIDE DEF sq2, sq
    <3> QED  BY <2>4, <1>0 DEF BufferOf
  <2> HIDE DEF q2, q
  <2> QED  BY <2>3, <2>5, <2>6
<1> HIDE DEF sq2
<1>5. Awake(q2, W)
  <2> HIDE DEF W
  <2> QED  BY <1>0, <1>4 DEF Awake
<1>6. \A a, b \in DOMAIN q2 :
        q2[a].type = NEIGHBOR_DATA /\ q2[b].type = NEIGHBOR_DATA /\ a < b
        => q2[b].times_sent = 0
  <2> HIDE DEF q2
  <2> QED  BY <1>0, <1>4 DEF SoundQueue
<1>7. \A a \in DOMAIN q2 \ {i} : q2[a].type = NEIGHBOR_DATA => q2[a].unacked_ns # {}
  <2> HIDE DEF q2
  <2> QED  BY <1>0, <1>4 DEF SoundQueue
<1>8. CASE AllNeighborsAcked(sq2, i)
  <2> DEFINE c == [ec[n] EXCEPT !.sq = sq3, !.data_timer = TRUE]
  <2>1. ec' = [ec EXCEPT ![n] = c]  BY <1>2, <1>8, <1>0 DEF sq2
  <2>2. /\ SoundQueue(sq3.queued)
        /\ \A a \in DOMAIN sq3.queued : \E b \in DOMAIN sq2.queued :
             sq3.queued[a] = sq2.queued[b]
    <3> HIDE DEF S
    <3> QED  BY <1>3, <1>6, <1>7, FreeSound
  <2>3. c.sq = sq3 /\ Pending(c) = W \cup {NEIGHBOR_DATA}
    BY <1>0 DEF GoodEcs, Pending, NEIGHBOR_ACK, NEIGHBOR_DATA, Timed
  <2> HIDE DEF c
  <2>4. Awake(sq3.queued, Pending(c))
    <3> DEFINE V == Pending(c)
    <3>1. W \subseteq V  BY <2>3
    <3> HIDE DEF sq3, W, V
    <3>2. Awake(sq3.queued, V)  BY <3>1, <2>2, <1>5, AwakeFewer
    <3> QED  BY <3>2 DEF V
  <2>5. Sound(c)  BY <2>2, <2>3, <2>4 DEF Sound
  <2> QED  BY <2>1, <2>5, StepQInv
<1>9. CASE ~AllNeighborsAcked(sq2, i)
  <2> DEFINE c == [ec[n] EXCEPT !.sq = sq2]
  <2>1. ec' = [ec EXCEPT ![n] = c]  BY <1>2, <1>9, <1>0 DEF sq2
  <2>2. q2[i].unacked_ns # {}  BY <1>9 DEF AllNeighborsAcked
  <2>3. \A a \in DOMAIN q2 : q2[a].type = NEIGHBOR_DATA => q2[a].unacked_ns # {}
    <3> HIDE DEF q2
    <3> QED  BY <2>2, <1>7
  <2>4. SoundQueue(q2)
    <3> HIDE DEF q2
    <3> QED  BY <2>3, <1>6 DEF SoundQueue
  <2>5. c.sq = sq2 /\ Pending(c) = W
    BY <1>0 DEF GoodEcs, Pending, NEIGHBOR_ACK, NEIGHBOR_DATA, Timed
  <2> HIDE DEF c, W
  <2>6. Sound(c)  BY <2>4, <2>5, <1>5 DEF Sound
  <2> QED  BY <2>1, <2>6, StepQInv
<1> QED  BY <1>8, <1>9

\* A duplicate is acknowledged again.
LEMMA RecvDupeQInv ==
  ASSUME IInv, QInv, NEW n \in Node, RecvDupe(n)
  PROVE  QInv'
<1> DEFINE c == QueueAck(ec[n], n, rx[n])
<1>1. rx[n] \in Packet  BY HandleGood DEF RecvDupe
<1>2. rx[n].sender \in Node  BY NeighborConnAssumption DEF RecvDupe, ForUs
<1>3. ec[n] \in GoodEcs(n, seen) /\ seen \in Histories /\ Sound(ec[n])
  BY DEF IInv, EcInv, RestInv, QInv
<1>4. KeyOf(rx[n]) \in seen[n]
  <2>1. ec[n].dq \in Seq(seen[n])  BY <1>3 DEF GoodEcs
  <2>2. PICK i \in 1..Len(ec[n].dq) : ec[n].dq[i] = KeyOf(rx[n])
    BY DEF RecvDupe, Contains
  <2> QED  BY <2>1, <2>2, ElementOfSeq
<1>5. Sound(c)  BY <1>1, <1>2, <1>3, <1>4, QueueAckSound
<1>6. ec' = [ec EXCEPT ![n] = c]  BY DEF RecvDupe
<1> HIDE DEF c
<1> QED  BY <1>5, <1>6, StepQInv

\* A new packet goes to the application: what that leaves in the queue.
LEMMA DeliverSound ==
  ASSUME IInv, QInv, NEW n \in Node, NEW reply \in {FALSE, MayOriginate(n)},
         rx[n] \in Packet, HasRoomForPackets(ec[n].sq, 3),
         Deliver(n, rx[n], Callback(ec[n], n, rx[n], reply)),
         UNCHANGED <<up, life, sink_seqno>>
  PROVE  LET d == StorePacketForDupeChecks(Callback(ec[n], n, rx[n], reply),
                                           KeyOf(rx[n]))
         IN  /\ d \in GoodEcs(n, seen') /\ seen' \in Histories
             /\ KeyOf(rx[n]) \in seen'[n]
             /\ Sound(d)
             /\ HasRoomForPackets(d.sq, 1)
             /\ d.sq.null_write = ec[n].sq.null_write
<1> DEFINE c == Callback(ec[n], n, rx[n], reply)
           d == StorePacketForDupeChecks(c, KeyOf(rx[n]))
<1>1. /\ c \in GoodEcs(n, seen')
      /\ KeyOf(rx[n]) \in seen'[n]
      /\ Grows(seen, seen')
      /\ RestInv'
      /\ reply \in BOOLEAN
      /\ reply => ec[n].seqno < MaxOwn /\ <<n, ec[n].seqno>> \in seen'[n]
  BY DeliverGood
<1>2. /\ seen' \in Histories
      /\ ec[n] \in GoodEcs(n, seen')
      /\ life[n] \in Nat /\ Sound(ec[n])
  <2>1. ec[n] \in GoodEcs(n, seen)  BY DEF IInv, EcInv
  <2> QED  BY <2>1, <1>1, GoodEcsMonotonic DEF RestInv, IInv, QInv
<1>3. /\ Sound(c)
      /\ HasRoomForPackets(c.sq, 1)
      /\ c.sq.null_write = ec[n].sq.null_write
  <2>1. \A sn \in Histories :
          /\ ec[n] \in GoodEcs(n, sn) /\ KeyOf(rx[n]) \in sn[n]
          /\ reply => ec[n].seqno < MaxOwn /\ <<n, ec[n].seqno>> \in sn[n]
          => /\ Sound(c)
             /\ HasRoomForPackets(c.sq, 1)
             /\ c.sq.null_write = ec[n].sq.null_write
    BY <1>1, <1>2, CallbackSound
  <2> HIDE DEF c
  <2> QED  BY <2>1, <1>1, <1>2
<1> HIDE DEF c
<1>4. d \in GoodEcs(n, seen')  BY <1>1, <1>2, StoreGood
<1>5. d.sq = c.sq /\ Pending(d) = Pending(c)  BY <1>1, StoreSound
<1> HIDE DEF d
<1>6. Sound(d)  BY <1>3, <1>5 DEF Sound
<1> QED  BY <1>1, <1>2, <1>3, <1>4, <1>5, <1>6 DEF c, d

\* A new packet from a neighbour, with its acknowledgement.
LEMMA RecvNewDataQInv ==
  ASSUME IInv, QInv, NEW n \in Node, RecvNewData(n)
  PROVE  QInv' /\ ec'[n].sq.null_write = ec[n].sq.null_write
<1>1. rx[n] \in Packet /\ UNCHANGED <<up, life, sink_seqno>>
  BY HandleGood DEF RecvNewData, Handle
<1>2. rx[n].sender \in Node  BY NeighborConnAssumption DEF RecvNewData, ForUs
<1>3. PICK reply \in {FALSE, MayOriginate(n)} :
        LET c == Callback(ec[n], n, rx[n], reply)
        IN  /\ ec' = [ec EXCEPT ![n] =
                        QueueAck(StorePacketForDupeChecks(c, KeyOf(rx[n])), n, rx[n])]
            /\ Deliver(n, rx[n], c)
  BY DEF RecvNewData
<1> DEFINE d == StorePacketForDupeChecks(Callback(ec[n], n, rx[n], reply),
                                         KeyOf(rx[n]))
           e == QueueAck(d, n, rx[n])
<1>4. /\ d \in GoodEcs(n, seen') /\ seen' \in Histories
      /\ KeyOf(rx[n]) \in seen'[n]
      /\ Sound(d)
      /\ HasRoomForPackets(d.sq, 1)
      /\ d.sq.null_write = ec[n].sq.null_write
  <2>1. HasRoomForPackets(ec[n].sq, 3)  BY DEF RecvNewData
  <2> QED  BY <2>1, <1>1, <1>3, DeliverSound
<1>5. ec' = [ec EXCEPT ![n] = e]  BY <1>3
<1> HIDE DEF d
<1>6. Sound(e) /\ OneMore(d, e)
  <2>1. \A sn \in Histories : d \in GoodEcs(n, sn) /\ KeyOf(rx[n]) \in sn[n]
                              => Sound(e) /\ OneMore(d, e)
    BY <1>1, <1>2, <1>4, QueueAckSound
  <2> HIDE DEF e
  <2> QED  BY <2>1, <1>4
<1> HIDE DEF e
<1>7. ec'[n] = e  BY <1>5 DEF IInv, EcInv
<1>8. e.sq.null_write = ec[n].sq.null_write  BY <1>4, <1>6 DEF OneMore
<1> QED  BY <1>5, <1>6, <1>7, <1>8, StepQInv

\* A packet straight from the sink, kept or dropped.
LEMMA RecvFromSinkQInv ==
  ASSUME IInv, QInv, NEW n \in Node, RecvFromSink(n)
  PROVE  QInv' /\ ec'[n].sq.null_write = ec[n].sq.null_write
<1>1. rx[n] \in Packet /\ UNCHANGED <<up, life, sink_seqno>>
  BY HandleGood DEF RecvFromSink, Handle
<1>2. CASE UNCHANGED <<ec, seen, log>>  BY <1>2 DEF QInv
<1>3. ASSUME HasRoomForPackets(ec[n].sq, 3), NEW reply \in {FALSE, MayOriginate(n)},
             ec' = [ec EXCEPT ![n] =
                      StorePacketForDupeChecks(Callback(ec[n], n, rx[n], reply),
                                               KeyOf(rx[n]))],
             Deliver(n, rx[n], Callback(ec[n], n, rx[n], reply))
      PROVE  QInv' /\ ec'[n].sq.null_write = ec[n].sq.null_write
  <2> DEFINE d == StorePacketForDupeChecks(Callback(ec[n], n, rx[n], reply),
                                           KeyOf(rx[n]))
  <2>1. Sound(d) /\ d.sq.null_write = ec[n].sq.null_write
    BY <1>1, <1>3, DeliverSound
  <2>2. ec' = [ec EXCEPT ![n] = d]  BY <1>3
  <2> HIDE DEF d
  <2>3. ec'[n] = d  BY <2>2 DEF IInv, EcInv
  <2> QED  BY <2>1, <2>2, <2>3, StepQInv
<1> QED  BY <1>2, <1>3 DEF RecvFromSink

\* The application sends a packet of its own.
LEMMA AppBroadcastQInv ==
  ASSUME IInv, QInv, NEW n \in Node, AppBroadcast(n)
  PROVE  QInv'
<1> DEFINE key == <<n, ec[n].seqno>>
           all == [m \in Node |-> {k \in Key : k[2] \in 0..(MaxOwn + MaxFloods)}]
           c == OwnBroadcast(ec[n], n)
<1>0. /\ ec[n] \in GoodEcs(n, seen) /\ Sound(ec[n])
      /\ seen \in Histories /\ life[n] \in Nat
      /\ ec[n].seqno \in 0..255 /\ ec[n].seqno < MaxOwn
  BY DEF IInv, EcInv, RestInv, EcRecord, QInv, AppBroadcast, MayOriginate
<1>1. all \in Histories /\ Grows(seen, all)
  <2>1. seen \in [Node -> SUBSET Key] /\ \A m \in Node : seen[m] \subseteq Genuine(seen)
    BY <1>0 DEF Histories
  <2>2. all \in [Node -> SUBSET Key]  OBVIOUS
  <2>3. \A m \in Node : all[m] \subseteq Genuine(all)
    BY DEF Genuine, Key
  <2>4. Grows(seen, all)  BY <2>1 DEF Grows, Genuine, Key
  <2> QED  BY <2>2, <2>3, <2>4 DEF Histories
<1>2. key \in all[n]
  <2>1. ec[n].seqno \in 0..(MaxOwn + MaxFloods)
    <3> DEFINE s == ec[n].seqno
    <3>1. s \in 0..255 /\ s < MaxOwn /\ MaxOwn \in 0..255 /\ MaxFloods \in 0..255
      BY <1>0, NeighborConnAssumption
    <3> HIDE DEF s
    <3>2. s \in 0..(MaxOwn + MaxFloods)  BY <3>1
    <3> QED  BY <3>2 DEF s
  <2>2. key \in Key  BY <1>0 DEF Key
  <2> QED  BY <2>1, <2>2
<1> HIDE DEF all
<1>3. ec[n] \in GoodEcs(n, all)  BY <1>0, <1>1, GoodEcsMonotonic
<1>4. Sound(c)  BY <1>0, <1>1, <1>2, <1>3, OwnBroadcastSound
<1>5. ec' = [ec EXCEPT ![n] = c]  BY DEF AppBroadcast
<1> HIDE DEF c
<1> QED  BY <1>4, <1>5, StepQInv

\* An empty queue is sound.
LEMMA ClosedSound == Sound(ClosedEc)
<1>1. ClosedEc.sq.queued = << >>  BY DEF ClosedEc, EmptyBuffer
<1>2. DOMAIN << >> = {}  OBVIOUS
<1> QED  BY <1>1, <1>2 DEF Sound, SoundQueue, Awake

\* Every step keeps the queues sound.
LEMMA NextQInv == IInv /\ QInv /\ [Next]_vars => QInv'
<1> SUFFICES ASSUME IInv, QInv, [Next]_vars PROVE QInv'
  OBVIOUS
<1>1. ASSUME NEW n \in Node, SendData(n) PROVE QInv'  BY <1>1, SendDataQInv
<1>2. ASSUME NEW n \in Node, SendAck(n) PROVE QInv'  BY <1>2, SendAckQInv
<1>3. ASSUME NEW n \in Node, Recv(n) PROVE QInv'
  <2>1. CASE RecvNotForUs(n) \/ RecvAckForNonSentPacket(n) \/ RecvDataOverflow(n)
    <3>1. UNCHANGED ec
      BY <2>1 DEF RecvNotForUs, RecvAckForNonSentPacket, RecvDataOverflow
    <3> QED  BY <3>1 DEF QInv
  <2> QED
    BY <1>3, <2>1, RecvAckQInv, RecvDupeQInv, RecvNewDataQInv, RecvFromSinkQInv
       DEF Recv
<1>4. ASSUME NEW n \in Node, AppBroadcast(n) PROVE QInv'
  BY <1>4, AppBroadcastQInv
<1>5. ASSUME NEW n \in Node, Crash(n) PROVE QInv'
  <2>1. ec' = [ec EXCEPT ![n] = ClosedEc]  BY <1>5 DEF Crash
  <2> QED  BY <2>1, ClosedSound, StepQInv
<1>6. ASSUME NEW n \in Node, Restart(n) PROVE QInv'  BY <1>6 DEF Restart, QInv
<1>7. CASE SinkBroadcast  BY <1>7 DEF SinkBroadcast, QInv
<1>8. CASE UNCHANGED vars  BY <1>8 DEF vars, QInv
<1> QED
  BY <1>1, <1>2, <1>3, <1>4, <1>5, <1>6, <1>7, <1>8 DEF Next

\* The queues are sound in every reachable state.
LEMMA AlwaysQInv == Spec => [](IInv /\ QInv)
<1>1. Init => QInv  BY ClosedSound DEF Init, QInv
<1> QED  BY <1>1, InitIInv, NextIInv, NextQInv, PTL DEF Spec

-----------------------------------------------------------------------------
(* The refinement.  What the abstract specification sees of a queue is the *)
(* list of its data packets; each operation on the queue is an operation   *)
(* on that list, or leaves it alone.                                       *)

DataIn(q) == {i \in DOMAIN q : q[i].type = NEIGHBOR_DATA}

AsMessage(b) == [key |-> KeyOf(b.p), waiting |-> b.unacked_ns, sent |-> b.times_sent]

\* f lists the positions of the k data packets of q.
Lists(f, k, q) == Enumerates(f, k, DataIn(q)) /\ DataIn(q) \in SUBSET Nat

\* In an ascending list the element at place i is the one with i - 1 below it.
LEMMA NthListed ==
  ASSUME NEW M \in SUBSET Nat, NEW k, NEW f, Enumerates(f, k, M), NEW i \in 1..k
  PROVE  Nth(M, i) = f[i]
<1>0. k \in Nat /\ f \in [1..k -> M]  BY DEF Enumerates
<1>1. ASSUME NEW j \in 1..k PROVE Cardinality({y \in M : y < f[j]}) = j - 1
  <2> DEFINE B == {y \in M : y < f[j]}
             g == [a \in 1..(j - 1) |-> f[a]]
  <2>1. B \in SUBSET Nat /\ f[j] \in M  BY <1>0
  <2>2. \A a \in 1..k : f[a] < f[j] <=> a < j
    <3> TAKE a \in 1..k
    <3>1. f[a] \in Nat /\ f[j] \in Nat  BY <1>0
    <3>2. a < j => f[a] < f[j]  BY DEF Enumerates
    <3>3. j < a => f[j] < f[a]  BY DEF Enumerates
    <3> QED  BY <3>1, <3>2, <3>3, <1>0
  <2>3. j - 1 \in Nat /\ \A a \in 1..(j - 1) : a \in 1..k /\ a < j  BY <1>0
  <2>4. g \in [1..(j - 1) -> B]  BY <2>2, <2>3, <1>0
  <2>5. \A a, b \in 1..(j - 1) : a < b => g[a] < g[b]  BY <2>3 DEF Enumerates
  <2>6. ASSUME NEW m \in B PROVE \E a \in 1..(j - 1) : g[a] = m
    <3>1. PICK a \in 1..k : f[a] = m  BY DEF Enumerates
    <3>2. a \in 1..(j - 1)  BY <3>1, <2>2, <2>6, <1>0
    <3> QED  BY <3>1, <3>2
  <2> HIDE DEF g, B
  <2>7. Enumerates(g, j - 1, B)  BY <2>3, <2>4, <2>5, <2>6 DEF Enumerates
  <2>8. Cardinality(B) = j - 1  BY <2>1, <2>7, EnumeratesCardinality
  <2> QED  BY <2>8 DEF B
<1>2. ASSUME NEW x \in M, Cardinality({y \in M : y < x}) = i - 1 PROVE x = f[i]
  <2>1. PICK j \in 1..k : f[j] = x  BY DEF Enumerates
  <2>2. j - 1 = i - 1  BY <2>1, <1>1, <1>2
  <2>3. j = i  BY <2>2
  <2> QED  BY <2>1, <2>3
<1>3. f[i] \in M  BY <1>0
<1> QED  BY <1>1, <1>2, <1>3 DEF Nth

\* The data packets of a queue can be listed.
LEMMA ListExists ==
  ASSUME NEW S, NEW q \in Seq(S)
  PROVE  \E k, f : Lists(f, k, q)
<1>1. DOMAIN q = 1..Len(q) /\ Len(q) \in Nat  BY LenProperties
<1>2. DataIn(q) \in SUBSET (1..Len(q))  BY <1>1 DEF DataIn
<1>3. DataIn(q) \in SUBSET Nat  BY <1>2
<1>4. \E k, f : Enumerates(f, k, DataIn(q))  BY <1>1, <1>2, EnumerationExists
<1> QED  BY <1>3, <1>4 DEF Lists

\* The messages of a queue, by the list of its data packets.
LEMMA MessagesListed ==
  ASSUME NEW q, NEW k, NEW f, Lists(f, k, q)
  PROVE  /\ k \in Nat /\ f \in [1..k -> DataIn(q)]
         /\ Messages(q) = [i \in 1..k |-> AsMessage(q[f[i]])]
         /\ DOMAIN Messages(q) = 1..k
         /\ \A i \in 1..k : Messages(q)[i] = AsMessage(q[f[i]])
<1> DEFINE M == DataIn(q)
<1>1. Enumerates(f, k, M) /\ M \in SUBSET Nat  BY DEF Lists
<1>2. k \in Nat /\ f \in [1..k -> M]  BY <1>1 DEF Enumerates
<1>3. Messages(q) = [i \in 1..Cardinality(M) |->
                       [key     |-> KeyOf(q[Nth(M, i)].p),
                        waiting |-> q[Nth(M, i)].unacked_ns,
                        sent    |-> q[Nth(M, i)].times_sent]]
  BY DEF Messages, DataIn
<1> HIDE DEF M
<1>4. Cardinality(M) = k  BY <1>1, EnumeratesCardinality
<1>5. \A i \in 1..k : Nth(M, i) = f[i]  BY <1>1, NthListed
<1>6. Messages(q) = [i \in 1..k |-> AsMessage(q[f[i]])]
  BY <1>3, <1>4, <1>5 DEF AsMessage
<1> QED  BY <1>2, <1>6 DEF M

\* The messages of a queue are a sequence.
LEMMA MessagesSeq ==
  ASSUME NEW q, NEW k, NEW f, Lists(f, k, q), NEW T,
         \A a \in DataIn(q) : AsMessage(q[a]) \in T
  PROVE  Messages(q) \in Seq(T) /\ Len(Messages(q)) = k
<1>1. /\ k \in Nat /\ f \in [1..k -> DataIn(q)]
      /\ Messages(q) = [i \in 1..k |-> AsMessage(q[f[i]])]
  BY MessagesListed
<1>2. [i \in 1..k |-> AsMessage(q[f[i]])] \in [1..k -> T]  BY <1>1
<1> DEFINE m == [i \in 1..k |-> AsMessage(q[f[i]])]
<1> HIDE DEF m
<1>3. m \in [1..k -> T]  BY <1>2 DEF m
<1>4. m \in Seq(T) /\ Len(m) = k  BY <1>1, <1>3, SeqDef, LenProperties
<1> QED  BY <1>1, <1>4 DEF m

\* Two queues with the same data packets have the same messages.
LEMMA MessagesSame ==
  ASSUME NEW S, NEW q \in Seq(S), NEW r, DataIn(r) = DataIn(q),
         \A a \in DataIn(q) : AsMessage(r[a]) = AsMessage(q[a])
  PROVE  Messages(r) = Messages(q)
<1>1. PICK k, f : Lists(f, k, q)  BY ListExists
<1>2. Lists(f, k, r)  BY <1>1 DEF Lists
<1>3. /\ f \in [1..k -> DataIn(q)]
      /\ Messages(q) = [i \in 1..k |-> AsMessage(q[f[i]])]
      /\ Messages(r) = [i \in 1..k |-> AsMessage(r[f[i]])]
  BY <1>1, <1>2, MessagesListed
<1> QED  BY <1>3

\* A packet is put at the end of a queue.
LEMMA MessagesAppended ==
  ASSUME NEW S, NEW q \in Seq(S), NEW b \in S
  PROVE  Messages(Append(q, b)) = IF b.type = NEIGHBOR_DATA
                                  THEN Append(Messages(q), AsMessage(b))
                                  ELSE Messages(q)
<1> DEFINE n == Len(q)
           r == Append(q, b)
<1>0. /\ n \in Nat /\ DOMAIN q = 1..n
      /\ r \in Seq(S) /\ Len(r) = n + 1
      /\ \A i \in 1..n : r[i] = q[i]
      /\ r[n + 1] = b
  BY LenProperties, AppendProperties
<1>1. DOMAIN r = 1..(n + 1)
  <2> HIDE DEF r, n
  <2> QED  BY <1>0, LenProperties
<1> HIDE DEF r, n
<1>2. /\ n + 1 \in DOMAIN r /\ n + 1 \notin DOMAIN q
      /\ \A i \in DOMAIN r : i = n + 1 \/ i \in DOMAIN q
      /\ \A i \in DOMAIN q : i \in DOMAIN r /\ r[i] = q[i] /\ i < n + 1
  BY <1>0, <1>1
<1>3. CASE b.type # NEIGHBOR_DATA
  <2>1. DataIn(r) = DataIn(q)  BY <1>0, <1>2, <1>3 DEF DataIn
  <2>2. \A a \in DataIn(q) : AsMessage(r[a]) = AsMessage(q[a])  BY <1>2 DEF DataIn
  <2>3. Messages(r) = Messages(q)  BY <2>1, <2>2, MessagesSame
  <2> QED  BY <2>3, <1>3 DEF r
<1>4. CASE b.type = NEIGHBOR_DATA
  <2>1. PICK k, f : Lists(f, k, q)  BY ListExists
  <2>2. DataIn(r) = DataIn(q) \cup {n + 1}  BY <1>0, <1>2, <1>4 DEF DataIn
  <2>3. \A m \in DataIn(q) : m < n + 1  BY <1>2 DEF DataIn
  <2> DEFINE g == [i \in 1..(k + 1) |-> IF i = k + 1 THEN n + 1 ELSE f[i]]
             T == {AsMessage(q[a]) : a \in DataIn(q)} \cup {AsMessage(b)}
             u == Messages(q)
             v == Messages(r)
             w == Append(u, AsMessage(b))
  <2>4. Lists(g, k + 1, r)
    <3>1. Enumerates(f, k, DataIn(q)) /\ DataIn(q) \in SUBSET Nat  BY <2>1 DEF Lists
    <3>2. n + 1 \in Nat  BY <1>0
    <3>3. Enumerates(g, k + 1, DataIn(q) \cup {n + 1})
      BY <3>1, <3>2, <2>3, EnumeratesExtended
    <3> HIDE DEF g
    <3> QED  BY <3>1, <3>2, <3>3, <2>2 DEF Lists
  <2>5. /\ k \in Nat /\ f \in [1..k -> DataIn(q)]
        /\ u \in Seq(T) /\ Len(u) = k
        /\ \A i \in 1..k : u[i] = AsMessage(q[f[i]])
    <3>1. \A a \in DataIn(q) : AsMessage(q[a]) \in T  OBVIOUS
    <3> HIDE DEF T
    <3> QED  BY <3>1, <2>1, MessagesListed, MessagesSeq
  <2>6. /\ v \in Seq(T) /\ Len(v) = k + 1
        /\ \A i \in 1..(k + 1) : v[i] = AsMessage(r[g[i]])
    <3>1. \A a \in DataIn(r) : AsMessage(r[a]) \in T
      BY <2>2, <1>0, <1>2 DEF DataIn
    <3> HIDE DEF T, g
    <3> QED  BY <3>1, <2>4, MessagesListed, MessagesSeq
  <2>7. /\ w \in Seq(T) /\ Len(w) = k + 1
        /\ \A i \in 1..k : w[i] = u[i]
        /\ w[k + 1] = AsMessage(b)
    <3>1. AsMessage(b) \in T  OBVIOUS
    <3> HIDE DEF T, u
    <3> QED  BY <3>1, <2>5, AppendProperties
  <2>8. ASSUME NEW i \in 1..(k + 1) PROVE v[i] = w[i]
    <3>1. CASE i = k + 1
      <4>1. g[i] = n + 1  BY <3>1
      <4> QED  BY <4>1, <3>1, <2>6, <2>7, <1>0
    <3>2. CASE i \in 1..k
      <4>1. g[i] = f[i] /\ f[i] \in DataIn(q)  BY <3>2, <2>5
      <4>2. r[f[i]] = q[f[i]]  BY <4>1, <1>2 DEF DataIn
      <4> HIDE DEF g, u, v, w
      <4> QED  BY <4>1, <4>2, <3>2, <2>5, <2>6, <2>7
    <3> QED  BY <3>1, <3>2, <2>5
  <2> HIDE DEF T, u, v, w
  <2>9. v = w  BY <2>6, <2>7, <2>8, SeqEqual
  <2> QED  BY <2>9, <1>4 DEF r, u, v, w
<1> QED  BY <1>3, <1>4

\* The packet in place j of the list is rewritten.
LEMMA MessagesUpdated ==
  ASSUME NEW q, NEW k, NEW f, Lists(f, k, q), NEW j \in 1..k,
         NEW b, b.type = NEIGHBOR_DATA
  PROVE  Messages([q EXCEPT ![f[j]] = b]) = [Messages(q) EXCEPT ![j] = AsMessage(b)]
<1> DEFINE r == [q EXCEPT ![f[j]] = b]
<1>1. /\ k \in Nat /\ f \in [1..k -> DataIn(q)]
      /\ Messages(q) = [i \in 1..k |-> AsMessage(q[f[i]])]
  BY MessagesListed
<1>2. f[j] \in DOMAIN q  BY <1>1 DEF DataIn
<1>3. /\ DOMAIN r = DOMAIN q
      /\ r[f[j]] = b
      /\ \A a \in DOMAIN q : a # f[j] => r[a] = q[a]
  BY <1>2
<1> HIDE DEF r
<1>4. DataIn(r) = DataIn(q)  BY <1>1, <1>3 DEF DataIn
<1>5. Lists(f, k, r)  BY <1>4 DEF Lists
<1>6. Messages(r) = [i \in 1..k |-> AsMessage(r[f[i]])]  BY <1>5, MessagesListed
<1>7. \A i \in 1..k : i # j => f[i] # f[j]
  <2> SUFFICES ASSUME NEW i \in 1..k, i # j PROVE f[i] # f[j]
    OBVIOUS
  <2>1. f[i] \in Nat /\ f[j] \in Nat  BY <1>1 DEF Lists
  <2>2. i < j \/ j < i  BY <1>1
  <2>3. f[i] < f[j] \/ f[j] < f[i]  BY <2>2 DEF Lists, Enumerates
  <2> QED  BY <2>1, <2>3
<1>8. \A i \in 1..k : AsMessage(r[f[i]]) = IF i = j THEN AsMessage(b)
                                                    ELSE AsMessage(q[f[i]])
  BY <1>1, <1>3, <1>7 DEF DataIn
<1>9. Messages(r) = [Messages(q) EXCEPT ![j] = AsMessage(b)]
  BY <1>1, <1>6, <1>8
<1> QED  BY <1>9 DEF r

\* What a search finds first is in the first place of the list.
LEMMA FirstListed ==
  ASSUME NEW sq, NEW k, NEW f, Lists(f, k, sq.queued),
         NEW i \in FirstOfType(sq, NEIGHBOR_DATA)
  PROVE  1 \in 1..k /\ f[1] = i
<1> DEFINE q == sq.queued
<1>1. i \in DataIn(q) /\ \A a \in DataIn(q) : i <= a
  <2>1. i \in OfType(sq, NEIGHBOR_DATA) /\ \A a \in OfType(sq, NEIGHBOR_DATA) : i <= a
    BY FirstOfTypeLeast DEF NEIGHBOR_DATA
  <2> QED  BY <2>1 DEF OfType, DataIn
<1>2. Enumerates(f, k, DataIn(q)) /\ DataIn(q) \in SUBSET Nat  BY DEF Lists
<1> HIDE DEF q
<1>3. PICK j \in 1..k : f[j] = i  BY <1>1, <1>2 DEF Enumerates
<1>4. k \in Nat /\ 1 \in 1..k /\ f \in [1..k -> DataIn(q)]  BY <1>2 DEF Enumerates
<1>5. f[1] \in Nat /\ i \in Nat /\ i <= f[1]  BY <1>1, <1>2, <1>4
<1>6. 1 < j => f[1] < f[j]  BY <1>2, <1>4 DEF Enumerates
<1> QED  BY <1>3, <1>4, <1>5, <1>6

\* The l packets in the places g of a queue, as messages.
MessagesAt(q, l, g) == [a \in 1..l |-> AsMessage(q[g[a]])]

\* The packet in place i of a queue leaves; g lists the other data packets.
LEMMA MessagesWithout ==
  ASSUME NEW S, NEW q \in Seq(S), NEW i \in 1..Len(q),
         NEW M, M = DataIn(q) \ {i}, NEW l, NEW g, Enumerates(g, l, M)
  PROVE  Messages(RemoveAt(q, i)) = MessagesAt(q, l, g)
<1> DEFINE n == Len(q)
           r == RemoveAt(q, i)
           New(x) == IF x < i THEN x ELSE x - 1
           Old(x) == IF x < i THEN x ELSE x + 1
           h == [a \in 1..l |-> New(g[a])]
<1>1. /\ n \in Nat /\ i \in 1..n /\ DOMAIN q = 1..n
      /\ r \in Seq(S) /\ Len(r) = n - 1
      /\ \A j \in 1..(n - 1) : r[j] = IF j < i THEN q[j] ELSE q[j + 1]
  BY LenProperties, RemoveAtProperties
<1>2. DOMAIN r = 1..(n - 1)
  <2> HIDE DEF r
  <2> QED  BY <1>1, LenProperties
<1> HIDE DEF r, n
<1>3. M \in SUBSET ((1..n) \ {i})  BY <1>1 DEF DataIn
<1>4. \A x \in 1..(n - 1) : Old(x) \in (1..n) \ {i} /\ New(Old(x)) = x /\ r[x] = q[Old(x)]
  BY <1>1
<1>5. \A x \in (1..n) \ {i} : New(x) \in 1..(n - 1) /\ r[New(x)] = q[x]
  BY <1>1
<1>6. \A x, y \in (1..n) \ {i} : x < y => New(x) < New(y)
  BY <1>1
<1>7. DataIn(r) = {New(x) : x \in M}
  <2>1. ASSUME NEW x \in DataIn(r) PROVE \E y \in M : x = New(y)
    <3>1. x \in 1..(n - 1)  BY <1>2 DEF DataIn
    <3>2. Old(x) \in M /\ New(Old(x)) = x
      BY <3>1, <1>1, <1>4 DEF DataIn
    <3> QED  BY <3>2
  <2>2. ASSUME NEW y \in M PROVE New(y) \in DataIn(r)
    <3>1. y \in (1..n) \ {i} /\ q[y].type = NEIGHBOR_DATA  BY <1>3 DEF DataIn
    <3>2. New(y) \in 1..(n - 1) /\ r[New(y)] = q[y]  BY <3>1, <1>5
    <3> HIDE DEF New
    <3> QED  BY <3>1, <3>2, <1>2 DEF DataIn
  <2> HIDE DEF New
  <2> QED  BY <2>1, <2>2
<1>8. l \in Nat /\ g \in [1..l -> M]  BY DEF Enumerates
<1>9. \A a \in 1..l : g[a] \in M /\ g[a] \in (1..n) \ {i} /\ h[a] = New(g[a])
  BY <1>3, <1>8
<1>10. \A a \in 1..l : r[h[a]] = q[g[a]]
  <2> HIDE DEF h, New
  <2> QED  BY <1>5, <1>9
<1>11. Enumerates(h, l, DataIn(r))
  <2>1. h \in [1..l -> DataIn(r)]
    <3>1. \A a \in 1..l : New(g[a]) \in DataIn(r)  BY <1>7, <1>8
    <3> HIDE DEF New
    <3> QED  BY <3>1
  <2>2. ASSUME NEW a \in 1..l, NEW b \in 1..l, a < b PROVE h[a] < h[b]
    <3>1. g[a] < g[b]  BY <2>2 DEF Enumerates
    <3> HIDE DEF h, New
    <3> QED  BY <3>1, <1>6, <1>9
  <2>3. ASSUME NEW m \in DataIn(r) PROVE \E a \in 1..l : h[a] = m
    <3>1. PICK y \in M : m = New(y)  BY <1>7
    <3>2. PICK a \in 1..l : g[a] = y  BY DEF Enumerates
    <3> HIDE DEF h, New
    <3> QED  BY <3>1, <3>2, <1>9
  <2> HIDE DEF h
  <2> QED  BY <1>8, <2>1, <2>2, <2>3 DEF Enumerates
<1>12. DataIn(r) \in SUBSET Nat  BY <1>2 DEF DataIn
<1> HIDE DEF h
<1>13. Lists(h, l, r)  BY <1>11, <1>12 DEF Lists
<1>14. Messages(r) = [a \in 1..l |-> AsMessage(r[h[a]])]  BY <1>13, MessagesListed
<1>15. Messages(r) = MessagesAt(q, l, g)  BY <1>10, <1>14 DEF MessagesAt
<1> QED  BY <1>15 DEF r

\* A packet of another type leaves a queue.
LEMMA MessagesKept ==
  ASSUME NEW S, NEW q \in Seq(S), NEW i \in 1..Len(q), i \notin DataIn(q)
  PROVE  Messages(RemoveAt(q, i)) = Messages(q)
<1>1. PICK k, f : Lists(f, k, q)  BY ListExists
<1> DEFINE M == DataIn(q)
<1>2. Enumerates(f, k, M) /\ M = DataIn(q) \ {i}  BY <1>1 DEF Lists
<1> HIDE DEF M
<1>3. Messages(RemoveAt(q, i)) = MessagesAt(q, k, f)  BY <1>2, MessagesWithout
<1>4. Messages(q) = MessagesAt(q, k, f)  BY <1>1, MessagesListed DEF MessagesAt
<1> QED  BY <1>3, <1>4

\* The packet in place j of the list leaves the queue.
LEMMA MessagesRemoved ==
  ASSUME NEW S, NEW q \in Seq(S), NEW k, NEW f, Lists(f, k, q), NEW j \in 1..k
  PROVE  Messages(RemoveAt(q, f[j])) = RemoveAt(Messages(q), j)
<1> DEFINE i == f[j]
           M == DataIn(q) \ {i}
           l == k - 1
           g == [a \in 1..l |-> f[IF a < j THEN a ELSE a + 1]]
           T == {AsMessage(q[a]) : a \in DataIn(q)}
           u == Messages(q)
           v == Messages(RemoveAt(q, i))
           w == RemoveAt(u, j)
<1>1. /\ Enumerates(f, k, DataIn(q)) /\ DataIn(q) \in SUBSET Nat
      /\ k \in Nat /\ f \in [1..k -> DataIn(q)]
  BY DEF Lists, Enumerates
<1>2. i \in 1..Len(q)
  <2>1. i \in DataIn(q) /\ DOMAIN q = 1..Len(q)  BY <1>1, LenProperties
  <2> QED  BY <2>1 DEF DataIn
<1>3. Enumerates(g, l, M)  BY <1>1, EnumeratesWithout
<1>4. v = [a \in 1..l |-> AsMessage(q[g[a]])]
  <2>1. M = DataIn(q) \ {i}  OBVIOUS
  <2> HIDE DEF g, i, M, l
  <2>2. v = MessagesAt(q, l, g)  BY <2>1, <1>2, <1>3, MessagesWithout
  <2> QED  BY <2>2 DEF MessagesAt
<1>5. /\ u \in Seq(T) /\ Len(u) = k
      /\ \A a \in 1..k : u[a] = AsMessage(q[f[a]])
  <2>1. \A a \in DataIn(q) : AsMessage(q[a]) \in T  OBVIOUS
  <2> HIDE DEF T
  <2> QED  BY <2>1, MessagesListed, MessagesSeq
<1>6. /\ w \in Seq(T) /\ Len(w) = k - 1
      /\ \A a \in 1..(k - 1) : w[a] = IF a < j THEN u[a] ELSE u[a + 1]
  <2> HIDE DEF T, u
  <2> QED  BY <1>5, RemoveAtProperties
<1>7. ASSUME NEW a \in 1..(k - 1)
      PROVE  AsMessage(q[g[a]]) = w[a]
  <2>1. a \in 1..k /\ a + 1 \in 1..k  BY <1>1
  <2>2. g[a] = f[IF a < j THEN a ELSE a + 1]  OBVIOUS
  <2> HIDE DEF g, u, w
  <2> QED  BY <2>1, <2>2, <1>5, <1>6
<1>8. w = [a \in 1..(k - 1) |-> w[a]]
  <2> HIDE DEF w, T
  <2>1. DOMAIN w = 1..(k - 1) /\ w = [a \in DOMAIN w |-> w[a]]
    BY <1>6, LenProperties
  <2> QED  BY <2>1
<1> HIDE DEF u, v, w, g
<1>9. v = w  BY <1>4, <1>7, <1>8
<1> QED  BY <1>9 DEF u, v, w, i

\* A packet is added, if there is room.
LEMMA MessagesAdded ==
  ASSUME NEW S, NEW pb \in BufferOf(S), NEW type, NEW p, NEW ns
  PROVE  Messages(AddPacket(pb, type, p, ns).queued) =
           IF type = NEIGHBOR_DATA /\ ~Full(pb)
           THEN Append(Messages(pb.queued), [key |-> KeyOf(p), waiting |-> ns, sent |-> 0])
           ELSE Messages(pb.queued)
<1> DEFINE b == [type |-> type, p |-> p, unacked_ns |-> ns, times_sent |-> 0]
           q == pb.queued
           q2 == Append(q, b)
           T == S \cup {b}
           d == AddPacket(pb, type, p, ns)
<1>1. q \in Seq(S) /\ pb \in [queued : Seq(S), leftover : Seq(SUBSET Node), null_write : BOOLEAN]
  BY DEF BufferOf
<1>2. CASE Full(pb)
  <2>1. d = [pb EXCEPT !.null_write = TRUE]  BY <1>2 DEF AddPacket
  <2>2. d.queued = q  BY <2>1, <1>1
  <2> HIDE DEF d, q
  <2>3. Messages(d.queued) = Messages(q)  BY <2>2
  <2> QED  BY <2>3, <1>2 DEF d, q
<1>3. CASE ~Full(pb)
  <2>1. q \in Seq(T) /\ b \in T  BY <1>1, SeqMonotonic
  <2>2. Messages(q2) = IF b.type = NEIGHBOR_DATA
                       THEN Append(Messages(q), AsMessage(b))
                       ELSE Messages(q)
    <3> HIDE DEF T, q, b
    <3> QED  BY <2>1, MessagesAppended
  <2>3. d = [pb EXCEPT !.queued = q2, !.leftover = Tail(@)]  BY <1>3 DEF AddPacket
  <2>4. /\ b.type = type
        /\ AsMessage(b) = [key |-> KeyOf(p), waiting |-> ns, sent |-> 0]
    BY DEF AsMessage
  <2> HIDE DEF q2, b
  <2>5. d.queued = q2  BY <2>3, <1>1
  <2> HIDE DEF d, q
  <2>6. Messages(d.queued) = Messages(q2)  BY <2>5
  <2> QED  BY <2>2, <2>4, <2>6, <1>3 DEF d, q
<1> QED  BY <1>2, <1>3

\* A packet is freed: of another type, or in place j of the list.
LEMMA MessagesFreed ==
  ASSUME NEW S, NEW pb \in BufferOf(S), NEW i \in DOMAIN pb.queued
  PROVE  /\ i \notin DataIn(pb.queued) =>
              Messages(FreePacket(pb, i).queued) = Messages(pb.queued)
         /\ \A k, f : Lists(f, k, pb.queued) => \A j \in 1..k : f[j] = i =>
              Messages(FreePacket(pb, i).queued) = RemoveAt(Messages(pb.queued), j)
<1>1. /\ i \in 1..Len(pb.queued)
      /\ FreePacket(pb, i).queued = RemoveAt(pb.queued, i)
  BY FreePacketPositions
<1>2. pb.queued \in Seq(S)  BY DEF BufferOf
<1> DEFINE q == pb.queued
           r == FreePacket(pb, i).queued
<1>3. q \in Seq(S) /\ i \in 1..Len(q) /\ r = RemoveAt(q, i)  BY <1>1, <1>2
<1> HIDE DEF q, r
<1>4. i \notin DataIn(q) => Messages(r) = Messages(q)  BY <1>3, MessagesKept
<1>5. ASSUME NEW k, NEW f, Lists(f, k, q), NEW j \in 1..k, f[j] = i
      PROVE  Messages(r) = RemoveAt(Messages(q), j)
  BY <1>3, <1>5, MessagesRemoved
<1> QED  BY <1>4, <1>5 DEF q, r

\* The first data packet is sent once more.
LEMMA MessagesSent ==
  ASSUME NEW n \in Node, NEW sn, NEW sq \in BufferOf(GoodEntries(n, sn)),
         NEW i \in FirstOfType(sq, NEIGHBOR_DATA)
  PROVE  /\ Messages(sq.queued) # << >>
         /\ Messages(IncrementTimesSent(sq, i).queued) =
              Reliable!Sent(Messages(sq.queued))
         /\ Messages(sq.queued)[1] = AsMessage(sq.queued[i])
<1> DEFINE q == sq.queued
           b == [q[i] EXCEPT !.times_sent = @ + 1]
           r == [q EXCEPT ![i] = b]
           u == Messages(q)
<1>1. sq \in [queued : Seq(GoodEntries(n, sn)), leftover : Seq(SUBSET Node), null_write : BOOLEAN]
  BY DEF BufferOf
<1>2. PICK k, f : Lists(f, k, q)
  <2>1. q \in Seq(GoodEntries(n, sn))  BY <1>1
  <2> QED  BY <2>1, ListExists
<1>3. 1 \in 1..k /\ f[1] = i  BY <1>2, FirstListed
<1>4. /\ k \in Nat /\ f \in [1..k -> DataIn(q)]
      /\ DOMAIN u = 1..k
      /\ u[1] = AsMessage(q[i])
  <2> HIDE DEF q
  <2> QED  BY <1>2, <1>3, MessagesListed
<1>5. i \in DOMAIN q /\ q[i].type = NEIGHBOR_DATA  BY <1>3, <1>4 DEF DataIn
<1>6. q[i] \in BufferedPacket  BY <1>5, BufferElement DEF GoodEntries
<1>7. b.type = NEIGHBOR_DATA /\ AsMessage(b) = [AsMessage(q[i]) EXCEPT !.sent = @ + 1]
  <2> HIDE DEF q
  <2> QED  BY <1>5, <1>6 DEF BufferedPacket, AsMessage
<1>8. IncrementTimesSent(sq, i).queued = r
  <2>1. IncrementTimesSent(sq, i) = [sq EXCEPT !.queued = r]
    BY DEF IncrementTimesSent
  <2> HIDE DEF r
  <2> QED  BY <2>1, <1>1
<1>9. Messages(r) = [u EXCEPT ![1] = AsMessage(b)]
  <2> HIDE DEF b, q
  <2> QED  BY <1>2, <1>3, <1>7, MessagesUpdated
<1> HIDE DEF b, q, u
<1>10. Messages(r) = [u EXCEPT ![1].sent = @ + 1]  BY <1>4, <1>7, <1>9
<1>11. u # << >>
  <2>1. 1 \in DOMAIN u  BY <1>3, <1>4
  <2> QED  BY <2>1
<1> HIDE DEF r
<1> QED  BY <1>4, <1>8, <1>10, <1>11 DEF q, u, Reliable!Sent

-----------------------------------------------------------------------------
(* The steps of the abstract specification. *)

\* The messages after a step that changes the struct ec of one node.
LEMMA StepOutstanding ==
  ASSUME IInv, NEW n \in Node, NEW c, ec' = [ec EXCEPT ![n] = c]
  PROVE  /\ Outstanding' = [Outstanding EXCEPT ![n] = Messages(c.sq.queued)]
         /\ Outstanding[n] = Messages(ec[n].sq.queued)
<1>1. DOMAIN ec = Node  BY DEF IInv, EcInv
<1>2. ec'[n] = c /\ \A m \in Node : m # n => ec'[m] = ec[m]  BY <1>1
<1>3. \A m \in Node : Messages(ec'[m].sq.queued) =
                        IF m = n THEN Messages(c.sq.queued) ELSE Messages(ec[m].sq.queued)
  BY <1>2
<1>4. Outstanding' = [m \in Node |-> Messages(ec'[m].sq.queued)]  BY DEF Outstanding
<1>5. Outstanding = [m \in Node |-> Messages(ec[m].sq.queued)]  BY DEF Outstanding
<1> QED  BY <1>3, <1>4, <1>5

\* A step the abstract specification does not see.
LEMMA StepUnseen ==
  ASSUME IInv, NEW n \in Node, NEW c, ec' = [ec EXCEPT ![n] = c],
         Messages(c.sq.queued) = Messages(ec[n].sq.queued), seen' = seen
  PROVE  UNCHANGED <<Outstanding, seen>>
<1>1. /\ Outstanding' = [Outstanding EXCEPT ![n] = Messages(c.sq.queued)]
      /\ Outstanding[n] = Messages(ec[n].sq.queued)
  BY StepOutstanding
<1>2. Outstanding' = [Outstanding EXCEPT ![n] = Outstanding[n]]  BY <1>1
<1> HIDE DEF Outstanding
<1>3. Outstanding = [m \in Node |-> Messages(ec[m].sq.queued)]  BY DEF Outstanding
<1>4. Outstanding' = Outstanding  BY <1>2, <1>3
<1> QED  BY <1>4

\* The data timer: nothing, a transmission, or the oldest packet given up.
LEMMA SendDataRefines ==
  ASSUME IInv, QInv, NEW n \in Node, SendData(n)
  PROVE  Reliable!Send(n) \/ Reliable!GiveUp(n) \/ UNCHANGED <<Outstanding, seen>>
<1> DEFINE S == GoodEntries(n, seen)
           sq == ec[n].sq
           u == Messages(sq.queued)
<1>0. /\ ec[n] \in GoodEcs(n, seen) /\ ec \in [Node -> EcRecord]
      /\ sq \in BufferOf(S)
  BY QueueBefore
<1>1. seen' = seen
  BY DEF SendData, NoDataToSend, SendFirstData, GiveUpFirstData, DataTimerFires
<1>2. ASSUME NEW s, ec' = [ec EXCEPT ![n].sq = s]
      PROVE  /\ Outstanding' = [Outstanding EXCEPT ![n] = Messages(s.queued)]
             /\ Messages(s.queued) = u => UNCHANGED <<Outstanding, seen>>
  <2> DEFINE c == [ec[n] EXCEPT !.sq = s]
  <2>1. ec' = [ec EXCEPT ![n] = c]  BY <1>2
  <2>2. c.sq = s  BY <1>0 DEF GoodEcs
  <2> HIDE DEF c
  <2> QED  BY <2>1, <2>2, <1>1, StepOutstanding, StepUnseen
<1>3. Outstanding[n] = u  BY DEF Outstanding
<1>4. CASE NoDataToSend(n)
  <2> DEFINE c == [ec[n] EXCEPT !.data_timer = FALSE]
  <2>1. ec' = [ec EXCEPT ![n] = c]  BY <1>4 DEF NoDataToSend
  <2>2. c.sq = ec[n].sq  BY <1>0 DEF GoodEcs
  <2> HIDE DEF c
  <2> QED  BY <2>1, <2>2, <1>1, StepUnseen
<1>5. CASE SendFirstData(n)
  <2>1. PICK i \in FirstOfType(sq, NEIGHBOR_DATA) :
          SendDataPacket(n, sq, i, sq.queued[i].p)
    BY <1>5 DEF SendFirstData
  <2>2. CASE ec' = [ec EXCEPT ![n].sq = sq]  BY <2>2, <1>2
  <2>3. CASE ec' = [ec EXCEPT ![n].sq = IncrementTimesSent(sq, i)]
    <3>1. u # << >> /\ Messages(IncrementTimesSent(sq, i).queued) = Reliable!Sent(u)
      <4> HIDE DEF sq
      <4> QED  BY <1>0, MessagesSent
    <3>2. Outstanding' = [Outstanding EXCEPT ![n] = Reliable!Sent(u)]
      BY <2>3, <3>1, <1>2
    <3> HIDE DEF u
    <3>3. Outstanding' = [Outstanding EXCEPT ![n] = Reliable!Sent(Outstanding[n])]
      BY <3>2, <1>3
    <3>4. Reliable!Send(n)  BY <3>1, <3>3, <1>1, <1>3 DEF Reliable!Send
    <3> QED  BY <3>4
  <2> QED  BY <2>1, <2>2, <2>3 DEF SendDataPacket
<1>6. CASE GiveUpFirstData(n)
  <2>1. PICK i \in FirstOfType(sq, NEIGHBOR_DATA) :
          /\ sq.queued[i].times_sent >= MaxTimesSent
          /\ \/ ec' = [ec EXCEPT ![n].sq = FreePacket(sq, i), ![n].data_timer = FALSE]
             \/ \E j \in FirstOfType(FreePacket(sq, i), NEIGHBOR_DATA) :
                  SendDataPacket(n, FreePacket(sq, i), j, sq.queued[i].p)
    BY <1>6 DEF GiveUpFirstData
  <2> DEFINE sq2 == FreePacket(sq, i)
             rest == Tail(u)
  <2>2. i \in DOMAIN sq.queued  BY FirstOfPositions DEF FirstOfType, OfType
  <2>3. sq2 \in BufferOf(S)
    <3> HIDE DEF sq
    <3> QED  BY <1>0, <2>2, FreeGood
  <2>4. /\ u # << >> /\ u[1] = AsMessage(sq.queued[i])
        /\ Messages(sq2.queued) = rest
    <3> HIDE DEF sq
    <3>1. u # << >> /\ u[1] = AsMessage(sq.queued[i])  BY <1>0, MessagesSent
    <3>2. sq.queued \in Seq(S)  BY <1>0 DEF BufferOf
    <3>3. PICK k, f : Lists(f, k, sq.queued)  BY <3>2, ListExists
    <3>4. 1 \in 1..k /\ f[1] = i  BY <3>3, FirstListed
    <3>5. Messages(sq2.queued) = RemoveAt(u, 1)
      BY <3>3, <3>4, <2>2, <1>0, MessagesFreed
    <3>6. u \in Seq({AsMessage(sq.queued[a]) : a \in DataIn(sq.queued)})
      <4> DEFINE T == {AsMessage(sq.queued[a]) : a \in DataIn(sq.queued)}
      <4>1. \A a \in DataIn(sq.queued) : AsMessage(sq.queued[a]) \in T  OBVIOUS
      <4> HIDE DEF T
      <4> QED  BY <4>1, <3>3, MessagesSeq DEF T
    <3> HIDE DEF u
    <3>7. RemoveAt(u, 1) = rest  BY <3>1, <3>6, RemoveAtFirst
    <3> QED  BY <3>1, <3>5, <3>7
  <2>5. Head(u).sent >= MaxTimesSent
    <3>1. u[1].sent = sq.queued[i].times_sent  BY <2>4 DEF AsMessage
    <3> HIDE DEF u
    <3> QED  BY <3>1, <2>1
  <2>6. ASSUME NEW s, s \in {rest} \cup {Reliable!Sent(r) : r \in {rest} \ {<< >>}},
               Outstanding' = [Outstanding EXCEPT ![n] = s]
        PROVE  Reliable!GiveUp(n)
    <3> HIDE DEF u, rest
    <3>1. u = Outstanding[n] /\ rest = Tail(u)  BY <1>3 DEF rest
    <3> QED  BY <3>1, <2>4, <2>5, <2>6, <1>1 DEF Reliable!GiveUp
  <2>7. CASE ec' = [ec EXCEPT ![n].sq = sq2, ![n].data_timer = FALSE]
    <3> DEFINE c == [ec[n] EXCEPT !.sq = sq2, !.data_timer = FALSE]
    <3>1. ec' = [ec EXCEPT ![n] = c]  BY <2>7, <1>0
    <3>2. c.sq = sq2  BY <1>0 DEF GoodEcs
    <3> HIDE DEF c, sq2
    <3>3. Outstanding' = [Outstanding EXCEPT ![n] = rest]
      BY <3>1, <3>2, <2>4, StepOutstanding
    <3> QED  BY <3>3, <2>6
  <2>8. ASSUME NEW j \in FirstOfType(sq2, NEIGHBOR_DATA),
               SendDataPacket(n, sq2, j, sq.queued[i].p)
        PROVE  Reliable!GiveUp(n)
    <3>1. rest # << >> /\ Messages(IncrementTimesSent(sq2, j).queued) = Reliable!Sent(rest)
      <4> HIDE DEF sq2
      <4> QED  BY <2>3, <2>4, MessagesSent
    <3>2. CASE ec' = [ec EXCEPT ![n].sq = sq2]
      <4>1. Outstanding' = [Outstanding EXCEPT ![n] = rest]  BY <3>2, <1>2, <2>4
      <4> QED  BY <4>1, <2>6
    <3>3. CASE ec' = [ec EXCEPT ![n].sq = IncrementTimesSent(sq2, j)]
      <4>1. Outstanding' = [Outstanding EXCEPT ![n] = Reliable!Sent(rest)]
        BY <3>1, <3>3, <1>2
      <4> HIDE DEF rest
      <4>2. Reliable!Sent(rest) \in {Reliable!Sent(r) : r \in {rest} \ {<< >>}}
        BY <3>1
      <4> QED  BY <4>1, <4>2, <2>6
    <3> QED  BY <2>8, <3>2, <3>3 DEF SendDataPacket
  <2> QED  BY <2>1, <2>7, <2>8
<1> QED  BY <1>4, <1>5, <1>6 DEF SendData

\* The ACK timer is not seen.
LEMMA SendAckRefines ==
  ASSUME IInv, QInv, NEW n \in Node, SendAck(n)
  PROVE  UNCHANGED <<Outstanding, seen>>
<1> DEFINE sq == ec[n].sq
<1>0. /\ ec[n] \in GoodEcs(n, seen) /\ ec \in [Node -> EcRecord]
      /\ sq \in BufferOf(GoodEntries(n, seen))
  BY QueueBefore
<1>1. seen' = seen
  BY DEF SendAck, NoAckToSend, SendFirstAck, AckTimerFires
<1>2. CASE NoAckToSend(n)
  <2> DEFINE c == [ec[n] EXCEPT !.ack_timer = FALSE]
  <2>1. ec' = [ec EXCEPT ![n] = c]  BY <1>2 DEF NoAckToSend
  <2>2. c.sq = ec[n].sq  BY <1>0 DEF GoodEcs
  <2> HIDE DEF c
  <2> QED  BY <2>1, <2>2, <1>1, StepUnseen
<1>3. CASE SendFirstAck(n)
  <2>1. PICK i \in FirstOfType(sq, NEIGHBOR_ACK) :
          ec' = [ec EXCEPT ![n].sq = FreePacket(sq, i),
                           ![n].ack_timer =
                              OfType(FreePacket(sq, i), NEIGHBOR_ACK) # {}]
    BY <1>3 DEF SendFirstAck
  <2> DEFINE sq2 == FreePacket(sq, i)
             timer == OfType(sq2, NEIGHBOR_ACK) # {}
             c == [ec[n] EXCEPT !.sq = sq2, !.ack_timer = timer]
  <2>2. ec' = [ec EXCEPT ![n] = c]  BY <2>1, <1>0
  <2>3. c.sq = sq2  BY <1>0 DEF GoodEcs
  <2>4. i \in DOMAIN sq.queued /\ i \notin DataIn(sq.queued)
    BY FirstOfPositions DEF FirstOfType, OfType, DataIn, NEIGHBOR_ACK, NEIGHBOR_DATA
  <2>5. Messages(sq2.queued) = Messages(sq.queued)
    <3> HIDE DEF sq
    <3> QED  BY <2>4, <1>0, MessagesFreed
  <2> HIDE DEF c, sq2
  <2> QED  BY <2>2, <2>3, <2>5, <1>1, StepUnseen
<1> QED  BY <1>2, <1>3 DEF SendAck

\* An ACK strikes its sender off the data packet it is found for, if that still
\* waits for it; found for a packet of another type it is not seen.
LEMMA RecvAckRefines ==
  ASSUME IInv, QInv, NEW n \in Node, RecvAck(n)
  PROVE  Reliable!Strike(n) \/ UNCHANGED <<Outstanding, seen>>
<1> DEFINE S == GoodEntries(n, seen)
           sq == ec[n].sq
           m == rx[n].sender
           q == sq.queued
           u == Messages(q)
<1>0. /\ ec[n] \in GoodEcs(n, seen) /\ ec \in [Node -> EcRecord]
      /\ sq \in BufferOf(S) /\ SoundQueue(q)
  BY QueueBefore
<1>1. m \in Node /\ KeyOf(rx[n]) \in seen[m] /\ seen' = seen
  BY HandleGood DEF RecvAck, GoodFrames, Handle
<1>2. PICK i \in FindByOriginatorSeqno(sq, rx[n]) :
        ec' = IF AllNeighborsAcked(NeighborAcked(sq, i, m), i)
              THEN [ec EXCEPT ![n].sq = FreePacket(NeighborAcked(sq, i, m), i),
                              ![n].data_timer = TRUE]
              ELSE [ec EXCEPT ![n].sq = NeighborAcked(sq, i, m)]
  BY DEF RecvAck
<1> DEFINE sq2 == NeighborAcked(sq, i, m)
           sq3 == FreePacket(sq2, i)
           q2 == sq2.queued
           b == [q[i] EXCEPT !.unacked_ns = @ \ {m}]
<1>3. i \in DOMAIN q /\ KeyOf(q[i].p) = KeyOf(rx[n])
  BY FirstOfPositions DEF FindByOriginatorSeqno, KeyOf
<1>4. sq2 \in BufferOf(S) /\ i \in DOMAIN q2
  <2> HIDE DEF sq, m
  <2> QED  BY <1>0, <1>1, AckedGood
<1>5. q[i] \in BufferedPacket
  <2> HIDE DEF sq
  <2> QED  BY <1>3, <1>0, BufferElement DEF GoodEntries
<1>6. /\ b.type = q[i].type /\ b.unacked_ns = q[i].unacked_ns \ {m}
      /\ AsMessage(b) = [AsMessage(q[i]) EXCEPT !.waiting = @ \ {m}]
  <2> HIDE DEF q, m
  <2> QED  BY <1>5 DEF BufferedPacket, AsMessage
<1>7. q2 = [q EXCEPT ![i] = b]
  <2> DEFINE r == [q EXCEPT ![i] = b]
  <2>1. sq2 = [sq EXCEPT !.queued = r]  BY DEF NeighborAcked
  <2> HIDE DEF r, sq2, sq
  <2>2. q2 = r  BY <2>1, <1>0 DEF BufferOf
  <2> QED  BY <2>2 DEF r
<1> HIDE DEF b
<1>8. /\ DOMAIN q2 = DOMAIN q /\ q2[i] = b
      /\ \A a \in DOMAIN q : a # i => q2[a] = q[a]
  <2> HIDE DEF q2, q
  <2> QED  BY <1>3, <1>7
<1>9. q \in Seq(S) /\ q2 \in Seq(S)  BY <1>0, <1>4 DEF BufferOf
<1>10. DataIn(q2) = DataIn(q)
  <2> HIDE DEF q2, q
  <2> QED  BY <1>3, <1>6, <1>8 DEF DataIn
<1>11. PICK k, f : Lists(f, k, q)
  <2> HIDE DEF q
  <2> QED  BY <1>9, ListExists
<1>12. /\ k \in Nat /\ f \in [1..k -> DataIn(q)] /\ DOMAIN u = 1..k
       /\ \A a \in 1..k : u[a] = AsMessage(q[f[a]])
  <2> HIDE DEF q
  <2> QED  BY <1>11, MessagesListed
<1>13. Lists(f, k, q2)
  <2> HIDE DEF q2, q
  <2> QED  BY <1>10, <1>11 DEF Lists
<1> DEFINE next == IF b.unacked_ns = {} THEN sq3 ELSE sq2
<1>14. /\ Outstanding' = [Outstanding EXCEPT ![n] = Messages(next.queued)]
       /\ Messages(next.queued) = u => UNCHANGED <<Outstanding, seen>>
  <2>0. AllNeighborsAcked(sq2, i) <=> b.unacked_ns = {}
    <3>1. AllNeighborsAcked(sq2, i) <=> q2[i].unacked_ns = {}  BY DEF AllNeighborsAcked
    <3> HIDE DEF q2, sq2
    <3> QED  BY <1>8, <3>1
  <2>1. CASE AllNeighborsAcked(sq2, i)
    <3> DEFINE c == [ec[n] EXCEPT !.sq = sq3, !.data_timer = TRUE]
    <3>1. ec' = [ec EXCEPT ![n] = c]  BY <1>2, <2>1, <1>0
    <3>2. c.sq = next  BY <2>0, <2>1, <1>0 DEF GoodEcs
    <3>3. u = Messages(ec[n].sq.queued)  OBVIOUS
    <3> HIDE DEF c, next, u
    <3> QED  BY <3>1, <3>2, <3>3, <1>1, StepOutstanding, StepUnseen
  <2>2. CASE ~AllNeighborsAcked(sq2, i)
    <3> DEFINE c == [ec[n] EXCEPT !.sq = sq2]
    <3>1. ec' = [ec EXCEPT ![n] = c]  BY <1>2, <2>2, <1>0
    <3>2. c.sq = next  BY <2>0, <2>2, <1>0 DEF GoodEcs
    <3>3. u = Messages(ec[n].sq.queued)  OBVIOUS
    <3> HIDE DEF c, next, u
    <3> QED  BY <3>1, <3>2, <3>3, <1>1, StepOutstanding, StepUnseen
  <2> QED  BY <2>1, <2>2
<1> HIDE DEF sq2
<1>15. /\ i \notin DataIn(q2) => Messages(sq3.queued) = Messages(q2)
       /\ \A j \in 1..k : f[j] = i => Messages(sq3.queued) = RemoveAt(Messages(q2), j)
  BY <1>4, <1>13, MessagesFreed
<1>16. CASE i \notin DataIn(q)
  <2>1. Messages(q2) = u
    <3>1. \A a \in DataIn(q) : AsMessage(q2[a]) = AsMessage(q[a])
      <4> HIDE DEF q2, q
      <4> QED  BY <1>8, <1>16 DEF DataIn
    <3> HIDE DEF q2, q
    <3> QED  BY <3>1, <1>9, <1>10, MessagesSame
  <2>2. Messages(sq3.queued) = u
    <3> HIDE DEF q2, q, sq3, u
    <3> QED  BY <2>1, <1>10, <1>15, <1>16
  <2>3. Messages(next.queued) = u
    <3>1. next = sq2 \/ next = sq3  OBVIOUS
    <3> HIDE DEF next, sq3, u
    <3> QED  BY <3>1, <2>1, <2>2
  <2> QED  BY <2>3, <1>14
<1>17. CASE i \in DataIn(q)
  <2>1. PICK j \in 1..k : f[j] = i
    <3> HIDE DEF q
    <3> QED  BY <1>11, <1>17 DEF Lists, Enumerates
  <2>2. u[j] = AsMessage(q[i])  BY <2>1, <1>12
  <2>3. q[i].type = NEIGHBOR_DATA /\ q[i].unacked_ns # {}
    BY <1>0, <1>17 DEF DataIn, SoundQueue
  <2>4. Messages(q2) = [u EXCEPT ![j] = AsMessage(b)]
    <3>1. q2 = [q EXCEPT ![f[j]] = b]  BY <1>7, <2>1
    <3>2. b.type = NEIGHBOR_DATA  BY <2>3, <1>6
    <3> HIDE DEF q2, q
    <3>3. Messages([q EXCEPT ![f[j]] = b]) = [Messages(q) EXCEPT ![j] = AsMessage(b)]
      BY <3>2, <2>1, <1>11, MessagesUpdated
    <3> QED  BY <3>1, <3>3
  <2>5. CASE m \notin q[i].unacked_ns
    <3>1. b.unacked_ns = q[i].unacked_ns  BY <2>5, <1>6
    <3>2. next = sq2  BY <3>1, <2>3
    <3>3. AsMessage(b) = u[j]
      <4>1. AsMessage(q[i]).waiting = q[i].unacked_ns  BY DEF AsMessage
      <4>2. AsMessage(q[i]) = [key |-> KeyOf(q[i].p), waiting |-> q[i].unacked_ns,
                               sent |-> q[i].times_sent]
        BY DEF AsMessage
      <4> HIDE DEF q, u, m
      <4> QED  BY <4>1, <4>2, <1>6, <2>2, <2>5
    <3>4. Messages(q2) = u
      <4>1. u = [a \in 1..k |-> u[a]]
        <5> HIDE DEF q
        <5>1. Messages(q) = [a \in 1..k |-> AsMessage(q[f[a]])]  BY <1>11, MessagesListed
        <5> QED  BY <5>1
      <4> HIDE DEF u, q2
      <4> QED  BY <4>1, <3>3, <2>4, <1>12
    <3> HIDE DEF next, u
    <3> QED  BY <3>2, <3>4, <1>14
  <2>6. CASE m \in q[i].unacked_ns
    <3>1. /\ u[j].waiting = q[i].unacked_ns
          /\ u[j].key = KeyOf(rx[n])
          /\ AsMessage(b) = [u[j] EXCEPT !.waiting = @ \ {m}]
      <4>1. u[j].waiting = q[i].unacked_ns /\ u[j].key = KeyOf(q[i].p)
        <5> HIDE DEF u, q
        <5> QED  BY <2>2 DEF AsMessage
      <4> HIDE DEF u, q, m
      <4> QED  BY <4>1, <2>2, <1>3, <1>6
    <3>2. b.unacked_ns = {} <=> u[j].waiting = {m}
      <4> HIDE DEF u, q, m
      <4> QED  BY <3>1, <2>6, <1>6
    <3>3. Messages(next.queued) = Reliable!Struck(u, j, m)
      <4>1. CASE b.unacked_ns = {}
        <5>1. next = sq3 /\ Messages(sq3.queued) = RemoveAt(Messages(q2), j)
          BY <4>1, <2>1, <1>15
        <5>2. RemoveAt(Messages(q2), j) = RemoveAt(u, j)
          <6> DEFINE T == {AsMessage(q[a]) : a \in DataIn(q)}
          <6>1. u \in Seq(T) /\ Len(u) = k
            <7>1. \A a \in DataIn(q) : AsMessage(q[a]) \in T  OBVIOUS
            <7> HIDE DEF T, q
            <7> QED  BY <7>1, <1>11, MessagesSeq
          <6> DEFINE e == AsMessage(b)
                     M2 == Messages(q2)
          <6>2. M2 = [u EXCEPT ![j] = e] /\ j \in 1..Len(u)  BY <6>1, <2>4, <2>1
          <6> HIDE DEF T, u, e, M2
          <6>3. RemoveAt(M2, j) = RemoveAt(u, j)  BY <6>1, <6>2, RemoveUpdated
          <6> QED  BY <6>3 DEF M2
        <5> HIDE DEF next, sq3, u, q2, m
        <5>3. Reliable!RemoveAt(u, j) = RemoveAt(u, j)
          BY DEF Reliable!RemoveAt, RemoveAt
        <5> QED  BY <5>1, <5>2, <5>3, <4>1, <3>2 DEF Reliable!Struck
      <4>2. CASE b.unacked_ns # {}
        <5>1. next = sq2  BY <4>2
        <5>2. [u EXCEPT ![j] = AsMessage(b)] = [u EXCEPT ![j].waiting = @ \ {m}]
          <6> HIDE DEF u, m
          <6> QED  BY <3>1
        <5> HIDE DEF next, u, m
        <5> QED  BY <5>1, <5>2, <4>2, <3>2, <2>4 DEF Reliable!Struck
      <4> QED  BY <4>1, <4>2
    <3>4. Outstanding[n] = u  BY DEF Outstanding
    <3>5. Reliable!Strike(n)
      <4>1. /\ j \in DOMAIN Outstanding[n] /\ m \in Outstanding[n][j].waiting
            /\ Outstanding[n][j].key \in seen[m]
        <5> HIDE DEF u, m, q
        <5> QED  BY <3>1, <3>4, <2>6, <1>1, <1>12
      <4>2. Outstanding' = [Outstanding EXCEPT ![n] =
                               Reliable!Struck(Outstanding[n], j, m)]
        <5> DEFINE x == Messages(next.queued)
        <5>1. x = Reliable!Struck(u, j, m)  BY <3>3
        <5>2. Outstanding' = [Outstanding EXCEPT ![n] = x]  BY <1>14
        <5> HIDE DEF x, u, m
        <5> QED  BY <5>1, <5>2, <3>4
      <4> HIDE DEF m, u
      <4> QED  BY <4>1, <4>2, <1>1 DEF Reliable!Strike
    <3> QED  BY <3>5
  <2> QED  BY <2>5, <2>6
<1> QED  BY <1>16, <1>17

\* Remembering a key is not seen.
LEMMA StoreMessages ==
  ASSUME NEW n \in Node, NEW sn, NEW c \in GoodEcs(n, sn), NEW key
  PROVE  Messages(StorePacketForDupeChecks(c, key).sq.queued) = Messages(c.sq.queued)
<1>1. StorePacketForDupeChecks(c, key).sq = c.sq  BY StoreSound
<1> QED  BY <1>1

\* An ACK in the queue is not seen.
LEMMA QueueAckMessages ==
  ASSUME NEW n \in Node, NEW sn, NEW c \in GoodEcs(n, sn), NEW p
  PROVE  Messages(QueueAck(c, n, p).sq.queued) = Messages(c.sq.queued)
<1> DEFINE a == AckPacket(n, p)
           sq2 == AddUntrackedPacket(c.sq, NEIGHBOR_ACK, a)
<1>1. CASE IsQueued(c.sq, a)  BY <1>1 DEF QueueAck
<1>2. CASE ~IsQueued(c.sq, a)
  <2>1. QueueAck(c, n, p) = [c EXCEPT !.sq = sq2, !.ack_timer = TRUE]
    BY <1>2 DEF QueueAck
  <2>2. c.sq \in BufferOf(GoodEntries(n, sn))  BY GoodQueue
  <2>3. Messages(sq2.queued) = Messages(c.sq.queued)
    <3>1. CASE Full(c.sq)
      <4>1. sq2 = [c.sq EXCEPT !.null_write = TRUE]
        BY <3>1 DEF AddUntrackedPacket
      <4>2. sq2.queued = c.sq.queued  BY <4>1, <2>2 DEF BufferOf
      <4> QED  BY <4>2
    <3>2. CASE ~Full(c.sq)
      <4> DEFINE ns == Head(c.sq.leftover)
      <4>1. sq2 = AddPacket(c.sq, NEIGHBOR_ACK, a, ns)
        BY <3>2 DEF AddUntrackedPacket
      <4>2. NEIGHBOR_ACK # NEIGHBOR_DATA  BY DEF NEIGHBOR_DATA, NEIGHBOR_ACK
      <4> HIDE DEF ns, a, sq2
      <4> QED  BY <4>1, <4>2, <2>2, MessagesAdded
    <3> QED  BY <3>1, <3>2
  <2> HIDE DEF sq2
  <2>4. QueueAck(c, n, p).sq = sq2  BY <2>1 DEF GoodEcs
  <2> QED  BY <2>3, <2>4
<1> QED  BY <1>1, <1>2

\* A packet for all neighbours is handed over, unless there are none or there
\* is no room.
LEMMA ReliableBroadcastMessages ==
  ASSUME NEW n \in Node, NEW sn \in Histories, NEW c \in GoodEcs(n, sn),
         NEW key \in sn[n], NEW data \in Nat
  PROVE  LET u == Messages(c.sq.queued)
             v == Messages(ReliableBroadcastNs(c, n, key, data).sq.queued)
         IN  v = u \/ (Neighbors[n] # {} /\ v = Append(u, Reliable!Message(n, key)))
<1> DEFINE d == ReliableBroadcastNs(c, n, key, data)
           u == Messages(c.sq.queued)
<1>1. CASE Neighbors[n] = {}  BY <1>1 DEF ReliableBroadcastNs
<1>2. CASE Neighbors[n] # {}
  <2> DEFINE p == BroadcastPacket(n, key, data)
             b == [type |-> NEIGHBOR_DATA, p |-> p, unacked_ns |-> Neighbors[n],
                   times_sent |-> 0]
             sq2 == AddPacket(c.sq, NEIGHBOR_DATA, p, Neighbors[n])
             c2 == [c EXCEPT !.sq = sq2, !.data_timer = TRUE]
  <2>1. p \in Packet /\ p.ack = FALSE /\ KeyOf(p) = key
    <3>1. key \in Key  BY DEF Histories
    <3> QED  BY <3>1 DEF BroadcastPacket, Packet, Key, KeyOf
  <2>2. Neighbors[n] \in SUBSET Node  BY NeighborConnAssumption
  <2>3. b \in GoodEntries(n, sn)
    <3> HIDE DEF p
    <3> QED
      BY <2>1, <2>2 DEF GoodEntries, BufferedPacket, PacketType, NEIGHBOR_DATA
  <2>4. c.sq \in BufferOf(GoodEntries(n, sn))  BY GoodQueue
  <2>5. sq2 \in BufferOf(GoodEntries(n, sn))
    <3> HIDE DEF p
    <3> QED  BY <2>3, <2>4, AddPacketProperties
  <2>6. Messages(sq2.queued) = u \/ Messages(sq2.queued) = Append(u, Reliable!Message(n, key))
    <3> DEFINE e == [key |-> KeyOf(p), waiting |-> Neighbors[n], sent |-> 0]
    <3>1. e = Reliable!Message(n, key)  BY <2>1 DEF Reliable!Message
    <3> HIDE DEF p
    <3>2. Messages(sq2.queued) = u \/ Messages(sq2.queued) = Append(u, e)
      BY <2>4, MessagesAdded
    <3> HIDE DEF e, u, sq2
    <3> QED  BY <3>1, <3>2
  <2> HIDE DEF sq2
  <2>7. c2 \in GoodEcs(n, sn) /\ c2.sq = sq2  BY <2>5 DEF GoodEcs
  <2>8. d = StorePacketForDupeChecks(c2, key)
    BY <1>2 DEF ReliableBroadcastNs, sq2
  <2> HIDE DEF c2, d, u
  <2>9. Messages(d.sq.queued) = Messages(sq2.queued)
    BY <2>7, <2>8, StoreMessages
  <2> QED  BY <2>6, <2>9, <1>2 DEF d, u
<1> QED  BY <1>1, <1>2

\* So is a packet of the node's own.
LEMMA OwnBroadcastMessages ==
  ASSUME NEW n \in Node, NEW sn \in Histories, NEW c \in GoodEcs(n, sn),
         <<n, c.seqno>> \in sn[n], c.seqno < MaxOwn, life[n] \in Nat
  PROVE  LET u == Messages(c.sq.queued)
             v == Messages(OwnBroadcast(c, n).sq.queued)
         IN  \/ v = u
             \/ Neighbors[n] # {} /\ v = Append(u, Reliable!Message(n, <<n, c.seqno>>))
<1> DEFINE s == c.seqno + 1
           c2 == [c EXCEPT !.seqno = s]
           key == <<n, c.seqno>>
<1>1. s \in 0..255
  <2>1. c.seqno \in 0..255 /\ MaxOwn \in 0..255
    BY NeighborConnAssumption DEF GoodEcs
  <2> QED  BY <2>1
<1> HIDE DEF s
<1>2. c2 \in GoodEcs(n, sn) /\ c2.sq = c.sq
  BY <1>1 DEF GoodEcs
<1>3. OwnBroadcast(c, n) = ReliableBroadcastNs(c2, n, key, life[n])
  BY DEF OwnBroadcast, s
<1>4. key \in sn[n]  OBVIOUS
<1> HIDE DEF c2, key
<1> QED  BY <1>2, <1>3, <1>4, ReliableBroadcastMessages DEF key

\* v is u and, behind it, messages with at most two different keys of K.
HandsOver(n, u, v, K) ==
  \E m \in {0, 1, 2} : \E x, y \in K :
    /\ m = 2 => x # y
    /\ m # 0 => Neighbors[n] # {}
    /\ v = u \o UpToTwo(m, Reliable!Message(n, x), Reliable!Message(n, y))

\* Sequences with none, one or two more messages.
LEMMA HandsOverFew ==
  ASSUME NEW n, NEW S, NEW q \in Seq(S), NEW K, NEW x \in K, NEW y \in K
  PROVE  LET u == Messages(q)
             v == Append(u, Reliable!Message(n, x))
         IN  /\ HandsOver(n, u, u, K)
             /\ Neighbors[n] # {} => HandsOver(n, u, v, K)
             /\ Neighbors[n] # {} /\ x # y =>
                  HandsOver(n, u, Append(v, Reliable!Message(n, y)), K)
<1> DEFINE u == Messages(q)
           a == Reliable!Message(n, x)
           b == Reliable!Message(n, y)
           T == {AsMessage(q[i]) : i \in DataIn(q)} \cup {a, b}
<1>1. u \in Seq(T)
  <2>1. PICK k, f : Lists(f, k, q)  BY ListExists
  <2>2. \A i \in DataIn(q) : AsMessage(q[i]) \in T  OBVIOUS
  <2> HIDE DEF T
  <2> QED  BY <2>1, <2>2, MessagesSeq
<1>2. a \in T /\ b \in T  OBVIOUS
<1>3. a = Reliable!Message(n, x) /\ b = Reliable!Message(n, y)  OBVIOUS
<1> HIDE DEF T, u, a, b
<1>4. u \o UpToTwo(0, a, b) = u  BY <1>1, <1>2, ConcatUpToTwo
<1>5. u \o UpToTwo(1, a, b) = Append(u, a)  BY <1>1, <1>2, ConcatUpToTwo
<1>6. u \o UpToTwo(2, a, b) = Append(Append(u, a), b)
  BY <1>1, <1>2, ConcatTwo
<1>7. HandsOver(n, u, u, K)
  <2>1. u = u \o UpToTwo(0, Reliable!Message(n, x), Reliable!Message(n, y))
    BY <1>3, <1>4
  <2>2. 0 \in {0, 1, 2} /\ 0 # 2  OBVIOUS
  <2> QED  BY <2>1, <2>2, Zenon DEF HandsOver
<1>8. ASSUME Neighbors[n] # {} PROVE HandsOver(n, u, Append(u, a), K)
  BY <1>3, <1>5, <1>8 DEF HandsOver
<1>9. ASSUME Neighbors[n] # {}, x # y
      PROVE  HandsOver(n, u, Append(Append(u, a), b), K)
  BY <1>3, <1>6, <1>9 DEF HandsOver
<1> QED  BY <1>3, <1>7, <1>8, <1>9 DEF u

\* The application's callback hands over the packet, or a reply, or both.
LEMMA CallbackMessages ==
  ASSUME NEW n \in Node, NEW sn \in Histories, NEW c \in GoodEcs(n, sn),
         NEW p \in Packet, KeyOf(p) \in sn[n], life[n] \in Nat,
         NEW reply \in BOOLEAN,
         reply => c.seqno < MaxOwn /\ <<n, c.seqno>> \in sn[n]
  PROVE  HandsOver(n, Messages(c.sq.queued),
                   Messages(Callback(c, n, p, reply).sq.queued),
                   {KeyOf(p)} \cup {k \in {<<n, c.seqno>>} : reply})
<1> DEFINE f == IF p.originator = Sink
                THEN ReliableBroadcastNs(c, n, KeyOf(p), p.data)
                ELSE c
           g == OwnBroadcast(f, n)
           d == Callback(c, n, p, reply)
           x == KeyOf(p)
           own == <<n, c.seqno>>
           K == {x} \cup {k \in {own} : reply}
           u == Messages(c.sq.queued)
           v == Messages(f.sq.queued)
           w == Messages(g.sq.queued)
           q == c.sq.queued
<1>1. f \in GoodEcs(n, sn) /\ f.seqno = c.seqno /\ p.data \in Nat
  <2>1. p.data \in Nat  BY DEF Packet
  <2> QED  BY <2>1, ReliableBroadcastGood
<1>2. /\ q \in Seq(GoodEntries(n, sn))
      /\ x \in K /\ (reply => own \in K)
  BY GoodQueue
<1>3. \/ v = u
      \/ /\ Neighbors[n] # {} /\ p.originator = Sink
         /\ v = Append(u, Reliable!Message(n, x))
  <2>1. CASE p.originator = Sink  BY <2>1, <1>1, ReliableBroadcastMessages
  <2>2. CASE p.originator # Sink  BY <2>2
  <2> QED  BY <2>1, <2>2
<1>4. d = IF reply THEN g ELSE f  BY DEF Callback
<1>5. p.originator = Sink => x # own
  <2>1. x[1] = p.originator /\ own[1] = n  BY DEF KeyOf
  <2> QED  BY <2>1, NeighborConnAssumption
<1>6. own = <<n, f.seqno>>  BY <1>1
<1> HIDE DEF f, d, x, own
<1>7. ASSUME reply
      PROVE  \/ w = v
             \/ Neighbors[n] # {} /\ w = Append(v, Reliable!Message(n, own))
  <2>1. <<n, f.seqno>> \in sn[n] /\ f.seqno < MaxOwn  BY <1>1, <1>7
  <2> QED  BY <2>1, <1>1, <1>6, OwnBroadcastMessages
<1> HIDE DEF v, w, g, q, K
<1>8. u = Messages(q)  BY DEF q
<1> HIDE DEF u
<1>9. /\ HandsOver(n, u, u, K)
      /\ Neighbors[n] # {} => HandsOver(n, u, Append(u, Reliable!Message(n, x)), K)
  BY <1>2, <1>8, HandsOverFew
<1>10. HandsOver(n, u, v, K)  BY <1>3, <1>9
<1>11. ASSUME reply PROVE HandsOver(n, u, w, K)
  <2>1. own \in K /\ x \in K  BY <1>2, <1>11
  <2>2. /\ Neighbors[n] # {} => HandsOver(n, u, Append(u, Reliable!Message(n, own)), K)
        /\ Neighbors[n] # {} /\ x # own =>
             HandsOver(n, u, Append(Append(u, Reliable!Message(n, x)),
                                    Reliable!Message(n, own)), K)
    BY <1>2, <1>8, <2>1, HandsOverFew
  <2> QED  BY <2>2, <1>3, <1>5, <1>7, <1>10, <1>11
<1>12. HandsOver(n, u, Messages(d.sq.queued), K)
  BY <1>4, <1>10, <1>11 DEF v, w
<1> QED  BY <1>12 DEF d, u, K, x, own

\* What the abstract specification calls genuine is so for the inductive
\* invariant.
LEMMA GenuineKnown == seen \in Histories => Genuine(seen) \subseteq Reliable!Genuine
<1>1. Reliable!Key = (Node \cup {Sink}) \X (0..(MaxOwn + MaxFloods))
  BY DEF Reliable!Key
<1> QED  BY <1>1 DEF Genuine, Reliable!Genuine

\* A step that learns of at most one packet, originates at most one, and hands
\* over what it learnt of or originated.
LEMMA LearnStep ==
  ASSUME NEW n \in Node, NEW H \in Reliable!AtMostOne(Reliable!Genuine),
         NEW M \in Reliable!AtMostOne({n} \X (0..(MaxOwn + MaxFloods))),
         seen' = [seen EXCEPT ![n] = @ \cup H \cup M],
         NEW v, Outstanding' = [Outstanding EXCEPT ![n] = v],
         HandsOver(n, Outstanding[n], v, H \cup M)
  PROVE  Reliable!Learn(n)
<1> DEFINE K == H \cup M
<1>1. PICK m \in {0, 1, 2}, x \in K, y \in K :
        /\ m = 2 => x # y
        /\ m # 0 => Neighbors[n] # {}
        /\ v = Outstanding[n] \o
                 UpToTwo(m, Reliable!Message(n, x), Reliable!Message(n, y))
  BY DEF HandsOver
<1> DEFINE order == UpToTwo(m, x, y)
           list == [i \in DOMAIN order |-> Reliable!Message(n, order[i])]
<1>2. /\ m \in 0..2
      /\ DOMAIN order = 1..m /\ order \in [1..m -> K]
      /\ \A i \in 1..m : order[i] = IF i = 1 THEN x ELSE y
  BY DEF UpToTwo
<1>3. list = UpToTwo(m, Reliable!Message(n, x), Reliable!Message(n, y))
  <2>1. \A i \in 1..m : Reliable!Message(n, order[i]) =
          IF i = 1 THEN Reliable!Message(n, x) ELSE Reliable!Message(n, y)
    BY <1>2
  <2> HIDE DEF order
  <2> QED  BY <1>2, <2>1 DEF UpToTwo
<1>4. order \in Reliable!SeqOf(K, 2)
  <2> HIDE DEF order, K
  <2> QED  BY <1>2 DEF Reliable!SeqOf
<1>5. Reliable!IsInjective(order)
  <2>1. \A a, b \in 1..m : order[a] = order[b] => a = b
    <3> TAKE a, b \in 1..m
    <3>1. CASE m = 2
      <4>1. a \in {1, 2} /\ b \in {1, 2}  BY <3>1
      <4> HIDE DEF order
      <4> QED  BY <4>1, <3>1, <1>1, <1>2
    <3>2. CASE m # 2
      <4>1. m \in {0, 1}  BY <3>2
      <4> QED  BY <4>1
    <3> QED  BY <3>1, <3>2
  <2> HIDE DEF order
  <2> QED  BY <2>1, <1>2 DEF Reliable!IsInjective
<1>6. order # << >> => Neighbors[n] # {}
  <2>1. ASSUME m = 0 PROVE order = << >>
    <3>1. 1..m = {}  BY <2>1
    <3> HIDE DEF order
    <3> QED  BY <3>1, <1>2
  <2> QED  BY <2>1, <1>1
<1>7. Outstanding' = [Outstanding EXCEPT ![n] = Outstanding[n] \o list]
  BY <1>1, <1>3
<1> HIDE DEF order
<1>8. \E o \in Reliable!SeqOf(H \cup M, 2) :
        /\ Reliable!IsInjective(o)
        /\ o # << >> => Neighbors[n] # {}
        /\ Outstanding' = [Outstanding EXCEPT ![n] =
             @ \o [i \in DOMAIN o |-> Reliable!Message(n, o[i])]]
  BY <1>4, <1>5, <1>6, <1>7
<1> QED  BY <1>8 DEF Reliable!Learn

\* A packet is delivered to the application.
LEMMA DeliverRefines ==
  ASSUME IInv, QInv, NEW n \in Node, NEW reply \in {FALSE, MayOriginate(n)},
         rx[n] \in Packet,
         Deliver(n, rx[n], Callback(ec[n], n, rx[n], reply)),
         UNCHANGED <<up, life, sink_seqno>>,
         NEW d, ec' = [ec EXCEPT ![n] = d],
         Messages(d.sq.queued) = Messages(Callback(ec[n], n, rx[n], reply).sq.queued)
  PROVE  Reliable!Learn(n)
<1> DEFINE p == rx[n]
           s == ec[n].seqno
           c == Callback(ec[n], n, p, reply)
           H == {KeyOf(p)}
           M == {k \in {<<n, s>>} : reply}
           u == Messages(ec[n].sq.queued)
           v == Messages(c.sq.queued)
<1>1. /\ c \in GoodEcs(n, seen') /\ KeyOf(p) \in seen'[n]
      /\ Grows(seen, seen') /\ RestInv'
      /\ reply \in BOOLEAN
      /\ reply => s < MaxOwn /\ <<n, s>> \in seen'[n]
  BY DeliverGood
<1>2. /\ ec[n] \in GoodEcs(n, seen') /\ seen' \in Histories
      /\ ec[n] \in GoodEcs(n, seen)
      /\ seen \in Histories /\ life[n] \in Nat /\ s \in 0..255
  <2>1. ec[n] \in GoodEcs(n, seen) /\ s \in 0..255  BY DEF IInv, EcInv, EcRecord
  <2> QED  BY <2>1, <1>1, GoodEcsMonotonic DEF RestInv, IInv
<1>3. HandsOver(n, u, v, H \cup M) /\ c.seqno = IF reply THEN s + 1 ELSE s
  <2>1. \A sn \in Histories :
          /\ ec[n] \in GoodEcs(n, sn) /\ KeyOf(p) \in sn[n]
          /\ reply => s < MaxOwn /\ <<n, s>> \in sn[n]
          => /\ HandsOver(n, u, v, H \cup M)
             /\ c.seqno = IF reply THEN s + 1 ELSE s
    <3> SUFFICES ASSUME NEW sn \in Histories,
                        ec[n] \in GoodEcs(n, sn), KeyOf(p) \in sn[n],
                        reply => s < MaxOwn /\ <<n, s>> \in sn[n]
                 PROVE  /\ HandsOver(n, u, v, H \cup M)
                        /\ c.seqno = IF reply THEN s + 1 ELSE s
      OBVIOUS
    <3>1. c.seqno = IF reply THEN s + 1 ELSE s  BY <1>1, <1>2, CallbackGood
    <3>2. HandsOver(n, u, v, H \cup M)  BY <1>1, <1>2, CallbackMessages
    <3> HIDE DEF c, u, v, H, M
    <3> QED  BY <3>1, <3>2
  <2> HIDE DEF c, u, v, H, M
  <2> QED  BY <2>1, <1>1, <1>2
<1>4. {<<n, k>> : k \in s .. c.seqno - 1} = M
  <2> HIDE DEF c, s
  <2>1. CASE reply
    <3>1. s .. c.seqno - 1 = {s}  BY <2>1, <1>2, <1>3
    <3> QED  BY <2>1, <3>1
  <2>2. CASE ~reply
    <3>1. s .. c.seqno - 1 = {}  BY <2>2, <1>2, <1>3
    <3> QED  BY <2>2, <3>1
  <2> QED  BY <2>1, <2>2
<1>5. seen' = [seen EXCEPT ![n] = @ \cup H \cup M]
  <2>1. seen' = [seen EXCEPT ![n] = @ \cup H \cup {<<n, k>> : k \in s .. c.seqno - 1}]
    BY DEF Deliver
  <2> HIDE DEF c, s, M
  <2> QED  BY <2>1, <1>4
<1>6. H \in Reliable!AtMostOne(Reliable!Genuine)
  <2>1. rx[n] \in GoodFrames(seen)  BY NoFrameAssumption DEF IInv, RxInv
  <2>2. KeyOf(p) \in Genuine(seen)  BY <2>1 DEF GoodFrames
  <2> QED  BY <2>2, <1>2, GenuineKnown DEF Reliable!AtMostOne
<1>7. M \in Reliable!AtMostOne({n} \X (0..(MaxOwn + MaxFloods)))
  <2>1. CASE reply
    <3>1. s \in 0..(MaxOwn + MaxFloods)
      <4> HIDE DEF s
      <4> QED  BY <2>1, <1>1, <1>2, NeighborConnAssumption
    <3>2. M = {<<n, s>>}  BY <2>1
    <3> HIDE DEF s, M
    <3> QED  BY <3>1, <3>2 DEF Reliable!AtMostOne
  <2>2. CASE ~reply
    <3>1. M = {}  BY <2>2
    <3> HIDE DEF M
    <3> QED  BY <3>1 DEF Reliable!AtMostOne
  <2> QED  BY <2>1, <2>2
<1>8. /\ Outstanding' = [Outstanding EXCEPT ![n] = v]
      /\ Outstanding[n] = u
  <2>1. v = Messages(d.sq.queued)  OBVIOUS
  <2> HIDE DEF c, v
  <2> QED  BY <2>1, StepOutstanding
<1> HIDE DEF c, s, u, v, H, M
<1> QED  BY <1>3, <1>5, <1>6, <1>7, <1>8, LearnStep

\* A new packet from a neighbour; the ACK for it is not seen.
LEMMA RecvNewDataRefines ==
  ASSUME IInv, QInv, NEW n \in Node, RecvNewData(n)
  PROVE  Reliable!Learn(n)
<1>1. rx[n] \in Packet /\ UNCHANGED <<up, life, sink_seqno>>
  BY HandleGood DEF RecvNewData, Handle
<1>2. PICK reply \in {FALSE, MayOriginate(n)} :
        LET c == Callback(ec[n], n, rx[n], reply)
        IN  /\ ec' = [ec EXCEPT ![n] =
                        QueueAck(StorePacketForDupeChecks(c, KeyOf(rx[n])), n, rx[n])]
            /\ Deliver(n, rx[n], c)
  BY DEF RecvNewData
<1> DEFINE c == Callback(ec[n], n, rx[n], reply)
           c2 == StorePacketForDupeChecks(c, KeyOf(rx[n]))
           d == QueueAck(c2, n, rx[n])
<1>3. /\ c \in GoodEcs(n, seen') /\ KeyOf(rx[n]) \in seen'[n]
      /\ seen' \in Histories
  BY <1>1, <1>2, DeliverGood DEF RestInv
<1>4. ec' = [ec EXCEPT ![n] = d]  BY <1>2
<1>5. Deliver(n, rx[n], c)  BY <1>2
<1> HIDE DEF c
<1>6. c2 \in GoodEcs(n, seen')  BY <1>3, StoreGood
<1>7. Messages(c2.sq.queued) = Messages(c.sq.queued)  BY <1>3, StoreMessages
<1> HIDE DEF c2
<1>8. Messages(d.sq.queued) = Messages(c2.sq.queued)  BY <1>6, QueueAckMessages
<1> HIDE DEF d
<1> QED  BY <1>1, <1>4, <1>5, <1>7, <1>8, DeliverRefines DEF c

\* A packet straight from the sink, kept or dropped.
LEMMA RecvFromSinkRefines ==
  ASSUME IInv, QInv, NEW n \in Node, RecvFromSink(n)
  PROVE  Reliable!Learn(n) \/ UNCHANGED <<Outstanding, seen>>
<1>1. rx[n] \in Packet /\ UNCHANGED <<up, life, sink_seqno>>
  BY HandleGood DEF RecvFromSink, Handle
<1>2. CASE UNCHANGED <<ec, seen, log>>  BY <1>2 DEF Outstanding
<1>3. ASSUME NEW reply \in {FALSE, MayOriginate(n)},
             ec' = [ec EXCEPT ![n] =
                      StorePacketForDupeChecks(Callback(ec[n], n, rx[n], reply),
                                               KeyOf(rx[n]))],
             Deliver(n, rx[n], Callback(ec[n], n, rx[n], reply))
      PROVE  Reliable!Learn(n)
  <2> DEFINE c == Callback(ec[n], n, rx[n], reply)
             d == StorePacketForDupeChecks(c, KeyOf(rx[n]))
  <2>1. c \in GoodEcs(n, seen')  BY <1>1, <1>3, DeliverGood
  <2>2. ec' = [ec EXCEPT ![n] = d]  BY <1>3
  <2>3. Deliver(n, rx[n], c)  BY <1>3
  <2> HIDE DEF c
  <2>4. Messages(d.sq.queued) = Messages(c.sq.queued)  BY <2>1, StoreMessages
  <2> HIDE DEF d
  <2> QED  BY <1>1, <2>2, <2>3, <2>4, DeliverRefines DEF c
<1> QED  BY <1>2, <1>3 DEF RecvFromSink

\* The application sends a packet of its own.
LEMMA AppBroadcastRefines ==
  ASSUME IInv, QInv, NEW n \in Node, AppBroadcast(n)
  PROVE  Reliable!Learn(n)
<1> DEFINE s == ec[n].seqno
           key == <<n, s>>
           all == [m \in Node |-> {k \in Key : k[2] \in 0..(MaxOwn + MaxFloods)}]
           c == OwnBroadcast(ec[n], n)
           q == ec[n].sq.queued
           u == Messages(q)
           v == Messages(c.sq.queued)
           none == {}
           K == none \cup {key}
<1>0. /\ ec[n] \in GoodEcs(n, seen)
      /\ seen \in Histories /\ life[n] \in Nat
      /\ s \in 0..255 /\ s < MaxOwn
  BY DEF IInv, EcInv, RestInv, EcRecord, AppBroadcast, MayOriginate
<1>1. all \in Histories /\ Grows(seen, all)
  <2>1. seen \in [Node -> SUBSET Key] /\ \A m \in Node : seen[m] \subseteq Genuine(seen)
    BY <1>0 DEF Histories
  <2>2. all \in [Node -> SUBSET Key]  OBVIOUS
  <2>3. \A m \in Node : all[m] \subseteq Genuine(all)
    BY DEF Genuine, Key
  <2>4. Grows(seen, all)  BY <2>1 DEF Grows, Genuine, Key
  <2> QED  BY <2>2, <2>3, <2>4 DEF Histories
<1>2. s \in 0..(MaxOwn + MaxFloods)
  <2> HIDE DEF s
  <2> QED  BY <1>0, NeighborConnAssumption
<1>3. key \in all[n]
  <2>1. key \in Key  BY <1>0 DEF Key
  <2> QED  BY <2>1, <1>2
<1> HIDE DEF all
<1>4. ec[n] \in GoodEcs(n, all)  BY <1>0, <1>1, GoodEcsMonotonic
<1>5. \/ v = u
      \/ Neighbors[n] # {} /\ v = Append(u, Reliable!Message(n, key))
  BY <1>0, <1>1, <1>3, <1>4, OwnBroadcastMessages
<1>6. ec' = [ec EXCEPT ![n] = c]  BY DEF AppBroadcast
<1>7. q \in Seq(GoodEntries(n, all))  BY <1>4, GoodQueue
<1> HIDE DEF q, c, key
<1>8. /\ HandsOver(n, u, u, K)
      /\ Neighbors[n] # {} => HandsOver(n, u, Append(u, Reliable!Message(n, key)), K)
  <2>1. key \in K  OBVIOUS
  <2> HIDE DEF K
  <2> QED  BY <1>7, <2>1, HandsOverFew
<1>9. Outstanding[n] = u /\ Outstanding' = [Outstanding EXCEPT ![n] = v]
  BY <1>6, StepOutstanding DEF q
<1> HIDE DEF u, v
<1>10. HandsOver(n, u, v, K)  BY <1>5, <1>8
<1>11. seen' = [seen EXCEPT ![n] = @ \cup none \cup {key}]
  BY DEF AppBroadcast, key
<1>12. /\ none \in Reliable!AtMostOne(Reliable!Genuine)
       /\ {key} \in Reliable!AtMostOne({n} \X (0..(MaxOwn + MaxFloods)))
  <2>1. key \in {n} \X (0..(MaxOwn + MaxFloods))  BY <1>2 DEF key
  <2> QED  BY <2>1 DEF Reliable!AtMostOne
<1> HIDE DEF none
<1> QED  BY <1>9, <1>10, <1>11, <1>12, LearnStep

\* An empty queue has no messages.
LEMMA ClosedMessages == Messages(ClosedEc.sq.queued) = << >>
<1> DEFINE q == ClosedEc.sq.queued
<1>1. q = << >>  BY DEF ClosedEc, EmptyBuffer
<1>2. q \in Seq({}) /\ DOMAIN q = {}  BY <1>1
<1> HIDE DEF q
<1>3. PICK k, f : Lists(f, k, q)  BY <1>2, ListExists
<1>4. /\ k \in Nat /\ f \in [1..k -> DataIn(q)]
      /\ Messages(q) \in Seq({}) /\ Len(Messages(q)) = k
  <2>1. \A a \in DataIn(q) : AsMessage(q[a]) \in {}  BY <1>2 DEF DataIn
  <2> QED  BY <2>1, <1>3, MessagesListed, MessagesSeq
<1>5. k = 0
  <2>1. DataIn(q) = {}  BY <1>2 DEF DataIn
  <2>2. ASSUME k # 0 PROVE FALSE
    <3>1. 1 \in 1..k  BY <2>2, <1>4
    <3>2. f[1] \in DataIn(q)  BY <3>1, <1>4
    <3> QED  BY <3>2, <2>1
  <2> QED  BY <2>2
<1>6. Messages(q) = << >>  BY <1>4, <1>5, EmptySeq
<1> QED  BY <1>6 DEF q

\* A node that loses power forgets its messages.
LEMMA CrashRefines ==
  ASSUME IInv, NEW n \in Node, Crash(n)
  PROVE  Reliable!LosePower(n)
<1>1. ec' = [ec EXCEPT ![n] = ClosedEc] /\ n \in Crashers /\ seen' = seen
  BY DEF Crash
<1>2. Outstanding' = [Outstanding EXCEPT ![n] = << >>]
  <2> DEFINE c == ClosedEc
             u == Messages(c.sq.queued)
  <2>1. ec' = [ec EXCEPT ![n] = c]  BY <1>1
  <2>2. u = << >>  BY ClosedMessages
  <2> HIDE DEF c
  <2>3. Outstanding' = [Outstanding EXCEPT ![n] = u]  BY <2>1, StepOutstanding
  <2> HIDE DEF u
  <2> QED  BY <2>2, <2>3
<1> QED  BY <1>1, <1>2 DEF Reliable!LosePower

\* A duplicate is acknowledged again.
LEMMA RecvDupeRefines ==
  ASSUME IInv, NEW n \in Node, RecvDupe(n)
  PROVE  UNCHANGED <<Outstanding, seen>>
<1> DEFINE c == QueueAck(ec[n], n, rx[n])
<1>1. ec' = [ec EXCEPT ![n] = c] /\ seen' = seen  BY DEF RecvDupe
<1>2. ec[n] \in GoodEcs(n, seen)  BY DEF IInv, EcInv
<1>3. Messages(c.sq.queued) = Messages(ec[n].sq.queued)
  BY <1>2, QueueAckMessages
<1> HIDE DEF c
<1> QED  BY <1>1, <1>3, StepUnseen

\* A step that changes neither queues nor what has been seen.
LEMMA NothingRefines ==
  ASSUME UNCHANGED <<ec, seen>>
  PROVE  UNCHANGED <<Outstanding, seen>>
BY DEF Outstanding

\* The initial states are initial states of the abstract specification.
LEMMA InitRefines == Init => Reliable!Init
<1> SUFFICES ASSUME Init PROVE Reliable!Init
  OBVIOUS
<1>1. \A n \in Node : ec[n] = ClosedEc  BY DEF Init
<1>2. Outstanding = [n \in Node |-> << >>]
  BY <1>1, ClosedMessages DEF Outstanding
<1> QED  BY <1>2 DEF Init, Reliable!Init

\* Every step is one of the abstract specification, or is not seen.
LEMMA NextRefines ==
  IInv /\ QInv /\ [Next]_vars => [Reliable!Next]_(Reliable!vars)
<1> SUFFICES ASSUME IInv, QInv, [Next]_vars
             PROVE  Reliable!Next \/ UNCHANGED <<Outstanding, seen>>
  BY DEF Reliable!vars
<1>1. ASSUME NEW n \in Node, SendData(n)
      PROVE  Reliable!Next \/ UNCHANGED <<Outstanding, seen>>
  BY <1>1, SendDataRefines DEF Reliable!Next
<1>2. ASSUME NEW n \in Node, SendAck(n)
      PROVE  Reliable!Next \/ UNCHANGED <<Outstanding, seen>>
  BY <1>2, SendAckRefines
<1>3. ASSUME NEW n \in Node, Recv(n)
      PROVE  Reliable!Next \/ UNCHANGED <<Outstanding, seen>>
  <2>1. CASE RecvNotForUs(n) \/ RecvAckForNonSentPacket(n) \/ RecvDataOverflow(n)
    <3>1. UNCHANGED <<ec, seen>>
      BY <2>1 DEF RecvNotForUs, RecvAckForNonSentPacket, RecvDataOverflow
    <3> QED  BY <3>1, NothingRefines
  <2>2. CASE RecvAck(n)  BY <2>2, RecvAckRefines DEF Reliable!Next
  <2>3. CASE RecvDupe(n)  BY <2>3, RecvDupeRefines
  <2>4. CASE RecvNewData(n)  BY <2>4, RecvNewDataRefines DEF Reliable!Next
  <2>5. CASE RecvFromSink(n)  BY <2>5, RecvFromSinkRefines DEF Reliable!Next
  <2> QED  BY <1>3, <2>1, <2>2, <2>3, <2>4, <2>5 DEF Recv
<1>4. ASSUME NEW n \in Node, AppBroadcast(n) PROVE Reliable!Next
  BY <1>4, AppBroadcastRefines DEF Reliable!Next
<1>5. ASSUME NEW n \in Node, Crash(n) PROVE Reliable!Next
  BY <1>5, CrashRefines DEF Reliable!Next
<1>6. CASE \/ \E n \in Node : Restart(n)
           \/ SinkBroadcast
           \/ UNCHANGED vars
  <2>1. UNCHANGED <<ec, seen>>  BY <1>6 DEF Restart, SinkBroadcast, vars
  <2> QED  BY <2>1, NothingRefines
<1> QED  BY <1>1, <1>2, <1>3, <1>4, <1>5, <1>6 DEF Next

-----------------------------------------------------------------------------
(* What the inductive invariant says to a reader. *)

-----------------------------------------------------------------------------
(* What the duplicate queue remembers.  It is a window: a key that was     *)
(* stored is found until as many others were stored as it has places.      *)
(* Each packet handed to the application stores its key, and each packet   *)
(* of the node's own may store another, so that the place of a logged key  *)
(* is bounded by what has been logged and originated since.                *)

\* store_packet_for_dupe_checks on the queue alone.
Stored(dq, key) ==
  IF Contains(dq, key)
  THEN dq
  ELSE Cons(key, IF Len(dq) < DupeQueueLength THEN dq ELSE Front(dq))

\* The key is among the first w of the queue.
Within(dq, key, w) == \E q \in 1..Len(dq) : q <= w /\ dq[q] = key

\* When l was handed to the application, which numbered s packets of its own,
\* dq remembers the packets of l except the oldest.
Remembers(dq, l, s) ==
  \A j \in 1..Len(l) : Len(l) - j + s < DupeQueueLength =>
    Within(dq, KeyOf(l[j]), Len(l) - j + 1 + s)

\* Two copies of a packet have the length of the queue between them.
FarApart(l, s) ==
  \A i, j \in 1..Len(l) : i < j /\ KeyOf(l[i]) = KeyOf(l[j]) =>
    j - i + s > DupeQueueLength

RInv == \A n \in Node : /\ Remembers(ec[n].dq, log[n], ec[n].seqno)
                        /\ FarApart(log[n], ec[n].seqno)

\* What storing a key does to the queue.
LEMMA StoredProperties ==
  ASSUME NEW S, NEW dq \in Seq(S), Len(dq) <= DupeQueueLength, NEW key \in S
  PROVE  LET d == Stored(dq, key)
         IN  /\ d \in Seq(S) /\ Len(d) <= DupeQueueLength
             /\ Contains(dq, key) => d = dq
             /\ ~Contains(dq, key) => Within(d, key, 1)
             /\ \A k : Contains(d, k) => k = key \/ Contains(dq, k)
             /\ \A k : \A w \in Nat :
                  Within(dq, k, w) /\ w < DupeQueueLength => Within(d, k, w + 1)
<1> DEFINE kept == IF Len(dq) < DupeQueueLength THEN dq ELSE Front(dq)
<1>0. Len(dq) \in Nat /\ DupeQueueLength \in 1..255
  BY LenProperties, NeighborConnAssumption
<1>1. /\ kept \in Seq(S) /\ Len(kept) \in Nat /\ Len(kept) < DupeQueueLength
      /\ Len(kept) <= Len(dq)
      /\ \A q \in 1..Len(kept) : kept[q] = dq[q]
      /\ Len(kept) < Len(dq) => Len(kept) = DupeQueueLength - 1
  <2>1. CASE Len(dq) < DupeQueueLength  BY <2>1, <1>0
  <2>2. CASE ~(Len(dq) < DupeQueueLength)
    <3>1. dq # << >>  BY <2>2, <1>0, EmptySeq
    <3>2. /\ Front(dq) \in Seq(S) /\ Len(Front(dq)) = Len(dq) - 1
          /\ \A q \in 1..(Len(dq) - 1) : Front(dq)[q] = dq[q]
      BY <3>1, FrontProperties
    <3>3. kept = Front(dq)  BY <2>2
    <3> HIDE DEF kept
    <3>4. /\ kept \in Seq(S) /\ Len(kept) = Len(dq) - 1
          /\ \A q \in 1..(Len(dq) - 1) : kept[q] = dq[q]
      BY <3>2, <3>3
    <3>5. Len(dq) = DupeQueueLength /\ Len(kept) \in Nat  BY <3>4, <2>2, <1>0
    <3> QED  BY <3>4, <3>5, <1>0
  <2> QED  BY <2>1, <2>2
<1> HIDE DEF kept
<1>2. CASE Contains(dq, key)
  <2>1. Stored(dq, key) = dq  BY <1>2 DEF Stored
  <2>2. \A k : \A w \in Nat : Within(dq, k, w) => Within(dq, k, w + 1)
    BY <1>0 DEF Within
  <2> QED  BY <2>1, <2>2, <1>2
<1>3. CASE ~Contains(dq, key)
  <2> DEFINE d == Cons(key, kept)
  <2>1. Stored(dq, key) = d  BY <1>3 DEF Stored, kept
  <2>2. /\ d \in Seq(S) /\ Len(d) = Len(kept) + 1 /\ d[1] = key
        /\ \A q \in 1..Len(kept) : d[q + 1] = kept[q]
    BY <1>1, ConsProperties
  <2> HIDE DEF d
  <2>3. Len(d) <= DupeQueueLength  BY <2>2, <1>0, <1>1
  <2>4. Within(d, key, 1)  BY <2>2, <1>1 DEF Within
  <2>5. ASSUME NEW k, Contains(d, k) PROVE k = key \/ Contains(dq, k)
    <3>1. PICK q \in 1..Len(d) : d[q] = k  BY <2>5 DEF Contains
    <3>2. CASE q = 1  BY <3>1, <3>2, <2>2
    <3>3. CASE q # 1
      <4>1. q - 1 \in 1..Len(kept)  BY <3>3, <2>2, <1>1
      <4>2. d[q] = dq[q - 1] /\ q - 1 \in 1..Len(dq)
        BY <4>1, <2>2, <1>0, <1>1
      <4> QED  BY <4>2, <3>1 DEF Contains
    <3> QED  BY <3>2, <3>3
  <2>6. ASSUME NEW k, NEW w \in Nat, Within(dq, k, w), w < DupeQueueLength
        PROVE  Within(d, k, w + 1)
    <3>1. PICK q \in 1..Len(dq) : q <= w /\ dq[q] = k  BY <2>6 DEF Within
    <3>2. q \in 1..Len(kept)  BY <3>1, <2>6, <1>0, <1>1
    <3>3. q + 1 \in 1..Len(d) /\ q + 1 <= w + 1 /\ d[q + 1] = k
      BY <3>1, <3>2, <2>2, <1>1, <2>6
    <3> QED  BY <3>3 DEF Within
  <2> QED  BY <2>1, <2>2, <2>3, <2>4, <2>5, <2>6, <1>3
<1> QED  BY <1>2, <1>3

\* A new key is stored, before or after a key of the node's own: it is where
\* the packets since count it, and no other has moved further than they count.
LEMMA HandedStored ==
  ASSUME NEW S, NEW dq \in Seq(S), Len(dq) <= DupeQueueLength,
         NEW key \in S, ~Contains(dq, key), NEW own, NEW more \in {0, 1},
         NEW d1 \in {dq, Stored(dq, key)},
         NEW d2, d2 = d1 \/ (more = 1 /\ own \in S /\ d2 = Stored(d1, own)),
         NEW e, e = Stored(d2, key)
  PROVE  /\ more < DupeQueueLength => Within(e, key, more + 1)
         /\ \A k : \A w \in Nat :
              Within(dq, k, w) /\ w + more < DupeQueueLength =>
                Within(e, k, w + more + 1)
<1>0. DupeQueueLength \in 1..255  BY NeighborConnAssumption
<1>1. /\ d1 \in Seq(S) /\ Len(d1) <= DupeQueueLength
      /\ d1 = dq \/ Within(d1, key, 1)
      /\ \A k : Contains(d1, k) => k = key \/ Contains(dq, k)
      /\ \A k : \A w \in Nat :
           Within(dq, k, w) /\ w < DupeQueueLength => Within(d1, k, w + 1)
  <2>1. \A k : \A w \in Nat : Within(dq, k, w) => Within(dq, k, w + 1)
    BY LenProperties DEF Within
  <2> QED  BY <2>1, StoredProperties
<1>2. d2 \in Seq(S) /\ Len(d2) <= DupeQueueLength
  BY <1>1, StoredProperties
<1>3. \A d, k, w : Within(d, k, w) => Contains(d, k)
  BY DEF Within, Contains
<1>4. \A d \in Seq(S) : \A k : \A w, v \in Nat :
        Within(d, k, w) /\ w <= v => Within(d, k, v)
  BY LenProperties DEF Within
<1>e. /\ e \in Seq(S)
      /\ Contains(d2, key) => e = d2
      /\ ~Contains(d2, key) => Within(e, key, 1)
      /\ \A k : \A w \in Nat :
           Within(d2, k, w) /\ w < DupeQueueLength => Within(e, k, w + 1)
  BY <1>2, StoredProperties
<1>5. CASE d2 = d1
  <2>1. Within(e, key, 1)
    BY <1>5, <1>1, <1>3, <1>e
  <2>2. ASSUME NEW k, NEW w \in Nat, Within(dq, k, w), w < DupeQueueLength
        PROVE  Within(e, k, w + 1)
    BY <2>2, <1>5, <1>1, <1>3, <1>e
  <2>3. ASSUME NEW k, NEW w \in Nat, Within(dq, k, w), w + more < DupeQueueLength
        PROVE  Within(e, k, w + more + 1)
    <3>1. Within(e, k, w + 1)  BY <2>2, <2>3, <1>0
    <3> QED  BY <3>1, <1>4, <1>e
  <2>4. Within(e, key, more + 1)  BY <2>1, <1>4, <1>e
  <2> QED  BY <2>3, <2>4
<1>6. CASE d2 # d1
  <2>0. more = 1 /\ own \in S /\ d2 = Stored(d1, own)  BY <1>6
  <2>1. /\ ~Contains(d1, own)
        /\ Within(d2, own, 1)
        /\ \A k : Contains(d2, k) => k = own \/ Contains(d1, k)
        /\ \A k : \A w \in Nat :
             Within(d1, k, w) /\ w < DupeQueueLength => Within(d2, k, w + 1)
    BY <2>0, <1>1, <1>6, StoredProperties
  <2>2. ASSUME 1 < DupeQueueLength PROVE Within(e, key, 2)
    <3>1. CASE ~Contains(d2, key)
      <4>1. Within(e, key, 1)  BY <3>1, <1>e
      <4> QED  BY <4>1, <1>4, <1>e
    <3>2. CASE Contains(d2, key) /\ key = own
      <4>1. Within(e, key, 1)  BY <3>2, <2>1, <1>e
      <4> QED  BY <4>1, <1>4, <1>e
    <3>3. CASE Contains(d2, key) /\ key # own
      <4>1. Within(d1, key, 1)  BY <3>3, <2>1, <1>1
      <4>2. Within(d2, key, 1 + 1)  BY <4>1, <2>1, <2>2
      <4> QED  BY <4>2, <3>3, <1>e
    <3> QED  BY <3>1, <3>2, <3>3
  <2>3. ASSUME NEW k, NEW w \in Nat, Within(dq, k, w), w + 1 < DupeQueueLength
        PROVE  Within(e, k, w + 2)
    <3>1. CASE d1 = dq
      <4>1. Within(d2, k, w + 1)  BY <3>1, <2>1, <2>3, <1>0
      <4>2. Within(e, k, w + 1) \/ Within(e, k, (w + 1) + 1)
        BY <4>1, <2>3, <1>e
      <4> QED  BY <4>2, <1>4, <1>e
    <3>2. CASE d1 # dq
      <4>1. Within(d1, k, w + 1) /\ Within(d1, key, 1)
        BY <3>2, <1>1, <2>3, <1>0
      <4>2. Within(d2, k, (w + 1) + 1)  BY <4>1, <2>1, <2>3
      <4>3. 1 < DupeQueueLength  BY <2>3, <1>0
      <4>4. Within(d2, key, 1 + 1)  BY <4>1, <4>3, <2>1
      <4>5. e = d2  BY <4>4, <1>3, <1>e
      <4> QED  BY <4>2, <4>5
    <3> QED  BY <3>1, <3>2
  <2>4. more + 1 = 2 /\ \A w \in Nat : w + more = w + 1 /\ w + more + 1 = w + 2
    BY <2>0
  <2> QED  BY <2>2, <2>3, <2>4, <2>0
<1> QED  BY <1>5, <1>6

\* What the operations do to the duplicate queue.
LEMMA StoreDupes ==
  ASSUME NEW n \in Node, NEW sn, NEW c \in GoodEcs(n, sn), NEW key
  PROVE  /\ StorePacketForDupeChecks(c, key).dq = Stored(c.dq, key)
         /\ StorePacketForDupeChecks(c, key).seqno = c.seqno
BY DEF GoodEcs, StorePacketForDupeChecks, Stored

LEMMA ReliableBroadcastDupes ==
  ASSUME NEW n \in Node, NEW sn \in Histories, NEW c \in GoodEcs(n, sn),
         NEW key \in sn[n], NEW data \in Nat
  PROVE  ReliableBroadcastNs(c, n, key, data).dq \in {c.dq, Stored(c.dq, key)}
<1> DEFINE sq2 == AddPacket(c.sq, NEIGHBOR_DATA, BroadcastPacket(n, key, data),
                            Neighbors[n])
           c2 == [c EXCEPT !.sq = sq2, !.data_timer = TRUE]
<1>1. ReliableBroadcastNs(c, n, key, data) =
        IF Neighbors[n] = {} THEN c ELSE StorePacketForDupeChecks(c2, key)
  BY DEF ReliableBroadcastNs
<1> HIDE DEF sq2
<1>2. StorePacketForDupeChecks(c2, key).dq = Stored(c.dq, key)
  BY DEF GoodEcs, StorePacketForDupeChecks, Stored
<1> HIDE DEF c2
<1> QED  BY <1>1, <1>2

LEMMA OwnBroadcastDupes ==
  ASSUME NEW n \in Node, NEW sn \in Histories, NEW c \in GoodEcs(n, sn),
         <<n, c.seqno>> \in sn[n], c.seqno < MaxOwn, life[n] \in Nat
  PROVE  OwnBroadcast(c, n).dq \in {c.dq, Stored(c.dq, <<n, c.seqno>>)}
<1> DEFINE s == c.seqno + 1
           c2 == [c EXCEPT !.seqno = s]
           key == <<n, c.seqno>>
<1>1. c2 \in GoodEcs(n, sn) /\ c2.dq = c.dq
  <2>1. c.seqno \in 0..255 /\ MaxOwn \in 0..255
    BY NeighborConnAssumption DEF GoodEcs
  <2>2. s \in 0..255  BY <2>1
  <2> HIDE DEF s
  <2> QED  BY <2>2 DEF GoodEcs
<1>2. OwnBroadcast(c, n) = ReliableBroadcastNs(c2, n, key, life[n])
  BY DEF OwnBroadcast
<1>3. key \in sn[n]  OBVIOUS
<1> HIDE DEF c2, key
<1>4. OwnBroadcast(c, n).dq \in {c.dq, Stored(c.dq, key)}
  BY <1>1, <1>2, <1>3, ReliableBroadcastDupes
<1> QED  BY <1>4 DEF key

LEMMA QueueAckDupes ==
  ASSUME NEW n \in Node, NEW sn, NEW c \in GoodEcs(n, sn), NEW p
  PROVE  QueueAck(c, n, p).dq = c.dq /\ QueueAck(c, n, p).seqno = c.seqno
BY DEF GoodEcs, QueueAck

\* What one node remembers after another packet was handed over.
LEMMA HandedRemembers ==
  ASSUME NEW S, NEW dq \in Seq(S), Len(dq) <= DupeQueueLength,
         NEW l \in Seq(Packet), NEW p \in Packet, KeyOf(p) \in S,
         NEW s \in Nat, NEW more \in {0, 1},
         Remembers(dq, l, s), FarApart(l, s), ~Contains(dq, KeyOf(p)),
         NEW e,
         more < DupeQueueLength => Within(e, KeyOf(p), more + 1),
         \A k : \A w \in Nat : Within(dq, k, w) /\ w + more < DupeQueueLength =>
           Within(e, k, w + more + 1)
  PROVE  Remembers(e, Append(l, p), s + more) /\ FarApart(Append(l, p), s + more)
<1> DEFINE L == Len(l)
           m == Append(l, p)
           t == s + more
<1>0. L \in Nat /\ DupeQueueLength \in 1..255 /\ t \in Nat /\ t >= s /\ t >= more
      /\ t = s + more /\ more \in Nat
  BY LenProperties, NeighborConnAssumption
<1>1. Len(m) = L + 1 /\ m[L + 1] = p /\ \A j \in 1..L : m[j] = l[j]
  BY AppendProperties
<1> HIDE DEF m, t, L
<1>2. ASSUME NEW j \in 1..L, L + 1 - j + t < DupeQueueLength
      PROVE  Within(e, KeyOf(l[j]), L + 1 - j + 1 + t)
  <2> DEFINE w == L - j + 1 + s
  <2>1. w \in Nat /\ w + more < DupeQueueLength /\ L - j + s < DupeQueueLength
        /\ w + more + 1 = L + 1 - j + 1 + t
    BY <1>0, <1>2
  <2>2. Within(dq, KeyOf(l[j]), w)  BY <2>1 DEF Remembers, L
  <2> HIDE DEF w
  <2>3. Within(e, KeyOf(l[j]), w + more + 1)  BY <2>1, <2>2
  <2> QED  BY <2>1, <2>3
<1>3. ASSUME t < DupeQueueLength PROVE Within(e, KeyOf(p), 1 + t)
  <2>1. Within(e, KeyOf(p), more + 1)  BY <1>0, <1>3
  <2>2. more + 1 <= 1 + t /\ more + 1 \in Nat /\ 1 + t \in Nat  BY <1>0
  <2> QED  BY <2>1, <2>2 DEF Within
<1>4. Remembers(e, m, t)
  <2> SUFFICES ASSUME NEW j \in 1..Len(m), Len(m) - j + t < DupeQueueLength
               PROVE  Within(e, KeyOf(m[j]), Len(m) - j + 1 + t)
    BY DEF Remembers
  <2>1. CASE j \in 1..L
    <3>1. L + 1 - j + t < DupeQueueLength  BY <1>0, <1>1
    <3>2. Within(e, KeyOf(l[j]), L + 1 - j + 1 + t)  BY <2>1, <3>1, <1>2
    <3> QED  BY <3>2, <2>1, <1>0, <1>1
  <2>2. CASE j = L + 1
    <3>1. L + 1 - j + 1 + t = 1 + t /\ t < DupeQueueLength
      BY <2>2, <1>0, <1>1
    <3>2. Within(e, KeyOf(m[j]), 1 + t)  BY <3>1, <2>2, <1>1, <1>3
    <3> QED  BY <3>1, <3>2, <1>0, <1>1
  <2>3. j \in 1..L \/ j = L + 1  BY <1>0, <1>1
  <2> QED  BY <2>1, <2>2, <2>3
<1>5. FarApart(m, t)
  <2> SUFFICES ASSUME NEW i \in 1..(L + 1), NEW j \in 1..(L + 1), i < j,
                      KeyOf(m[i]) = KeyOf(m[j])
               PROVE  j - i + t > DupeQueueLength
    BY <1>1 DEF FarApart
  <2>1. CASE j \in 1..L
    <3>1. i \in 1..L  BY <2>1, <1>0
    <3>2. j - i + s > DupeQueueLength  BY <3>1, <2>1, <1>1 DEF FarApart, L
    <3> QED  BY <3>2, <1>0
  <2>2. CASE j = L + 1
    <3>1. i \in 1..L  BY <2>2, <1>0
    <3>2. KeyOf(l[i]) = KeyOf(p)  BY <3>1, <2>2, <1>1
    <3>3. ~Within(dq, KeyOf(l[i]), L - i + 1 + s)
      BY <3>2 DEF Within, Contains
    <3>4. ~(L - i + s < DupeQueueLength)  BY <3>1, <3>3 DEF Remembers, L
    <3> QED  BY <3>1, <3>4, <2>2, <1>0
  <2>3. j \in 1..L \/ j = L + 1  BY <1>0
  <2> QED  BY <2>1, <2>2, <2>3
<1> QED  BY <1>4, <1>5 DEF m, t

\* A new packet is handed to the application.
LEMMA HandOverRInv ==
  ASSUME IInv, RInv, NEW n \in Node, NEW reply \in {FALSE, MayOriginate(n)},
         rx[n] \in Packet, ~Contains(ec[n].dq, KeyOf(rx[n])),
         Deliver(n, rx[n], Callback(ec[n], n, rx[n], reply)),
         UNCHANGED <<up, life, sink_seqno>>,
         NEW d, ec' = [ec EXCEPT ![n] = d],
         d.dq = Stored(Callback(ec[n], n, rx[n], reply).dq, KeyOf(rx[n])),
         d.seqno = Callback(ec[n], n, rx[n], reply).seqno
  PROVE  RInv'
<1> DEFINE p == rx[n]
           c == ec[n]
           S == seen'[n]
           s == c.seqno
           own == <<n, s>>
           more == IF reply THEN 1 ELSE 0
           f == IF p.originator = Sink
                THEN ReliableBroadcastNs(c, n, KeyOf(p), p.data)
                ELSE c
           g == Callback(c, n, p, reply)
<1>1. /\ KeyOf(p) \in S
      /\ Grows(seen, seen')
      /\ RestInv'
      /\ reply \in BOOLEAN
      /\ reply => s < MaxOwn /\ own \in S
  BY DeliverGood
<1>2. /\ ec \in [Node -> EcRecord] /\ c \in GoodEcs(n, seen)
      /\ log \in [Node -> Seq(Packet)] /\ life[n] \in Nat
  BY DEF IInv, EcInv, RestInv
<1>3. seen' \in Histories  BY <1>1 DEF RestInv
<1>4. c \in GoodEcs(n, seen')  BY <1>1, <1>2, GoodEcsMonotonic
<1>5. c.dq \in Seq(S) /\ Len(c.dq) <= DupeQueueLength /\ s \in Nat
  <2>1. s \in 0..255  BY <1>4 DEF GoodEcs
  <2>2. c.dq \in Seq(S) /\ Len(c.dq) <= DupeQueueLength  BY <1>4 DEF GoodEcs
  <2> HIDE DEF s, c, S, p, own, more, f, g
  <2>3. s \in Nat  BY <2>1, SMT
  <2> QED  BY <2>2, <2>3, Zenon
<1>6. /\ f \in GoodEcs(n, seen') /\ f.seqno = s
      /\ f.dq \in {c.dq, Stored(c.dq, KeyOf(p))}
  <2>1. p.data \in Nat  BY DEF Packet
  <2> QED
    BY <2>1, <1>1, <1>3, <1>4, ReliableBroadcastGood, ReliableBroadcastDupes
<1>7. g = IF reply THEN OwnBroadcast(f, n) ELSE f
  BY DEF Callback
<1> HIDE DEF f
<1>8. /\ g.seqno = s + more /\ more \in {0, 1}
      /\ g.dq = f.dq \/ (more = 1 /\ own \in S /\ g.dq = Stored(f.dq, own))
  <2>1. CASE reply
    BY <2>1, <1>1, <1>2, <1>3, <1>6, <1>7, OwnBroadcastGood, OwnBroadcastDupes
  <2>2. CASE ~reply  BY <2>2, <1>5, <1>6, <1>7
  <2> QED  BY <2>1, <2>2, <1>1
<1> HIDE DEF g, more, own
<1>9. /\ more < DupeQueueLength => Within(d.dq, KeyOf(p), more + 1)
      /\ \A k : \A w \in Nat :
           Within(c.dq, k, w) /\ w + more < DupeQueueLength =>
             Within(d.dq, k, w + more + 1)
  <2>1. d.dq = Stored(g.dq, KeyOf(p)) /\ ~Contains(c.dq, KeyOf(p))
    BY DEF g
  <2> HIDE DEF S, c, p
  <2> QED  BY <2>1, <1>1, <1>5, <1>6, <1>8, HandedStored
<1>10. /\ Remembers(d.dq, Append(log[n], p), s + more)
       /\ FarApart(Append(log[n], p), s + more)
  <2>1. /\ Remembers(c.dq, log[n], s) /\ FarApart(log[n], s)
        /\ log[n] \in Seq(Packet) /\ p \in Packet
    BY <1>2 DEF RInv
  <2>2. ~Contains(c.dq, KeyOf(p))  OBVIOUS
  <2> HIDE DEF S, c, p, s
  <2> QED  BY <2>1, <2>2, <1>1, <1>5, <1>8, <1>9, HandedRemembers
<1>11. log' = [log EXCEPT ![n] = Append(log[n], p)] /\ d.seqno = s + more
  BY <1>8 DEF Deliver, g
<1>12. /\ ec'[n] = d /\ \A m \in Node \ {n} : ec'[m] = ec[m]
       /\ log'[n] = Append(log[n], p) /\ \A m \in Node \ {n} : log'[m] = log[m]
  BY <1>2, <1>11
<1> HIDE DEF c, p, s
<1> QED  BY <1>10, <1>11, <1>12 DEF RInv

\* A step that leaves the duplicate queues alone, and what was handed over.
LEMMA QuietRInv ==
  ASSUME RInv, log' = log,
         \A n \in Node : ec'[n].dq = ec[n].dq /\ ec'[n].seqno = ec[n].seqno
  PROVE  RInv'
BY DEF RInv

\* One node's queue, timers or ACKs change.
LEMMA SameDupesRInv ==
  ASSUME IInv, RInv, NEW n \in Node, NEW d, ec' = [ec EXCEPT ![n] = d],
         d.dq = ec[n].dq, d.seqno = ec[n].seqno, log' = log
  PROVE  RInv'
<1>1. ec \in [Node -> EcRecord]  BY DEF IInv, EcInv
<1>2. \A m \in Node : ec'[m].dq = ec[m].dq /\ ec'[m].seqno = ec[m].seqno
  BY <1>1
<1> QED  BY <1>2, QuietRInv

LEMMA SendRInv ==
  ASSUME IInv, RInv, NEW n \in Node, SendData(n) \/ SendAck(n)
  PROVE  RInv'
<1>1. ec[n] \in EcRecord /\ log' = log
  BY DEF IInv, EcInv, SendData, NoDataToSend, SendFirstData, GiveUpFirstData,
         DataTimerFires, SendAck, NoAckToSend, SendFirstAck, AckTimerFires
<1>2. ASSUME NEW sq, ec' = [ec EXCEPT ![n].sq = sq] PROVE RInv'
  <2> DEFINE d == [ec[n] EXCEPT !.sq = sq]
  <2>1. d.dq = ec[n].dq /\ d.seqno = ec[n].seqno  BY <1>1 DEF EcRecord
  <2>2. ec' = [ec EXCEPT ![n] = d]  BY <1>2
  <2> HIDE DEF d
  <2> QED  BY <2>1, <2>2, <1>1, SameDupesRInv
<1>3. ASSUME NEW sq, NEW b, ec' = [ec EXCEPT ![n].sq = sq, ![n].data_timer = b]
      PROVE  RInv'
  <2> DEFINE d == [ec[n] EXCEPT !.sq = sq, !.data_timer = b]
  <2>1. d.dq = ec[n].dq /\ d.seqno = ec[n].seqno  BY <1>1 DEF EcRecord
  <2>2. ec' = [ec EXCEPT ![n] = d]  BY <1>3
  <2> HIDE DEF d
  <2> QED  BY <2>1, <2>2, <1>1, SameDupesRInv
<1>4. ASSUME NEW sq, NEW b, ec' = [ec EXCEPT ![n].sq = sq, ![n].ack_timer = b]
      PROVE  RInv'
  <2> DEFINE d == [ec[n] EXCEPT !.sq = sq, !.ack_timer = b]
  <2>1. d.dq = ec[n].dq /\ d.seqno = ec[n].seqno  BY <1>1 DEF EcRecord
  <2>2. ec' = [ec EXCEPT ![n] = d]  BY <1>4
  <2> HIDE DEF d
  <2> QED  BY <2>1, <2>2, <1>1, SameDupesRInv
<1>5. CASE NoDataToSend(n)
  <2> DEFINE d == [ec[n] EXCEPT !.data_timer = FALSE]
  <2>1. d.dq = ec[n].dq /\ d.seqno = ec[n].seqno  BY <1>1 DEF EcRecord
  <2>2. ec' = [ec EXCEPT ![n] = d]  BY <1>5 DEF NoDataToSend
  <2> HIDE DEF d
  <2> QED  BY <2>1, <2>2, <1>1, SameDupesRInv
<1>6. CASE NoAckToSend(n)
  <2> DEFINE d == [ec[n] EXCEPT !.ack_timer = FALSE]
  <2>1. d.dq = ec[n].dq /\ d.seqno = ec[n].seqno  BY <1>1 DEF EcRecord
  <2>2. ec' = [ec EXCEPT ![n] = d]  BY <1>6 DEF NoAckToSend
  <2> HIDE DEF d
  <2> QED  BY <2>1, <2>2, <1>1, SameDupesRInv
<1>7. CASE SendFirstData(n)
  <2>1. \E sq : ec' = [ec EXCEPT ![n].sq = sq]
    BY <1>7 DEF SendFirstData, SendDataPacket
  <2> QED  BY <2>1, <1>2
<1>8. CASE GiveUpFirstData(n)
  <2>1. \/ \E sq : ec' = [ec EXCEPT ![n].sq = sq]
        \/ \E sq, b : ec' = [ec EXCEPT ![n].sq = sq, ![n].data_timer = b]
    BY <1>8 DEF GiveUpFirstData, SendDataPacket
  <2> QED  BY <2>1, <1>2, <1>3
<1>9. CASE SendFirstAck(n)
  <2>1. \E sq, b : ec' = [ec EXCEPT ![n].sq = sq, ![n].ack_timer = b]
    BY <1>9 DEF SendFirstAck
  <2> QED  BY <2>1, <1>4
<1> QED  BY <1>5, <1>6, <1>7, <1>8, <1>9 DEF SendData, SendAck

LEMMA RecvRInv ==
  ASSUME IInv, RInv, NEW n \in Node, Recv(n)
  PROVE  RInv'
<1>0. ec \in [Node -> EcRecord] /\ ec[n] \in GoodEcs(n, seen) /\ ec[n] \in EcRecord
  BY DEF IInv, EcInv
<1>1. CASE RecvNotForUs(n) \/ RecvAckForNonSentPacket(n) \/ RecvDataOverflow(n)
  BY <1>1, QuietRInv DEF RecvNotForUs, RecvAckForNonSentPacket, RecvDataOverflow
<1>2. CASE RecvAck(n)
  <2>1. PICK sq, b : ec' = [ec EXCEPT ![n].sq = sq, ![n].data_timer = b] /\ log' = log
    <3>1. PICK sq : \/ ec' = [ec EXCEPT ![n].sq = sq, ![n].data_timer = TRUE]
                    \/ ec' = [ec EXCEPT ![n].sq = sq]
      BY <1>2 DEF RecvAck
    <3>2. log' = log  BY <1>2 DEF RecvAck
    <3>3. [ec EXCEPT ![n].sq = sq] =
            [ec EXCEPT ![n].sq = sq, ![n].data_timer = ec[n].data_timer]
      BY <1>0 DEF EcRecord
    <3> QED  BY <3>1, <3>2, <3>3
  <2> DEFINE d == [ec[n] EXCEPT !.sq = sq, !.data_timer = b]
  <2>2. d.dq = ec[n].dq /\ d.seqno = ec[n].seqno  BY <1>0 DEF EcRecord
  <2>3. ec' = [ec EXCEPT ![n] = d]  BY <2>1
  <2> HIDE DEF d
  <2> QED  BY <2>1, <2>2, <2>3, SameDupesRInv
<1>3. CASE RecvDupe(n)
  <2> DEFINE d == QueueAck(ec[n], n, rx[n])
  <2>1. ec' = [ec EXCEPT ![n] = d] /\ log' = log  BY <1>3 DEF RecvDupe
  <2>2. d.dq = ec[n].dq /\ d.seqno = ec[n].seqno  BY <1>0, QueueAckDupes
  <2> HIDE DEF d
  <2> QED  BY <2>1, <2>2, SameDupesRInv
<1>4. ASSUME NEW reply \in {FALSE, MayOriginate(n)},
             Deliver(n, rx[n], Callback(ec[n], n, rx[n], reply)), Handle(n)
      PROVE  LET c == Callback(ec[n], n, rx[n], reply)
                 e == StorePacketForDupeChecks(c, KeyOf(rx[n]))
             IN  /\ e.dq = Stored(c.dq, KeyOf(rx[n])) /\ e.seqno = c.seqno
                 /\ rx[n].sender \in Node =>
                      /\ QueueAck(e, n, rx[n]).dq = e.dq
                      /\ QueueAck(e, n, rx[n]).seqno = e.seqno
  <2> DEFINE c == Callback(ec[n], n, rx[n], reply)
             e == StorePacketForDupeChecks(c, KeyOf(rx[n]))
  <2>1. rx[n] \in Packet /\ UNCHANGED <<up, life, sink_seqno>>
    BY <1>4, HandleGood DEF Handle
  <2>2. c \in GoodEcs(n, seen') /\ KeyOf(rx[n]) \in seen'[n] /\ seen' \in Histories
    BY <2>1, <1>4, DeliverGood DEF RestInv
  <2> HIDE DEF c
  <2>3. e \in GoodEcs(n, seen')  BY <2>2, StoreGood
  <2>4. e.dq = Stored(c.dq, KeyOf(rx[n])) /\ e.seqno = c.seqno
    BY <2>2, StoreDupes
  <2> HIDE DEF e
  <2>5. QueueAck(e, n, rx[n]).dq = e.dq /\ QueueAck(e, n, rx[n]).seqno = e.seqno
    BY <2>3, QueueAckDupes
  <2> QED  BY <2>4, <2>5 DEF c, e
<1>5. CASE RecvNewData(n)
  <2>1. PICK reply \in {FALSE, MayOriginate(n)} :
          LET c == Callback(ec[n], n, rx[n], reply)
          IN  /\ ec' = [ec EXCEPT ![n] =
                          QueueAck(StorePacketForDupeChecks(c, KeyOf(rx[n])), n, rx[n])]
              /\ Deliver(n, rx[n], c)
    BY <1>5 DEF RecvNewData
  <2> DEFINE c == Callback(ec[n], n, rx[n], reply)
             d == QueueAck(StorePacketForDupeChecks(c, KeyOf(rx[n])), n, rx[n])
  <2>2. /\ Handle(n) /\ UNCHANGED <<up, life, sink_seqno>> /\ rx[n] \in Packet
        /\ ~Contains(ec[n].dq, KeyOf(rx[n]))
        /\ rx[n].sender \in Node
    BY <1>5, HandleGood, NeighborConnAssumption DEF RecvNewData, Handle, ForUs
  <2>3. d.dq = Stored(c.dq, KeyOf(rx[n])) /\ d.seqno = c.seqno
    BY <2>1, <2>2, <1>4
  <2>4. ec' = [ec EXCEPT ![n] = d] /\ Deliver(n, rx[n], c)  BY <2>1
  <2> HIDE DEF d
  <2> QED  BY <2>2, <2>3, <2>4, HandOverRInv
<1>6. CASE RecvFromSink(n)
  <2>1. Handle(n) /\ UNCHANGED <<up, life, sink_seqno>> /\ rx[n] \in Packet
    BY <1>6, HandleGood DEF RecvFromSink, Handle
  <2>2. CASE UNCHANGED <<ec, seen, log>>  BY <2>2, QuietRInv
  <2>3. ASSUME NEW reply \in {FALSE, MayOriginate(n)},
               ~Contains(ec[n].dq, KeyOf(rx[n])),
               ec' = [ec EXCEPT ![n] =
                        StorePacketForDupeChecks(Callback(ec[n], n, rx[n], reply),
                                                 KeyOf(rx[n]))],
               Deliver(n, rx[n], Callback(ec[n], n, rx[n], reply))
        PROVE  RInv'
    <3> DEFINE c == Callback(ec[n], n, rx[n], reply)
               d == StorePacketForDupeChecks(c, KeyOf(rx[n]))
    <3>1. d.dq = Stored(c.dq, KeyOf(rx[n])) /\ d.seqno = c.seqno
      BY <2>1, <2>3, <1>4
    <3>2. ec' = [ec EXCEPT ![n] = d]  BY <2>3
    <3> HIDE DEF d
    <3> QED  BY <3>1, <3>2, <2>1, <2>3, HandOverRInv
  <2> QED  BY <2>2, <2>3, <1>6 DEF RecvFromSink
<1> QED  BY <1>1, <1>2, <1>3, <1>5, <1>6 DEF Recv

\* A node's own packet is stored, and counted.
LEMMA AppBroadcastRInv ==
  ASSUME IInv, RInv, NEW n \in Node, AppBroadcast(n)
  PROVE  RInv'
<1> DEFINE c == ec[n]
           d == OwnBroadcast(c, n)
           s == c.seqno
           key == <<n, s>>
           S == seen'[n]
<1>1. /\ ec \in [Node -> EcRecord] /\ c \in GoodEcs(n, seen)
      /\ seen \in [Node -> SUBSET Key] /\ life[n] \in Nat /\ s \in 0..255
      /\ log \in [Node -> Seq(Packet)]
  BY DEF IInv, EcInv, RestInv, EcRecord, Histories
<1>2. /\ ec' = [ec EXCEPT ![n] = d] /\ s < MaxOwn
      /\ seen' = [seen EXCEPT ![n] = @ \cup {key}] /\ log' = log
  BY DEF AppBroadcast, MayOriginate
<1>3. key \in S /\ Grows(seen, seen')  BY <1>1, <1>2 DEF Grows
<1>4. seen' \in Histories
  <2>1. IInv'  BY AppBroadcastIInv
  <2> QED  BY <2>1 DEF IInv, RestInv
<1>5. c \in GoodEcs(n, seen')  BY <1>1, <1>3, GoodEcsMonotonic
<1>6. d.seqno = s + 1 /\ d.dq \in {c.dq, Stored(c.dq, key)}
  BY <1>1, <1>2, <1>3, <1>4, <1>5, OwnBroadcastGood, OwnBroadcastDupes
<1>7. c.dq \in Seq(S) /\ Len(c.dq) <= DupeQueueLength  BY <1>5 DEF GoodEcs
<1> HIDE DEF d
<1>8. ec'[n] = d /\ \A m \in Node \ {n} : ec'[m] = ec[m]
  BY <1>1, <1>2
<1>9. \A k : \A w \in Nat :
        Within(c.dq, k, w) /\ w < DupeQueueLength => Within(d.dq, k, w + 1)
  <2>1. \A k : \A w \in Nat : Within(c.dq, k, w) => Within(c.dq, k, w + 1)
    BY <1>7, LenProperties DEF Within
  <2> HIDE DEF c, key, S
  <2>2. CASE d.dq = c.dq  BY <2>1, <2>2
  <2>3. CASE d.dq = Stored(c.dq, key)
    <3>1. \A k : \A w \in Nat :
            Within(c.dq, k, w) /\ w < DupeQueueLength =>
              Within(Stored(c.dq, key), k, w + 1)
      BY <1>3, <1>7, StoredProperties
    <3> QED  BY <2>3, <3>1
  <2> QED  BY <1>6, <2>2, <2>3
<1> DEFINE l == log[n]
<1>10. Len(l) \in Nat /\ s \in Nat /\ DupeQueueLength \in Nat
  <2>1. l \in Seq(Packet) /\ s \in 0..255  BY <1>1
  <2>2. DupeQueueLength \in 1..255  BY NeighborConnAssumption
  <2> HIDE DEF l, s
  <2> QED  BY <2>1, <2>2, LenProperties
<1>11. Remembers(c.dq, l, s) /\ FarApart(l, s)  BY DEF RInv
<1> HIDE DEF c, l, s, key, S
<1>12. Remembers(d.dq, l, s + 1)
  <2> SUFFICES ASSUME NEW j \in 1..Len(l), Len(l) - j + (s + 1) < DupeQueueLength
               PROVE  Within(d.dq, KeyOf(l[j]), Len(l) - j + 1 + (s + 1))
    BY DEF Remembers
  <2> DEFINE w == Len(l) - j + 1 + s
  <2>1. w \in Nat /\ w < DupeQueueLength /\ w + 1 = Len(l) - j + 1 + (s + 1)
        /\ Len(l) - j + s < DupeQueueLength
    BY <1>10
  <2>2. Within(c.dq, KeyOf(l[j]), w)  BY <2>1, <1>11 DEF Remembers
  <2> HIDE DEF w
  <2>3. Within(d.dq, KeyOf(l[j]), w + 1)  BY <2>1, <2>2, <1>9
  <2> QED  BY <2>1, <2>3
<1>13. FarApart(l, s + 1)
  <2> SUFFICES ASSUME NEW i \in 1..Len(l), NEW j \in 1..Len(l), i < j,
                      KeyOf(l[i]) = KeyOf(l[j])
               PROVE  j - i + (s + 1) > DupeQueueLength
    BY DEF FarApart
  <2>1. j - i + s > DupeQueueLength  BY <1>11 DEF FarApart
  <2> QED  BY <2>1, <1>10
<1> QED  BY <1>2, <1>6, <1>8, <1>12, <1>13 DEF RInv, l

LEMMA CrashRInv ==
  ASSUME IInv, RInv, NEW n \in Node, Crash(n)
  PROVE  RInv'
<1>1. /\ ec' = [ec EXCEPT ![n] = ClosedEc] /\ log' = [log EXCEPT ![n] = << >>]
      /\ ec \in [Node -> EcRecord] /\ log \in [Node -> Seq(Packet)]
  BY DEF Crash, IInv, EcInv, RestInv
<1>2. /\ log'[n] = << >>
      /\ \A m \in Node \ {n} : ec'[m] = ec[m] /\ log'[m] = log[m]
  BY <1>1
<1>3. Remembers(ec'[n].dq, << >>, ec'[n].seqno) /\ FarApart(<< >>, ec'[n].seqno)
  <2>1. Len(<< >>) = 0  BY EmptySeq
  <2> QED  BY <2>1 DEF Remembers, FarApart
<1> QED  BY <1>2, <1>3 DEF RInv

LEMMA InitRInv == Init => RInv
<1>1. Len(<< >>) = 0  BY EmptySeq
<1> QED  BY <1>1 DEF Init, RInv, Remembers, FarApart

LEMMA NextRInv == IInv /\ RInv /\ [Next]_vars => RInv'
<1> SUFFICES ASSUME IInv, RInv, [Next]_vars PROVE RInv'
  OBVIOUS
<1>1. ASSUME NEW n \in Node, Restart(n) PROVE RInv'
  BY <1>1, QuietRInv DEF Restart
<1>2. CASE SinkBroadcast  BY <1>2, QuietRInv DEF SinkBroadcast
<1>3. CASE UNCHANGED vars  BY <1>3, QuietRInv DEF vars
<1> QED
  BY <1>1, <1>2, <1>3, SendRInv, RecvRInv, AppBroadcastRInv, CrashRInv DEF Next

LEMMA AlwaysRInv == Spec => [](IInv /\ RInv)
<1>1. Init => IInv /\ RInv  BY InitIInv, InitRInv
<1>2. IInv /\ RInv /\ [Next]_vars => (IInv /\ RInv)'  BY NextIInv, NextRInv
<1> QED  BY <1>1, <1>2, PTL DEF Spec

\* As many packets went through the node as its duplicate queue holds.
NothingForgotten ==
  \A n \in Node : Len(log[n]) + ec[n].seqno <= DupeQueueLength

-----------------------------------------------------------------------------
(* What the sending queue gains.  Taking a packet, forwarding it, replying *)
(* and acknowledging only add to the end of the queue; Extends says so,    *)
(* and what may have been added.                                           *)

Extends(q, r, B) ==
  /\ \A i \in DOMAIN q : i \in DOMAIN r /\ r[i] = q[i]
  /\ \A i \in DOMAIN r \ DOMAIN q : r[i] \in B /\ \A j \in DOMAIN q : j < i

\* What ec_reliable_broadcast_ns adds.
DataEntry(n, key, data) ==
  [type |-> NEIGHBOR_DATA, p |-> BroadcastPacket(n, key, data),
   unacked_ns |-> Neighbors[n], times_sent |-> 0]

\* What acknowledging p adds, whatever the slot was used for before.
AckEntries(n, p) ==
  {[type |-> NEIGHBOR_ACK, p |-> AckPacket(n, p), unacked_ns |-> ns,
    times_sent |-> 0] : ns \in SUBSET Node}

\* What the application adds that is handed p and has made s packets before.
CallbackEntries(n, p, reply, s) ==
  {b \in {DataEntry(n, KeyOf(p), p.data)} : p.originator = Sink}
  \cup {b \in {DataEntry(n, <<n, s>>, life[n])} : reply}

LEMMA ExtendsItself == ASSUME NEW q, NEW B PROVE Extends(q, q, B)
BY DEF Extends

LEMMA ExtendsMore ==
  ASSUME NEW q, NEW r, NEW A, NEW B, A \subseteq B, Extends(q, r, A)
  PROVE  Extends(q, r, B)
BY DEF Extends

LEMMA ExtendsTwice ==
  ASSUME NEW q, NEW r, NEW t, NEW A, NEW B, Extends(q, r, A), Extends(r, t, B)
  PROVE  Extends(q, t, A \cup B)
BY DEF Extends

\* Adding a packet.
LEMMA AddExtends ==
  ASSUME NEW S, NEW pb \in BufferOf(S), NEW type, NEW p, NEW ns
  PROVE  Extends(pb.queued, AddPacket(pb, type, p, ns).queued,
                 {[type |-> type, p |-> p, unacked_ns |-> ns, times_sent |-> 0]})
<1> DEFINE b == [type |-> type, p |-> p, unacked_ns |-> ns, times_sent |-> 0]
           T == S \cup {b}
           q2 == AddPacket(pb, type, p, ns).queued
<1>1. CASE Full(pb)
  <2>1. q2 = pb.queued  BY <1>1 DEF AddPacket, BufferOf
  <2> QED  BY <2>1, ExtendsItself
<1>2. CASE ~Full(pb)
  <2>1. pb \in BufferOf(T) /\ b \in T  BY BufferOfMonotonic
  <2>2. /\ Len(pb.queued) \in Nat /\ DOMAIN pb.queued = 1..Len(pb.queued)
        /\ DOMAIN q2 = 1..(Len(pb.queued) + 1)
        /\ q2[Len(pb.queued) + 1] = b
        /\ \A i \in 1..Len(pb.queued) : q2[i] = pb.queued[i]
    <3> HIDE DEF T
    <3> QED  BY <2>1, <1>2, AddPacketPositions
  <2> HIDE DEF b, q2, T
  <2> DEFINE k == Len(pb.queued)
             q == pb.queued
  <2>3. /\ k \in Nat /\ DOMAIN q = 1..k /\ DOMAIN q2 = 1..(k + 1)
        /\ q2[k + 1] = b /\ \A i \in 1..k : q2[i] = q[i]
    BY <2>2
  <2> HIDE DEF k, q
  <2>4. Extends(q, q2, {b})  BY <2>3 DEF Extends
  <2> QED  BY <2>4 DEF q, q2, b
<1> QED  BY <1>1, <1>2

LEMMA StoreExtends ==
  ASSUME NEW n \in Node, NEW sn, NEW c \in GoodEcs(n, sn), NEW key, NEW B
  PROVE  Extends(c.sq.queued, StorePacketForDupeChecks(c, key).sq.queued, B)
<1>1. StorePacketForDupeChecks(c, key).sq = c.sq
  BY StoreSound
<1> QED  BY <1>1, ExtendsItself

LEMMA ReliableBroadcastExtends ==
  ASSUME NEW n \in Node, NEW sn \in Histories, NEW c \in GoodEcs(n, sn),
         NEW key \in sn[n], NEW data \in Nat
  PROVE  Extends(c.sq.queued, ReliableBroadcastNs(c, n, key, data).sq.queued,
                 {DataEntry(n, key, data)})
<1> DEFINE p == BroadcastPacket(n, key, data)
           sq2 == AddPacket(c.sq, NEIGHBOR_DATA, p, Neighbors[n])
           c2 == [c EXCEPT !.sq = sq2, !.data_timer = TRUE]
<1>1. CASE Neighbors[n] = {}
  <2>1. ReliableBroadcastNs(c, n, key, data) = c  BY <1>1 DEF ReliableBroadcastNs
  <2> QED  BY <2>1, ExtendsItself
<1>2. CASE Neighbors[n] # {}
  <2>1. ReliableBroadcastNs(c, n, key, data) = StorePacketForDupeChecks(c2, key)
    BY <1>2 DEF ReliableBroadcastNs
  <2>2. c.sq \in BufferOf(GoodEntries(n, sn))  BY GoodQueue
  <2>3. Extends(c.sq.queued, sq2.queued, {DataEntry(n, key, data)})
    BY <2>2, AddExtends DEF DataEntry
  <2> HIDE DEF sq2
  <2>4. StorePacketForDupeChecks(c2, key).sq = sq2
    BY DEF StorePacketForDupeChecks, GoodEcs
  <2> QED  BY <2>1, <2>3, <2>4
<1> QED  BY <1>1, <1>2

LEMMA OwnBroadcastExtends ==
  ASSUME NEW n \in Node, NEW sn \in Histories, NEW c \in GoodEcs(n, sn),
         <<n, c.seqno>> \in sn[n], c.seqno < MaxOwn, life[n] \in Nat
  PROVE  Extends(c.sq.queued, OwnBroadcast(c, n).sq.queued,
                 {DataEntry(n, <<n, c.seqno>>, life[n])})
<1> DEFINE s == c.seqno + 1
           c2 == [c EXCEPT !.seqno = s]
           key == <<n, c.seqno>>
<1>1. c2 \in GoodEcs(n, sn) /\ c2.sq = c.sq
  <2>1. c.seqno \in 0..255 /\ MaxOwn \in 0..255
    BY NeighborConnAssumption DEF GoodEcs
  <2>2. s \in 0..255  BY <2>1
  <2> HIDE DEF s
  <2> QED  BY <2>2 DEF GoodEcs
<1>2. OwnBroadcast(c, n) = ReliableBroadcastNs(c2, n, key, life[n])
  BY DEF OwnBroadcast
<1>3. key \in sn[n]  OBVIOUS
<1> HIDE DEF c2, key
<1>4. Extends(c2.sq.queued, OwnBroadcast(c, n).sq.queued, {DataEntry(n, key, life[n])})
  BY <1>1, <1>2, <1>3, ReliableBroadcastExtends
<1> QED  BY <1>1, <1>4 DEF key

LEMMA QueueAckExtends ==
  ASSUME NEW n \in Node, NEW sn, NEW c \in GoodEcs(n, sn), NEW p
  PROVE  Extends(c.sq.queued, QueueAck(c, n, p).sq.queued, AckEntries(n, p))
<1> DEFINE a == AckPacket(n, p)
           sq2 == AddUntrackedPacket(c.sq, NEIGHBOR_ACK, a)
<1>1. c.sq \in BufferOf(GoodEntries(n, sn)) /\ c.sq.leftover \in Seq(SUBSET Node)
  BY GoodQueue DEF BufferOf
<1>2. CASE IsQueued(c.sq, a)
  <2>1. QueueAck(c, n, p) = c  BY <1>2 DEF QueueAck
  <2> QED  BY <2>1, ExtendsItself
<1>3. CASE ~IsQueued(c.sq, a)
  <2>1. QueueAck(c, n, p).sq = sq2  BY <1>3 DEF QueueAck, GoodEcs
  <2>2. CASE Full(c.sq)
    <3>1. sq2.queued = c.sq.queued
      BY <2>2, <1>1 DEF AddUntrackedPacket, BufferOf
    <3> QED  BY <2>1, <3>1, ExtendsItself
  <2>3. CASE ~Full(c.sq)
    <3> DEFINE ns == Head(c.sq.leftover)
               b == [type |-> NEIGHBOR_ACK, p |-> a, unacked_ns |-> ns, times_sent |-> 0]
    <3>1. ns \in SUBSET Node
      BY <2>3, <1>1, HeadTailProperties DEF Full
    <3>2. sq2 = AddPacket(c.sq, NEIGHBOR_ACK, a, ns)
      BY <2>3 DEF AddUntrackedPacket
    <3>3. Extends(c.sq.queued, sq2.queued, {b})
      BY <3>2, <1>1, AddExtends
    <3>4. {b} \subseteq AckEntries(n, p)  BY <3>1 DEF AckEntries
    <3> HIDE DEF b, sq2
    <3> QED  BY <2>1, <3>3, <3>4, ExtendsMore
  <2> QED  BY <2>2, <2>3
<1> QED  BY <1>2, <1>3

LEMMA CallbackExtends ==
  ASSUME NEW n \in Node, NEW sn \in Histories, NEW c \in GoodEcs(n, sn),
         NEW p \in Packet, KeyOf(p) \in sn[n], life[n] \in Nat,
         NEW reply \in BOOLEAN,
         reply => c.seqno < MaxOwn /\ <<n, c.seqno>> \in sn[n]
  PROVE  Extends(c.sq.queued, Callback(c, n, p, reply).sq.queued,
                 CallbackEntries(n, p, reply, c.seqno))
<1> DEFINE f == IF p.originator = Sink
                THEN ReliableBroadcastNs(c, n, KeyOf(p), p.data)
                ELSE c
           A == {b \in {DataEntry(n, KeyOf(p), p.data)} : p.originator = Sink}
           B == {b \in {DataEntry(n, <<n, c.seqno>>, life[n])} : reply}
<1>1. p.data \in Nat  BY DEF Packet
<1>2. f \in GoodEcs(n, sn) /\ f.seqno = c.seqno
  BY <1>1, ReliableBroadcastGood
<1>3. Extends(c.sq.queued, f.sq.queued, A)
  <2>1. CASE p.originator = Sink
    <3>1. A = {DataEntry(n, KeyOf(p), p.data)}  BY <2>1
    <3> HIDE DEF A
    <3> QED  BY <2>1, <3>1, <1>1, ReliableBroadcastExtends
  <2>2. CASE p.originator # Sink
    <3> HIDE DEF A
    <3> QED  BY <2>2, ExtendsItself
  <2> QED  BY <2>1, <2>2
<1>4. Callback(c, n, p, reply) = IF reply THEN OwnBroadcast(f, n) ELSE f
  BY DEF Callback
<1> HIDE DEF f, A
<1>5. Extends(f.sq.queued, Callback(c, n, p, reply).sq.queued, B)
  <2>1. CASE reply
    <3>1. B = {DataEntry(n, <<n, f.seqno>>, life[n])}  BY <2>1, <1>2
    <3> HIDE DEF B
    <3> QED  BY <2>1, <3>1, <1>2, <1>4, OwnBroadcastExtends
  <2>2. CASE ~reply
    <3> HIDE DEF B
    <3> QED  BY <2>2, <1>4, ExtendsItself
  <2> QED  BY <2>1, <2>2
<1> HIDE DEF B
<1>6. Extends(c.sq.queued, Callback(c, n, p, reply).sq.queued, A \cup B)
  BY <1>3, <1>5, ExtendsTwice
<1> QED  BY <1>6 DEF A, B, CallbackEntries

-----------------------------------------------------------------------------
(* The order of delivery.  A node's own packets stand in its queue in the  *)
(* order of their numbers; what it has on the air, and what others already *)
(* took from it, is not ahead of what it still has to send, and below the  *)
(* number its next packet gets; and what waits at a radio is not behind    *)
(* what its node took from the same sender.  A crash starts another life.  *)

OwnData(n, b) == b.type = NEIGHBOR_DATA /\ b.p.originator = n

\* What the queue of n holds is sent in its name, and the rest are ACKs.
Proper(n, b) == b.p.sender = n /\ (b.type # NEIGHBOR_DATA => b.p.ack)

\* The queue q of node n in its life l, which numbered s packets.
InLine(n, q, s, l) ==
  /\ \A i \in DOMAIN q :
       /\ Proper(n, q[i])
       /\ OwnData(n, q[i]) => q[i].p.data = l /\ q[i].p.seqno < s
  /\ \A i, j \in DOMAIN q :
       OwnData(n, q[i]) /\ OwnData(n, q[j]) /\ i < j => q[i].p.seqno <= q[j].p.seqno

\* Each own packet of n in r is new, or behind one in q.
Later(n, q, r, s) ==
  \A i \in DOMAIN r : OwnData(n, r[i]) =>
    \/ r[i].p.seqno >= s
    \/ \E j \in DOMAIN q : OwnData(n, q[j]) /\ q[j].p.seqno <= r[i].p.seqno

\* A packet from the node that made it.
Own(p) == ~p.ack /\ p.originator = p.sender

\* Packet p, made by k, is not ahead of anything k still has to send, when the
\* nodes' connections are e, their lives h and the sink broadcast t packets.
Past(k, p, e, h, t) ==
  LET l == IF k = Sink THEN 0 ELSE h[k]
  IN  /\ p.data <= l
      /\ p.data = l =>
           /\ p.seqno < IF k = Sink THEN t ELSE e[k].seqno
           /\ k # Sink => \A i \in DOMAIN e[k].sq.queued :
                OwnData(k, e[k].sq.queued[i]) => p.seqno <= e[k].sq.queued[i].p.seqno

\* Packet p is not behind what was taken from the same sender.
NotBehind(l, p) ==
  \A j \in DOMAIN l :
    Own(l[j]) /\ l[j].sender = p.sender /\ l[j].data = p.data => l[j].seqno <= p.seqno

PastKept ==
  \A k \in Node \cup {Sink}, p \in Packet :
    Past(k, p, ec, life, sink_seqno) => Past(k, p, ec', life', sink_seqno')

QueuesInLine == \A n \in Node : InLine(n, ec[n].sq.queued, ec[n].seqno, life[n])

RadiosInLine ==
  \A m \in Node : rx[m] # NoFrame /\ Own(rx[m]) =>
    Past(rx[m].sender, rx[m], ec, life, sink_seqno) /\ NotBehind(log[m], rx[m])

LogsInLine ==
  \A m \in Node : \A j \in DOMAIN log[m] :
    /\ ~log[m][j].ack
    /\ Own(log[m][j]) => Past(log[m][j].sender, log[m][j], ec, life, sink_seqno)

OInv == QueuesInLine /\ RadiosInLine /\ LogsInLine /\ DeliveredInOrder

\* What any step has to leave behind.
LEMMA StepOInv ==
  ASSUME IInv, OInv, QueuesInLine', PastKept,
         \A m \in Node :
           \/ rx'[m] \in {rx[m], NoFrame}
           \/ Own(rx'[m]) => /\ Past(rx'[m].sender, rx'[m], ec', life', sink_seqno')
                             /\ NotBehind(log[m], rx'[m]),
         \A m \in Node :
           \/ log'[m] = << >> /\ rx'[m] = NoFrame
           \/ log'[m] = log[m]
           \/ /\ rx[m] \in Packet /\ rx[m] # NoFrame /\ ~rx[m].ack
              /\ log'[m] = Append(log[m], rx[m]) /\ rx'[m] = NoFrame
  PROVE  OInv'
<1>1. ASSUME NEW m \in Node
      PROVE  /\ rx[m] # NoFrame => rx[m] \in Packet
             /\ log[m] \in Seq(Packet)
             /\ Len(log[m]) \in Nat /\ DOMAIN log[m] = 1..Len(log[m])
             /\ \A j \in DOMAIN log[m] : log[m][j] \in Packet
  <2>1. rx[m] # NoFrame => rx[m] \in Packet  BY DEF IInv, RxInv, GoodFrames
  <2>2. log[m] \in Seq(Packet)  BY DEF IInv, RestInv
  <2>3. Len(log[m]) \in Nat /\ DOMAIN log[m] = 1..Len(log[m])
    BY <2>2, LenProperties
  <2>4. \A j \in DOMAIN log[m] : log[m][j] \in Packet
    BY <2>2, <2>3, ElementOfSeq
  <2> QED  BY <2>1, <2>2, <2>3, <2>4
<1>2. \A p \in Packet : p.sender \in Node \cup {Sink} /\ p.seqno \in Nat
  <2>1. \A k \in 0..255 : k \in Nat  OBVIOUS
  <2>2. \A p \in Packet : p.sender \in Node \cup {Sink} /\ p.seqno \in 0..255
    BY DEF Packet
  <2> QED  BY <2>1, <2>2
<1>3. ASSUME NEW m \in Node
      PROVE  LET l == log[m] IN
             \/ log'[m] = << >> /\ rx'[m] = NoFrame
             \/ log'[m] = l
             \/ /\ rx[m] \in Packet /\ rx[m] # NoFrame /\ ~rx[m].ack
                /\ rx'[m] = NoFrame
                /\ DOMAIN log'[m] = 1..(Len(l) + 1)
                /\ log'[m][Len(l) + 1] = rx[m]
                /\ \A j \in 1..Len(l) : log'[m][j] = l[j]
  <2>1. CASE log'[m] = Append(log[m], rx[m]) /\ rx[m] \in Packet
    <3>1. /\ DOMAIN Append(log[m], rx[m]) = 1..(Len(log[m]) + 1)
          /\ Append(log[m], rx[m])[Len(log[m]) + 1] = rx[m]
          /\ \A j \in 1..Len(log[m]) : Append(log[m], rx[m])[j] = log[m][j]
      BY <2>1, <1>1, AppendProperties, LenProperties
    <3> QED  BY <2>1, <3>1
  <2> QED  BY <2>1
<1>4. RadiosInLine'
  <2>1. ASSUME NEW m \in Node, rx'[m] # NoFrame, Own(rx'[m])
        PROVE  /\ Past(rx'[m].sender, rx'[m], ec', life', sink_seqno')
               /\ NotBehind(log'[m], rx'[m])
    <3>1. log'[m] = log[m]  BY <2>1, <1>3
    <3>2. CASE rx'[m] = rx[m]
      <4>1. /\ Past(rx[m].sender, rx[m], ec, life, sink_seqno)
            /\ NotBehind(log[m], rx[m])
        BY <2>1, <3>2 DEF OInv, RadiosInLine
      <4>2. rx[m] \in Packet /\ rx[m].sender \in Node \cup {Sink}
        BY <2>1, <3>2, <1>1, <1>2
      <4> QED  BY <4>1, <4>2, <3>1, <3>2 DEF PastKept
    <3> QED  BY <2>1, <3>1, <3>2
  <2> QED  BY <2>1 DEF RadiosInLine
<1>5. LogsInLine'
  <2>1. ASSUME NEW m \in Node, NEW j \in DOMAIN log'[m]
        PROVE  /\ ~log'[m][j].ack
               /\ Own(log'[m][j]) =>
                    Past(log'[m][j].sender, log'[m][j], ec', life', sink_seqno')
    <3>0. DOMAIN << >> = {}  BY EmptySeq
    <3>1. CASE j \in DOMAIN log[m] /\ log'[m][j] = log[m][j]
      <4>1. log[m][j] \in Packet /\ log[m][j].sender \in Node \cup {Sink}
        BY <3>1, <1>1, <1>2
      <4>2. /\ ~log[m][j].ack
            /\ Own(log[m][j]) =>
                 Past(log[m][j].sender, log[m][j], ec, life, sink_seqno)
        BY <3>1 DEF OInv, LogsInLine
      <4> QED  BY <3>1, <4>1, <4>2 DEF PastKept
    <3>2. CASE /\ rx[m] \in Packet /\ rx[m] # NoFrame /\ ~rx[m].ack
               /\ log'[m][j] = rx[m]
      <4>1. rx[m].sender \in Node \cup {Sink}  BY <3>2, <1>2
      <4>2. Own(rx[m]) => Past(rx[m].sender, rx[m], ec, life, sink_seqno)
        BY <3>2 DEF OInv, RadiosInLine
      <4> QED  BY <3>2, <4>1, <4>2 DEF PastKept
    <3>3. \/ j \in DOMAIN log[m] /\ log'[m][j] = log[m][j]
          \/ /\ rx[m] \in Packet /\ rx[m] # NoFrame /\ ~rx[m].ack
             /\ log'[m][j] = rx[m]
      BY <2>1, <1>1, <1>3, <3>0
    <3> QED  BY <3>1, <3>2, <3>3
  <2> QED  BY <2>1 DEF LogsInLine
<1>6. DeliveredInOrder'
  <2> SUFFICES ASSUME NEW m \in Node, NEW i \in DOMAIN log'[m], NEW j \in DOMAIN log'[m],
                      i < j,
                      log'[m][i].sender = log'[m][j].sender,
                      log'[m][i].originator = log'[m][i].sender,
                      log'[m][j].originator = log'[m][j].sender,
                      log'[m][i].data = log'[m][j].data
               PROVE  log'[m][i].seqno <= log'[m][j].seqno
    BY DEF DeliveredInOrder
  <2>0. DOMAIN << >> = {}  BY EmptySeq
  <2>1. CASE log'[m] = log[m]  BY <2>1 DEF OInv, DeliveredInOrder
  <2>2. CASE /\ rx[m] \in Packet /\ rx[m] # NoFrame /\ ~rx[m].ack
             /\ DOMAIN log'[m] = 1..(Len(log[m]) + 1)
             /\ log'[m][Len(log[m]) + 1] = rx[m]
             /\ \A k \in 1..Len(log[m]) : log'[m][k] = log[m][k]
    <3>1. i \in DOMAIN log[m] /\ log'[m][i] = log[m][i]
      BY <2>2, <1>1
    <3>2. CASE j \in DOMAIN log[m]
      <4>1. log'[m][j] = log[m][j]  BY <2>2, <3>2, <1>1
      <4> QED  BY <3>1, <3>2, <4>1 DEF OInv, DeliveredInOrder
    <3>3. CASE j = Len(log[m]) + 1
      <4>1. log'[m][j] = rx[m]  BY <2>2, <3>3
      <4>2. Own(log[m][i]) /\ Own(rx[m])
        BY <3>1, <4>1, <2>2 DEF OInv, LogsInLine, Own
      <4>3. NotBehind(log[m], rx[m])  BY <4>2, <2>2 DEF OInv, RadiosInLine
      <4> QED  BY <3>1, <4>1, <4>2, <4>3 DEF NotBehind
    <3> QED  BY <2>2, <3>2, <3>3, <1>1
  <2> QED  BY <2>0, <2>1, <2>2, <1>3
<1> QED  BY <1>4, <1>5, <1>6 DEF OInv

\* What the queue of a good connection holds.
LEMMA EntryNumbers ==
  ASSUME NEW n \in Node, NEW sn, NEW c \in GoodEcs(n, sn)
  PROVE  /\ c.seqno \in Nat
         /\ \A i \in DOMAIN c.sq.queued :
              /\ i \in Nat
              /\ c.sq.queued[i].p \in Packet
              /\ c.sq.queued[i].p.seqno \in Nat
<1>1. /\ c.sq \in BufferOf(GoodEntries(n, sn))
      /\ Len(c.sq.queued) \in Nat /\ DOMAIN c.sq.queued = 1..Len(c.sq.queued)
  BY GoodQueue
<1>2. ASSUME NEW i \in DOMAIN c.sq.queued
      PROVE  /\ i \in Nat
             /\ c.sq.queued[i].p \in Packet
             /\ c.sq.queued[i].p.seqno \in Nat
  <2>1. c.sq.queued[i] \in GoodEntries(n, sn)  BY <1>1, BufferElement
  <2>2. c.sq.queued[i].p \in Packet  BY <2>1 DEF GoodEntries, BufferedPacket
  <2>3. c.sq.queued[i].p.seqno \in 0..255  BY <2>2 DEF Packet
  <2>4. \A k \in 0..255 : k \in Nat  OBVIOUS
  <2>5. i \in 1..Len(c.sq.queued) /\ Len(c.sq.queued) \in Nat  BY <1>1
  <2>6. i \in Nat  BY <2>5
  <2>7. c.sq.queued[i].p.seqno \in Nat  BY <2>3, <2>4
  <2> QED  BY <2>2, <2>6, <2>7
<1>3. c.seqno \in 0..255  BY DEF GoodEcs
<1>4. \A k \in 0..255 : k \in Nat  OBVIOUS
<1> QED  BY <1>2, <1>3, <1>4

\* Entries are added at the end, those of the node's own with the next number.
LEMMA ExtendsInLine ==
  ASSUME NEW n, NEW q, NEW r, NEW B, NEW s \in Nat, NEW t \in Nat, NEW l, s <= t,
         Extends(q, r, B), InLine(n, q, s, l),
         \A i \in DOMAIN r : i \in Nat /\ r[i].p.seqno \in Nat,
         \A b \in B : /\ Proper(n, b)
                      /\ OwnData(n, b) => b.p.data = l /\ b.p.seqno = s /\ s < t
  PROVE  InLine(n, r, t, l) /\ Later(n, q, r, s)
<1>1. \A i \in DOMAIN q : i \in DOMAIN r /\ r[i] = q[i]  BY DEF Extends
<1>2. \A i \in DOMAIN r \ DOMAIN q : r[i] \in B /\ \A j \in DOMAIN q : j < i
  BY DEF Extends
<1>3. ASSUME NEW i \in DOMAIN r
      PROVE  /\ Proper(n, r[i])
             /\ OwnData(n, r[i]) => r[i].p.data = l /\ r[i].p.seqno < t
  <2>1. CASE i \in DOMAIN q  BY <2>1, <1>1 DEF InLine
  <2>2. CASE i \notin DOMAIN q  BY <2>2, <1>2
  <2> QED  BY <2>1, <2>2
<1>4. ASSUME NEW i \in DOMAIN r, NEW j \in DOMAIN r,
             OwnData(n, r[i]), OwnData(n, r[j]), i < j
      PROVE  r[i].p.seqno <= r[j].p.seqno
  <2>1. CASE i \in DOMAIN q /\ j \in DOMAIN q  BY <2>1, <1>1, <1>4 DEF InLine
  <2>2. CASE i \in DOMAIN q /\ j \notin DOMAIN q
    <3>1. r[i].p.seqno < s  BY <2>2, <1>1, <1>4 DEF InLine
    <3>2. r[j].p.seqno = s  BY <2>2, <1>2, <1>4
    <3> QED  BY <3>1, <3>2
  <2>3. CASE i \notin DOMAIN q /\ j \in DOMAIN q
    <3>1. j < i  BY <2>3, <1>2
    <3> QED  BY <3>1, <1>4
  <2>4. CASE i \notin DOMAIN q /\ j \notin DOMAIN q
    <3>1. r[i].p.seqno = s /\ r[j].p.seqno = s  BY <2>4, <1>2, <1>4
    <3> QED  BY <3>1
  <2> QED  BY <2>1, <2>2, <2>3, <2>4
<1>5. ASSUME NEW i \in DOMAIN r, OwnData(n, r[i])
      PROVE  \/ r[i].p.seqno >= s
             \/ \E j \in DOMAIN q : OwnData(n, q[j]) /\ q[j].p.seqno <= r[i].p.seqno
  <2>1. CASE i \in DOMAIN q
    <3>1. q[i] = r[i] /\ r[i].p.seqno <= r[i].p.seqno  BY <2>1, <1>1
    <3> QED  BY <2>1, <3>1, <1>5
  <2>2. CASE i \notin DOMAIN q  BY <2>2, <1>2, <1>5
  <2> QED  BY <2>1, <2>2
<1> QED  BY <1>3, <1>4, <1>5 DEF InLine, Later

\* The same packets, at the same places.
LEMMA SameInLine ==
  ASSUME NEW n, NEW q, NEW r, NEW s, NEW l, InLine(n, q, s, l),
         DOMAIN r = DOMAIN q,
         \A i \in DOMAIN q : /\ r[i].type = q[i].type /\ r[i].p = q[i].p
                             /\ q[i].p.seqno \in Nat
  PROVE  InLine(n, r, s, l) /\ Later(n, q, r, s)
<1>1. \A i \in DOMAIN q : q[i].p.seqno <= q[i].p.seqno  OBVIOUS
<1> QED  BY <1>1 DEF InLine, Later, OwnData, Proper

\* A packet less.
LEMMA FreeInLine ==
  ASSUME NEW n, NEW S, NEW pb \in BufferOf(S), NEW i \in DOMAIN pb.queued,
         NEW s, NEW l, InLine(n, pb.queued, s, l),
         \A a \in DOMAIN pb.queued : pb.queued[a].p.seqno \in Nat
  PROVE  /\ InLine(n, FreePacket(pb, i).queued, s, l)
         /\ Later(n, pb.queued, FreePacket(pb, i).queued, s)
<1> DEFINE q == pb.queued
           r == FreePacket(pb, i).queued
           k == Len(q)
           old(a) == IF a < i THEN a ELSE a + 1
<1>1. /\ k \in Nat /\ DOMAIN q = 1..k /\ i \in 1..k
      /\ DOMAIN r = 1..(k - 1)
      /\ \A a \in 1..(k - 1) : r[a] = IF a < i THEN q[a] ELSE q[a + 1]
  BY FreePacketPositions
<1>2. \A a \in DOMAIN q : q[a].p.seqno \in Nat /\ q[a].p.seqno <= q[a].p.seqno
  OBVIOUS
<1>3. InLine(n, q, s, l)  OBVIOUS
<1> HIDE DEF q, r, k
<1>4. \A a \in DOMAIN r : old(a) \in DOMAIN q /\ r[a] = q[old(a)]
  BY <1>1
<1>5. \A a, b \in DOMAIN r : a < b => old(a) < old(b)
  BY <1>1
<1> HIDE DEF old
<1>6. InLine(n, r, s, l)  BY <1>3, <1>4, <1>5 DEF InLine
<1>7. Later(n, q, r, s)  BY <1>2, <1>4 DEF Later
<1> QED  BY <1>6, <1>7 DEF q, r

\* The connection d of n follows c.
Follows(n, c, d) ==
  /\ c.seqno <= d.seqno
  /\ InLine(n, d.sq.queued, d.seqno, life[n])
  /\ Later(n, c.sq.queued, d.sq.queued, c.seqno)

\* Nothing falls behind what is past already.
LEMMA FollowsPast ==
  ASSUME IInv, NEW n \in Node, NEW sn, NEW d \in GoodEcs(n, sn),
         ec' = [ec EXCEPT ![n] = d], UNCHANGED <<life, sink_seqno>>,
         Follows(n, ec[n], d)
  PROVE  PastKept
<1>1. ec \in [Node -> EcRecord] /\ ec[n] \in GoodEcs(n, seen)
  BY DEF IInv, EcInv
<1>2. ASSUME NEW k \in Node \cup {Sink}, NEW p \in Packet,
             Past(k, p, ec, life, sink_seqno)
      PROVE  Past(k, p, ec', life', sink_seqno')
  <2>1. CASE k # n
    <3>1. k = Sink \/ ec'[k] = ec[k]  BY <2>1, <1>1
    <3> QED  BY <3>1, <1>2 DEF Past
  <2>2. CASE k = n
    <3> DEFINE c == ec[n]
    <3>0. k # Sink /\ ec'[k] = d  BY <2>2, <1>1, NeighborConnAssumption
    <3>1. CASE p.data = life[n]
      <4>1. /\ p.data <= life[n] /\ p.seqno < c.seqno
            /\ \A i \in DOMAIN c.sq.queued :
                 OwnData(n, c.sq.queued[i]) => p.seqno <= c.sq.queued[i].p.seqno
        BY <3>0, <3>1, <2>2, <1>2 DEF Past
      <4>2. p.seqno \in Nat
        <5>1. p.seqno \in 0..255  BY DEF Packet
        <5> QED  BY <5>1
      <4>3. c.seqno \in Nat /\ d.seqno \in Nat /\ c.seqno <= d.seqno
        BY <1>1, EntryNumbers DEF Follows
      <4> HIDE DEF c
      <4>4. p.seqno < d.seqno  BY <4>1, <4>2, <4>3
      <4>5. ASSUME NEW i \in DOMAIN d.sq.queued, OwnData(n, d.sq.queued[i])
            PROVE  p.seqno <= d.sq.queued[i].p.seqno
        <5> DEFINE x == d.sq.queued[i].p.seqno
        <5>1. x \in Nat  BY EntryNumbers
        <5>2. CASE x >= c.seqno
          <6> HIDE DEF x
          <6>1. p.seqno <= x  BY <5>1, <5>2, <4>1, <4>2, <4>3
          <6> QED  BY <6>1 DEF x
        <5>3. ASSUME NEW j \in DOMAIN c.sq.queued, OwnData(n, c.sq.queued[j]),
                     c.sq.queued[j].p.seqno <= x
              PROVE  p.seqno <= x
          <6>1. p.seqno <= c.sq.queued[j].p.seqno  BY <4>1, <5>3
          <6>2. c.sq.queued[j].p.seqno \in Nat  BY <1>1, EntryNumbers DEF c
          <6> HIDE DEF x
          <6> QED  BY <6>1, <6>2, <5>1, <5>3, <4>2
        <5>4. \/ x >= c.seqno
              \/ \E j \in DOMAIN c.sq.queued :
                   OwnData(n, c.sq.queued[j]) /\ c.sq.queued[j].p.seqno <= x
          BY <4>5 DEF Follows, Later, c
        <5> QED  BY <5>2, <5>3, <5>4
      <4> QED  BY <4>1, <4>4, <4>5, <3>0, <2>2 DEF Past
    <3>2. CASE p.data # life[n]
      BY <3>0, <3>2, <2>2, <1>2 DEF Past
    <3> QED  BY <3>1, <3>2
  <2> QED  BY <2>1, <2>2
<1> QED  BY <1>2 DEF PastKept

\* One connection changes, and is still in line.
LEMMA FollowsOInv ==
  ASSUME IInv, OInv, NEW n \in Node, NEW sn, NEW d \in GoodEcs(n, sn),
         ec' = [ec EXCEPT ![n] = d], UNCHANGED <<life, sink_seqno>>,
         Follows(n, ec[n], d),
         \A m \in Node :
           \/ rx'[m] \in {rx[m], NoFrame}
           \/ /\ rx'[m] \in Packet
              /\ Own(rx'[m]) =>
                   /\ Past(rx'[m].sender, rx'[m], ec, life, sink_seqno)
                   /\ NotBehind(log[m], rx'[m]),
         \A m \in Node :
           \/ log'[m] = log[m]
           \/ /\ rx[m] \in Packet /\ rx[m] # NoFrame /\ ~rx[m].ack
              /\ log'[m] = Append(log[m], rx[m]) /\ rx'[m] = NoFrame
  PROVE  OInv'
<1>1. PastKept  BY FollowsPast
<1>2. QueuesInLine'
  <2>1. ec \in [Node -> EcRecord]  BY DEF IInv, EcInv
  <2>2. ec'[n] = d /\ \A m \in Node \ {n} : ec'[m] = ec[m]  BY <2>1
  <2>3. InLine(n, d.sq.queued, d.seqno, life[n])  BY DEF Follows
  <2> QED  BY <2>2, <2>3 DEF OInv, QueuesInLine
<1>3. \A p \in Packet : p.sender \in Node \cup {Sink}  BY DEF Packet
<1>4. \A m \in Node :
        \/ rx'[m] \in {rx[m], NoFrame}
        \/ Own(rx'[m]) => /\ Past(rx'[m].sender, rx'[m], ec', life', sink_seqno')
                          /\ NotBehind(log[m], rx'[m])
  BY <1>1, <1>3 DEF PastKept
<1> QED  BY <1>1, <1>2, <1>4, StepOInv

\* The packet that goes out is not ahead of its queue, and behind no packet
\* that was taken.
LEMMA FrameInLine ==
  ASSUME IInv, OInv, NEW n \in Node, NEW i \in FirstOfType(ec[n].sq, NEIGHBOR_DATA),
         NEW to \in SUBSET Node,
         NEW f, f = [ec[n].sq.queued[i].p EXCEPT !.to = to]
  PROVE  /\ f \in Packet
         /\ Own(f) => /\ Past(f.sender, f, ec, life, sink_seqno)
                      /\ \A m \in Node : NotBehind(log[m], f)
<1> DEFINE q == ec[n].sq.queued
           b == q[i]
<1>1. /\ i \in DOMAIN q /\ b.type = NEIGHBOR_DATA
      /\ \A j \in DOMAIN q : q[j].type = NEIGHBOR_DATA => i <= j
  BY FirstOfTypeLeast DEF OfType, NEIGHBOR_DATA
<1>2. /\ b.p \in Packet /\ b.p.seqno \in Nat
      /\ \A j \in DOMAIN q : j \in Nat /\ q[j].p.seqno \in Nat
  BY <1>1, EntryNumbers DEF IInv, EcInv
<1>3. InLine(n, q, ec[n].seqno, life[n])  BY DEF OInv, QueuesInLine
<1> HIDE DEF q
<1>4. /\ f \in Packet /\ f.sender = b.p.sender /\ f.originator = b.p.originator
      /\ f.seqno = b.p.seqno /\ f.data = b.p.data /\ f.ack = b.p.ack
  <2>1. b.p \in Packet /\ f = [b.p EXCEPT !.to = to]  BY <1>2 DEF q
  <2> HIDE DEF b
  <2> QED  BY <2>1 DEF Packet
<1>5. f.sender = n  BY <1>1, <1>3, <1>4 DEF InLine, Proper
<1>6. ASSUME Own(f)
      PROVE  /\ Past(n, f, ec, life, sink_seqno)
             /\ \A m \in Node : NotBehind(log[m], f)
  <2>1. OwnData(n, b)  BY <1>6, <1>1, <1>4, <1>5 DEF Own, OwnData
  <2>2. f.data = life[n] /\ f.seqno < ec[n].seqno
    BY <2>1, <1>1, <1>3, <1>4 DEF InLine
  <2>3. \A j \in DOMAIN q : OwnData(n, q[j]) => f.seqno <= q[j].p.seqno
    <3> SUFFICES ASSUME NEW j \in DOMAIN q, OwnData(n, q[j])
                 PROVE  b.p.seqno <= q[j].p.seqno
      BY <1>4
    <3>1. i <= j  BY <1>1 DEF OwnData
    <3>2. CASE i = j
      <4>1. b.p.seqno <= b.p.seqno  BY <1>2
      <4> QED  BY <3>2, <4>1
    <3>3. CASE i < j  BY <3>3, <2>1, <1>1, <1>3 DEF InLine
    <3> QED  BY <3>1, <3>2, <3>3, <1>1, <1>2
  <2>4. n # Sink /\ life[n] <= life[n]
    <3>1. life[n] \in Nat  BY DEF IInv, RestInv
    <3> QED  BY <3>1, NeighborConnAssumption
  <2>5. Past(n, f, ec, life, sink_seqno)
    BY <2>2, <2>3, <2>4 DEF Past, q
  <2>6. ASSUME NEW m \in Node, NEW j \in DOMAIN log[m], Own(log[m][j]),
               log[m][j].sender = f.sender, log[m][j].data = f.data
        PROVE  log[m][j].seqno <= f.seqno
    <3>1. Past(n, log[m][j], ec, life, sink_seqno)
      BY <2>6, <1>5 DEF OInv, LogsInLine
    <3>2. log[m][j].seqno <= b.p.seqno
      BY <3>1, <2>1, <2>2, <2>4, <2>6, <1>1 DEF Past, q
    <3> QED  BY <3>2, <1>4
  <2> QED  BY <2>5, <2>6 DEF NotBehind
<1> QED  BY <1>4, <1>5, <1>6

\* A transmission, or a collision: sq has what the queue had, or less.
LEMMA SendDataPacketOInv ==
  ASSUME IInv, OInv, NEW n \in Node, NEW sq \in BufferOf(GoodEntries(n, seen)),
         NEW i \in FirstOfType(ec[n].sq, NEIGHBOR_DATA),
         NEW j \in DOMAIN sq.queued,
         InLine(n, sq.queued, ec[n].seqno, life[n]),
         Later(n, ec[n].sq.queued, sq.queued, ec[n].seqno),
         SendDataPacket(n, sq, j, ec[n].sq.queued[i].p),
         UNCHANGED <<up, life, sink_seqno, seen, log>>
  PROVE  OInv'
<1> DEFINE c == ec[n]
           p == c.sq.queued[i].p
<1>1. c \in GoodEcs(n, seen) /\ c.seqno \in Nat
  BY EntryNumbers DEF IInv, EcInv
<1>2. CASE ec' = [ec EXCEPT ![n].sq = sq] /\ UNCHANGED rx
  <2> DEFINE d == [c EXCEPT !.sq = sq]
  <2>1. d \in GoodEcs(n, seen) /\ d.sq = sq /\ d.seqno = c.seqno  BY <1>1 DEF GoodEcs
  <2>2. ec' = [ec EXCEPT ![n] = d]  BY <1>2
  <2> HIDE DEF d
  <2>3. Follows(n, c, d)  BY <1>1, <2>1 DEF Follows
  <2> QED  BY <1>2, <2>1, <2>2, <2>3, FollowsOInv
<1>3. ASSUME NEW to \in SUBSET Node,
             ec' = [ec EXCEPT ![n].sq = IncrementTimesSent(sq, j)],
             Transmit(n, [p EXCEPT !.to = to])
      PROVE  OInv'
  <2> DEFINE sq2 == IncrementTimesSent(sq, j)
             d == [c EXCEPT !.sq = sq2]
             f == [p EXCEPT !.to = to]
  <2>1. /\ sq2 \in BufferOf(GoodEntries(n, seen))
        /\ DOMAIN sq2.queued = DOMAIN sq.queued
        /\ \A a \in DOMAIN sq.queued : /\ sq2.queued[a].type = sq.queued[a].type
                                       /\ sq2.queued[a].p = sq.queued[a].p
    <3>1. sq2 \in BufferOf(GoodEntries(n, seen))  BY IncrementGood
    <3>2. \A a \in DOMAIN sq.queued : sq.queued[a] \in BufferedPacket
      BY BufferElement DEF GoodEntries
    <3>3. sq \in [queued : Seq(GoodEntries(n, seen)), leftover : Seq(SUBSET Node),
                  null_write : BOOLEAN]
      BY DEF BufferOf
    <3>4. /\ DOMAIN sq2.queued = DOMAIN sq.queued
          /\ \A a \in DOMAIN sq.queued : /\ sq2.queued[a].type = sq.queued[a].type
                                         /\ sq2.queued[a].p = sq.queued[a].p
      BY <3>2, <3>3 DEF IncrementTimesSent, BufferedPacket
    <3> QED  BY <3>1, <3>4
  <2>2. ec' = [ec EXCEPT ![n] = d]  BY <1>3
  <2> HIDE DEF sq2
  <2>3. d \in GoodEcs(n, seen) /\ d.sq = sq2 /\ d.seqno = c.seqno
    BY <1>1, <2>1 DEF GoodEcs
  <2> HIDE DEF d
  <2>4. InLine(n, sq2.queued, c.seqno, life[n])
        /\ Later(n, sq.queued, sq2.queued, c.seqno)
    <3>0. [c EXCEPT !.sq = sq] \in GoodEcs(n, seen) /\ [c EXCEPT !.sq = sq].sq = sq
      BY <1>1 DEF GoodEcs
    <3>1. \A a \in DOMAIN sq.queued : sq.queued[a].p.seqno \in Nat
      BY <3>0, EntryNumbers
    <3> QED  BY <3>1, <2>1, SameInLine
  <2>5. Later(n, c.sq.queued, sq2.queued, c.seqno)
    BY <2>1 DEF Later, OwnData
  <2>6. Follows(n, c, d)  BY <1>1, <2>3, <2>4, <2>5 DEF Follows
  <2>7. /\ f \in Packet
        /\ Own(f) => /\ Past(f.sender, f, ec, life, sink_seqno)
                     /\ \A m \in Node : NotBehind(log[m], f)
    BY FrameInLine
  <2> HIDE DEF f
  <2>8. \A m \in Node : rx'[m] \in {rx[m], f}
    BY <1>3 DEF Transmit, f
  <2> QED  BY <2>2, <2>3, <2>6, <2>7, <2>8, FollowsOInv
<1>4. sq.queued[j].unacked_ns \in SUBSET Node
  BY BufferElement, EntryIsFrame DEF IInv, RestInv
<1> QED  BY <1>2, <1>3, <1>4 DEF SendDataPacket

\* A queue that holds the same packets, or fewer, and the timers.
LEMMA QueueFollows ==
  ASSUME IInv, OInv, NEW n \in Node, NEW sq, NEW a \in BOOLEAN, NEW t \in BOOLEAN,
         sq \in BufferOf(GoodEntries(n, seen)),
         InLine(n, sq.queued, ec[n].seqno, life[n]),
         Later(n, ec[n].sq.queued, sq.queued, ec[n].seqno),
         NEW d, d = [ec[n] EXCEPT !.sq = sq, !.ack_timer = a, !.data_timer = t]
  PROVE  d \in GoodEcs(n, seen) /\ Follows(n, ec[n], d)
<1>1. ec[n] \in GoodEcs(n, seen) /\ ec[n].seqno \in Nat
  BY EntryNumbers DEF IInv, EcInv
<1>2. d \in GoodEcs(n, seen) /\ d.sq = sq /\ d.seqno = ec[n].seqno
  BY <1>1 DEF GoodEcs
<1> QED  BY <1>1, <1>2 DEF Follows

\* The queue of a node before its step.
LEMMA QueueInLine ==
  ASSUME IInv, OInv, NEW n \in Node
  PROVE  /\ ec[n] \in GoodEcs(n, seen) /\ ec[n] \in EcRecord
         /\ ec \in [Node -> EcRecord]
         /\ ec[n].sq \in BufferOf(GoodEntries(n, seen))
         /\ InLine(n, ec[n].sq.queued, ec[n].seqno, life[n])
         /\ Later(n, ec[n].sq.queued, ec[n].sq.queued, ec[n].seqno)
         /\ \A i \in DOMAIN ec[n].sq.queued : ec[n].sq.queued[i].p.seqno \in Nat
<1>1. /\ ec[n] \in GoodEcs(n, seen) /\ ec[n] \in EcRecord /\ ec \in [Node -> EcRecord]
      /\ InLine(n, ec[n].sq.queued, ec[n].seqno, life[n])
  BY DEF IInv, EcInv, OInv, QueuesInLine
<1>2. /\ ec[n].sq \in BufferOf(GoodEntries(n, seen))
      /\ \A i \in DOMAIN ec[n].sq.queued : ec[n].sq.queued[i].p.seqno \in Nat
  BY <1>1, GoodQueue, EntryNumbers
<1>3. Later(n, ec[n].sq.queued, ec[n].sq.queued, ec[n].seqno)
  BY <1>1, <1>2, SameInLine
<1> QED  BY <1>1, <1>2, <1>3

\* The data timer.
LEMMA SendDataOInv ==
  ASSUME IInv, OInv, NEW n \in Node, SendData(n)
  PROVE  OInv'
<1> DEFINE S == GoodEntries(n, seen)
           c == ec[n]
           sq == c.sq
<1>0. /\ c \in EcRecord /\ ec \in [Node -> EcRecord] /\ sq \in BufferOf(S)
      /\ InLine(n, sq.queued, c.seqno, life[n])
      /\ Later(n, sq.queued, sq.queued, c.seqno)
      /\ \A i \in DOMAIN sq.queued : sq.queued[i].p.seqno \in Nat
  BY QueueInLine
<1>1. UNCHANGED <<up, life, sink_seqno, seen, log>>
  BY DEF SendData, NoDataToSend, SendFirstData, GiveUpFirstData, DataTimerFires
<1>2. ASSUME NEW sq2 \in BufferOf(S), InLine(n, sq2.queued, c.seqno, life[n]),
             Later(n, sq.queued, sq2.queued, c.seqno),
             ec' = [ec EXCEPT ![n].sq = sq2, ![n].data_timer = FALSE], UNCHANGED rx
      PROVE  OInv'
  <2> DEFINE d == [c EXCEPT !.sq = sq2, !.ack_timer = c.ack_timer, !.data_timer = FALSE]
  <2>1. c.ack_timer \in BOOLEAN  BY <1>0 DEF EcRecord
  <2>2. d \in GoodEcs(n, seen) /\ Follows(n, c, d)
    <3> HIDE DEF d
    <3> QED  BY <1>2, <2>1, QueueFollows DEF d
  <2>3. ec' = [ec EXCEPT ![n] = d]  BY <1>0, <1>2 DEF EcRecord
  <2> HIDE DEF d
  <2> QED  BY <2>2, <2>3, <1>1, <1>2, FollowsOInv
<1>3. CASE NoDataToSend(n)
  <2>1. ec' = [ec EXCEPT ![n].sq = sq, ![n].data_timer = FALSE]
    BY <1>0, <1>3 DEF NoDataToSend, EcRecord
  <2>2. UNCHANGED rx  BY <1>3 DEF NoDataToSend
  <2> HIDE DEF sq, c
  <2> QED  BY <2>1, <2>2, <1>0, <1>2
<1>4. CASE SendFirstData(n)
  <2>1. PICK i \in FirstOfType(sq, NEIGHBOR_DATA) :
          SendDataPacket(n, sq, i, sq.queued[i].p)
    BY <1>4 DEF SendFirstData
  <2>2. i \in DOMAIN sq.queued  BY <2>1, FirstOfPositions DEF FirstOfType, OfType
  <2> QED  BY <2>1, <2>2, <1>0, <1>1, SendDataPacketOInv
<1>5. CASE GiveUpFirstData(n)
  <2>1. PICK i \in FirstOfType(sq, NEIGHBOR_DATA) :
          \/ /\ ec' = [ec EXCEPT ![n].sq = FreePacket(sq, i), ![n].data_timer = FALSE]
             /\ UNCHANGED rx
          \/ \E j \in FirstOfType(FreePacket(sq, i), NEIGHBOR_DATA) :
               SendDataPacket(n, FreePacket(sq, i), j, sq.queued[i].p)
    BY <1>5 DEF GiveUpFirstData
  <2> DEFINE sq2 == FreePacket(sq, i)
  <2>2. i \in DOMAIN sq.queued  BY <2>1, FirstOfPositions DEF FirstOfType, OfType
  <2>3. /\ sq2 \in BufferOf(S)
        /\ InLine(n, sq2.queued, c.seqno, life[n])
        /\ Later(n, sq.queued, sq2.queued, c.seqno)
    <3> HIDE DEF sq, c
    <3> QED  BY <2>2, <1>0, FreeGood, FreeInLine
  <2>4. \A j \in FirstOfType(sq2, NEIGHBOR_DATA) : j \in DOMAIN sq2.queued
    BY FirstOfPositions DEF FirstOfType, OfType
  <2>5. \/ ec' = [ec EXCEPT ![n].sq = sq2, ![n].data_timer = FALSE] /\ UNCHANGED rx
        \/ \E j \in FirstOfType(sq2, NEIGHBOR_DATA) :
             SendDataPacket(n, sq2, j, sq.queued[i].p)
    BY <2>1
  <2> HIDE DEF sq2
  <2>6. CASE ec' = [ec EXCEPT ![n].sq = sq2, ![n].data_timer = FALSE] /\ UNCHANGED rx
    <3> HIDE DEF sq, c
    <3> QED  BY <2>3, <2>6, <1>2
  <2>7. ASSUME NEW j \in FirstOfType(sq2, NEIGHBOR_DATA),
               SendDataPacket(n, sq2, j, sq.queued[i].p)
        PROVE  OInv'
    BY <2>1, <2>3, <2>4, <2>7, <1>1, SendDataPacketOInv
  <2> QED  BY <2>5, <2>6, <2>7
<1> QED  BY <1>3, <1>4, <1>5 DEF SendData

\* The ACK timer: an ACK is nobody's own packet.
LEMMA SendAckOInv ==
  ASSUME IInv, OInv, NEW n \in Node, SendAck(n)
  PROVE  OInv'
<1> DEFINE S == GoodEntries(n, seen)
           c == ec[n]
           sq == c.sq
<1>0. /\ c \in EcRecord /\ ec \in [Node -> EcRecord] /\ sq \in BufferOf(S)
      /\ InLine(n, sq.queued, c.seqno, life[n])
      /\ Later(n, sq.queued, sq.queued, c.seqno)
      /\ \A i \in DOMAIN sq.queued : sq.queued[i].p.seqno \in Nat
  BY QueueInLine
<1>1. UNCHANGED <<up, life, sink_seqno, seen, log>>
  BY DEF SendAck, NoAckToSend, SendFirstAck, AckTimerFires
<1>2. ASSUME NEW sq2 \in BufferOf(S), InLine(n, sq2.queued, c.seqno, life[n]),
             Later(n, sq.queued, sq2.queued, c.seqno), NEW t \in BOOLEAN,
             ec' = [ec EXCEPT ![n].sq = sq2, ![n].ack_timer = t],
             \A m \in Node : \/ rx'[m] = rx[m]
                             \/ rx'[m] \in Packet /\ ~Own(rx'[m])
      PROVE  OInv'
  <2> DEFINE d == [c EXCEPT !.sq = sq2, !.ack_timer = t, !.data_timer = c.data_timer]
  <2>1. c.data_timer \in BOOLEAN  BY <1>0 DEF EcRecord
  <2>2. d \in GoodEcs(n, seen) /\ Follows(n, c, d)
    <3> HIDE DEF d
    <3> QED  BY <1>2, <2>1, QueueFollows DEF d
  <2>3. ec' = [ec EXCEPT ![n] = d]  BY <1>0, <1>2 DEF EcRecord
  <2> HIDE DEF d
  <2> QED  BY <2>2, <2>3, <1>1, <1>2, FollowsOInv
<1>3. CASE NoAckToSend(n)
  <2>1. ec' = [ec EXCEPT ![n].sq = sq, ![n].ack_timer = FALSE]
    BY <1>0, <1>3 DEF NoAckToSend, EcRecord
  <2>2. UNCHANGED rx  BY <1>3 DEF NoAckToSend
  <2> HIDE DEF sq, c
  <2> QED  BY <2>1, <2>2, <1>0, <1>2
<1>4. CASE SendFirstAck(n)
  <2>1. PICK i \in FirstOfType(sq, NEIGHBOR_ACK) :
          /\ ec' = [ec EXCEPT ![n].sq = FreePacket(sq, i),
                              ![n].ack_timer =
                                 OfType(FreePacket(sq, i), NEIGHBOR_ACK) # {}]
          /\ Transmit(n, sq.queued[i].p)
    BY <1>4 DEF SendFirstAck
  <2> DEFINE f == sq.queued[i].p
             sq2 == FreePacket(sq, i)
             timer == OfType(sq2, NEIGHBOR_ACK) # {}
  <2>2. i \in DOMAIN sq.queued /\ sq.queued[i].type = NEIGHBOR_ACK
    BY <2>1, FirstOfPositions DEF FirstOfType, OfType
  <2>3. /\ sq2 \in BufferOf(S)
        /\ InLine(n, sq2.queued, c.seqno, life[n])
        /\ Later(n, sq.queued, sq2.queued, c.seqno)
    <3> HIDE DEF sq, c
    <3> QED  BY <2>2, <1>0, FreeGood, FreeInLine
  <2>4. f \in Packet /\ ~Own(f)
    <3>1. f \in Packet  BY <1>0, <2>2, BufferElement DEF GoodEntries, BufferedPacket
    <3>2. f.ack
      BY <1>0, <2>2 DEF InLine, Proper, NEIGHBOR_ACK, NEIGHBOR_DATA
    <3> QED  BY <3>1, <3>2 DEF Own
  <2>5. /\ ec' = [ec EXCEPT ![n].sq = sq2, ![n].ack_timer = timer]
        /\ timer \in BOOLEAN
        /\ Transmit(n, f)
    BY <2>1
  <2> HIDE DEF sq2, timer, f
  <2>6. \A m \in Node : rx'[m] \in {rx[m], f}  BY <2>5 DEF Transmit
  <2> HIDE DEF c, sq
  <2> QED  BY <2>3, <2>4, <2>5, <2>6, <1>2
<1> QED  BY <1>3, <1>4 DEF SendAck

\* An ACK arrives: a packet less, or one that waits for fewer.
LEMMA RecvAckOInv ==
  ASSUME IInv, OInv, NEW n \in Node, RecvAck(n)
  PROVE  OInv'
<1> DEFINE S == GoodEntries(n, seen)
           c == ec[n]
           sq == c.sq
           m == rx[n].sender
<1>0. /\ c \in EcRecord /\ ec \in [Node -> EcRecord] /\ sq \in BufferOf(S)
      /\ InLine(n, sq.queued, c.seqno, life[n])
      /\ \A i \in DOMAIN sq.queued : sq.queued[i].p.seqno \in Nat
  BY QueueInLine
<1>1. /\ \A k \in Node : rx'[k] \in {rx[k], NoFrame}
      /\ rx[n] \in GoodFrames(seen) /\ rx[n].ack
      /\ UNCHANGED <<up, life, sink_seqno, seen, log>>
  <2>1. Handle(n) /\ rx[n].ack /\ UNCHANGED <<seen, log>>  BY DEF RecvAck
  <2>2. rx \in [Node -> GoodFrames(seen) \cup {NoFrame}]  BY DEF IInv, RxInv
  <2>3. \A k \in Node : rx'[k] \in {rx[k], NoFrame}  BY <2>1, <2>2 DEF Handle
  <2> QED  BY <2>1, <2>3, HandleGood DEF Handle
<1>2. m \in Node /\ KeyOf(rx[n]) \in seen[m]  BY <1>1 DEF GoodFrames
<1>3. ASSUME NEW sq2 \in BufferOf(S), InLine(n, sq2.queued, c.seqno, life[n]),
             Later(n, sq.queued, sq2.queued, c.seqno), NEW t \in BOOLEAN,
             ec' = [ec EXCEPT ![n].sq = sq2, ![n].data_timer = t]
      PROVE  OInv'
  <2> DEFINE d == [c EXCEPT !.sq = sq2, !.ack_timer = c.ack_timer, !.data_timer = t]
  <2>1. c.ack_timer \in BOOLEAN  BY <1>0 DEF EcRecord
  <2>2. d \in GoodEcs(n, seen) /\ Follows(n, c, d)
    <3> HIDE DEF d
    <3> QED  BY <1>3, <2>1, QueueFollows DEF d
  <2>3. ec' = [ec EXCEPT ![n] = d]  BY <1>0, <1>3 DEF EcRecord
  <2> HIDE DEF d
  <2> QED  BY <2>2, <2>3, <1>1, FollowsOInv
<1>4. PICK i \in FindByOriginatorSeqno(sq, rx[n]) :
        ec' = IF AllNeighborsAcked(NeighborAcked(sq, i, m), i)
              THEN [ec EXCEPT ![n].sq = FreePacket(NeighborAcked(sq, i, m), i),
                              ![n].data_timer = TRUE]
              ELSE [ec EXCEPT ![n].sq = NeighborAcked(sq, i, m)]
  BY DEF RecvAck
<1> DEFINE sq2 == NeighborAcked(sq, i, m)
           sq3 == FreePacket(sq2, i)
<1>5. sq2 \in BufferOf(S) /\ i \in DOMAIN sq2.queued
  <2> HIDE DEF sq, m
  <2> QED  BY <1>0, <1>2, AckedGood
<1>6. /\ DOMAIN sq2.queued = DOMAIN sq.queued
      /\ \A a \in DOMAIN sq.queued : /\ sq2.queued[a].type = sq.queued[a].type
                                     /\ sq2.queued[a].p = sq.queued[a].p
  <2>1. \A a \in DOMAIN sq.queued : sq.queued[a] \in BufferedPacket
    BY <1>0, BufferElement DEF GoodEntries
  <2>2. sq \in [queued : Seq(S), leftover : Seq(SUBSET Node), null_write : BOOLEAN]
    BY <1>0 DEF BufferOf
  <2> HIDE DEF S, sq, m
  <2> QED  BY <2>1, <2>2 DEF NeighborAcked, BufferedPacket
<1> HIDE DEF sq2
<1>7. InLine(n, sq2.queued, c.seqno, life[n]) /\ Later(n, sq.queued, sq2.queued, c.seqno)
  <2> HIDE DEF c, sq
  <2> QED  BY <1>0, <1>6, SameInLine
<1>8. CASE AllNeighborsAcked(sq2, i)
  <2>1. ec' = [ec EXCEPT ![n].sq = sq3, ![n].data_timer = TRUE]
    BY <1>4, <1>8 DEF sq2
  <2>2. /\ sq3 \in BufferOf(S)
        /\ InLine(n, sq3.queued, c.seqno, life[n])
        /\ Later(n, sq2.queued, sq3.queued, c.seqno)
    <3>1. \A a \in DOMAIN sq2.queued : sq2.queued[a].p.seqno \in Nat
      BY <1>0, <1>6
    <3> HIDE DEF sq, c
    <3> QED  BY <3>1, <1>5, <1>7, FreeGood, FreeInLine
  <2> HIDE DEF sq3
  <2>3. Later(n, sq.queued, sq3.queued, c.seqno)
    <3>1. \A a \in DOMAIN sq2.queued : OwnData(n, sq2.queued[a]) =>
            a \in DOMAIN sq.queued /\ OwnData(n, sq.queued[a])
            /\ sq.queued[a].p = sq2.queued[a].p
      BY <1>6 DEF OwnData
    <3> HIDE DEF sq, c
    <3> QED  BY <2>2, <3>1 DEF Later
  <2> HIDE DEF sq, c
  <2> QED  BY <2>1, <2>2, <2>3, <1>3
<1>9. CASE ~AllNeighborsAcked(sq2, i)
  <2>1. ec' = [ec EXCEPT ![n].sq = sq2]  BY <1>4, <1>9 DEF sq2
  <2>2. ec' = [ec EXCEPT ![n].sq = sq2, ![n].data_timer = c.data_timer]
    BY <2>1, <1>0 DEF EcRecord
  <2>3. c.data_timer \in BOOLEAN  BY <1>0 DEF EcRecord
  <2> HIDE DEF sq, c
  <2> QED  BY <2>2, <2>3, <1>3, <1>5, <1>7
<1> QED  BY <1>8, <1>9

\* What is added when a packet is taken is proper, and in line.
LEMMA EntriesInLine ==
  ASSUME NEW n \in Node, NEW p \in Packet, NEW reply, NEW s,
         NEW b \in CallbackEntries(n, p, reply, s) \cup AckEntries(n, p)
  PROVE  /\ Proper(n, b)
         /\ OwnData(n, b) => b.p.data = life[n] /\ b.p.seqno = s /\ reply
<1>1. CASE b = DataEntry(n, KeyOf(p), p.data) /\ p.originator = Sink
  <2>1. /\ b.type = NEIGHBOR_DATA /\ b.p.sender = n /\ b.p.originator = Sink
    BY <1>1 DEF DataEntry, BroadcastPacket, KeyOf
  <2> QED  BY <2>1, NeighborConnAssumption DEF Proper, OwnData
<1>2. CASE b = DataEntry(n, <<n, s>>, life[n]) /\ reply
  <2>1. /\ b.type = NEIGHBOR_DATA /\ b.p.sender = n
        /\ b.p.data = life[n] /\ b.p.seqno = s
    BY <1>2 DEF DataEntry, BroadcastPacket
  <2> QED  BY <2>1, <1>2 DEF Proper, OwnData
<1>3. CASE b \in AckEntries(n, p)
  <2>1. b.type = NEIGHBOR_ACK /\ b.p.sender = n /\ b.p.ack
    BY <1>3 DEF AckEntries, AckPacket
  <2> QED  BY <2>1 DEF Proper, OwnData, NEIGHBOR_ACK, NEIGHBOR_DATA
<1> QED  BY <1>1, <1>2, <1>3 DEF CallbackEntries

\* The connection of a node that took a packet, before and after its ACK.
LEMMA HandOverExtends ==
  ASSUME IInv, NEW n \in Node, NEW reply \in {FALSE, MayOriginate(n)},
         rx[n] \in Packet,
         Deliver(n, rx[n], Callback(ec[n], n, rx[n], reply)),
         UNCHANGED <<up, life, sink_seqno>>
  PROVE  LET c == ec[n]
             d == StorePacketForDupeChecks(Callback(c, n, rx[n], reply), KeyOf(rx[n]))
             e == QueueAck(d, n, rx[n])
             B == CallbackEntries(n, rx[n], reply, c.seqno)
         IN  /\ d \in GoodEcs(n, seen')
             /\ reply => d.seqno = c.seqno + 1
             /\ ~reply => d.seqno = c.seqno
             /\ Extends(c.sq.queued, d.sq.queued, B)
             /\ rx[n].sender \in Node =>
                  /\ e \in GoodEcs(n, seen')
                  /\ e.seqno = d.seqno
                  /\ Extends(c.sq.queued, e.sq.queued, B \cup AckEntries(n, rx[n]))
<1> DEFINE c == ec[n]
           p == rx[n]
           B == CallbackEntries(n, p, reply, c.seqno)
           g == Callback(c, n, p, reply)
           d == StorePacketForDupeChecks(g, KeyOf(p))
           e == QueueAck(d, n, p)
<1>1. /\ KeyOf(p) \in seen'[n] /\ Grows(seen, seen') /\ RestInv'
      /\ reply \in BOOLEAN
      /\ reply => c.seqno < MaxOwn /\ <<n, c.seqno>> \in seen'[n]
  BY DeliverGood
<1>2. /\ seen' \in Histories /\ life[n] \in Nat /\ c \in GoodEcs(n, seen')
  <2>1. c \in GoodEcs(n, seen)  BY DEF IInv, EcInv
  <2> QED  BY <2>1, <1>1, GoodEcsMonotonic DEF IInv, RestInv
<1>3. /\ g \in GoodEcs(n, seen')
      /\ g.seqno = IF reply THEN c.seqno + 1 ELSE c.seqno
      /\ Extends(c.sq.queued, g.sq.queued, B)
  <2> HIDE DEF c, p
  <2>1. p \in Packet  BY DEF p
  <2> QED  BY <2>1, <1>1, <1>2, CallbackGood, CallbackExtends
<1> HIDE DEF g
<1>5. /\ d \in GoodEcs(n, seen') /\ d.seqno = g.seqno /\ d.sq = g.sq
  BY <1>1, <1>2, <1>3, StoreGood, StoreSound
<1> HIDE DEF d
<1>6. Extends(c.sq.queued, d.sq.queued, B)  BY <1>3, <1>5
<1>7. ASSUME p.sender \in Node
      PROVE  /\ e \in GoodEcs(n, seen')
             /\ e.seqno = d.seqno
             /\ Extends(c.sq.queued, e.sq.queued, B \cup AckEntries(n, p))
  <2>1. e \in GoodEcs(n, seen')  BY <1>1, <1>2, <1>5, <1>7, QueueAckGood
  <2>2. e.seqno = d.seqno  BY <1>5, QueueAckDupes
  <2>3. Extends(d.sq.queued, e.sq.queued, AckEntries(n, p))
    BY <1>5, QueueAckExtends
  <2> HIDE DEF B, c, p, e
  <2> QED  BY <2>1, <2>2, <2>3, <1>6, ExtendsTwice
<1> HIDE DEF B
<1>8. (reply => d.seqno = c.seqno + 1) /\ (~reply => d.seqno = c.seqno)
  BY <1>3, <1>5
<1> QED  BY <1>5, <1>6, <1>7, <1>8 DEF B, d, g

\* What is added is in line, so its connection follows.
LEMMA GainsFollow ==
  ASSUME IInv, OInv, NEW n \in Node, NEW sn, NEW d \in GoodEcs(n, sn), NEW B,
         Extends(ec[n].sq.queued, d.sq.queued, B), ec[n].seqno <= d.seqno,
         \A b \in B :
           /\ Proper(n, b)
           /\ OwnData(n, b) => /\ b.p.data = life[n] /\ b.p.seqno = ec[n].seqno
                               /\ ec[n].seqno < d.seqno
  PROVE  Follows(n, ec[n], d)
<1> DEFINE c == ec[n]
           q == c.sq.queued
           r == d.sq.queued
<1>1. c \in GoodEcs(n, seen) /\ InLine(n, q, c.seqno, life[n])
  BY DEF IInv, EcInv, OInv, QueuesInLine
<1>2. /\ c.seqno \in Nat /\ d.seqno \in Nat
      /\ \A i \in DOMAIN r : i \in Nat /\ r[i].p.seqno \in Nat
  BY <1>1, EntryNumbers
<1>3. InLine(n, r, d.seqno, life[n]) /\ Later(n, q, r, c.seqno)
  <2>1. ASSUME NEW x \in Nat, NEW y \in Nat, x = c.seqno, y = d.seqno
        PROVE  InLine(n, r, y, life[n]) /\ Later(n, q, r, x)
    <3>1. Extends(q, r, B) /\ InLine(n, q, x, life[n]) /\ x <= y
      BY <1>1, <2>1
    <3>2. \A b \in B : /\ Proper(n, b)
                       /\ OwnData(n, b) => b.p.data = life[n] /\ b.p.seqno = x /\ x < y
      BY <2>1
    <3> HIDE DEF q, r, c
    <3> QED  BY <3>1, <3>2, <1>2, ExtendsInLine
  <2> QED  BY <1>2, <2>1
<1> QED  BY <1>3 DEF Follows

\* A packet is taken, and perhaps acknowledged.
LEMMA HandOverOInv ==
  ASSUME IInv, OInv, NEW n \in Node, NEW reply \in {FALSE, MayOriginate(n)},
         Handle(n), ~rx[n].ack,
         Deliver(n, rx[n], Callback(ec[n], n, rx[n], reply)),
         NEW d, d = StorePacketForDupeChecks(Callback(ec[n], n, rx[n], reply),
                                             KeyOf(rx[n])),
         \/ ec' = [ec EXCEPT ![n] = d]
         \/ rx[n].sender \in Node /\ ec' = [ec EXCEPT ![n] = QueueAck(d, n, rx[n])]
  PROVE  OInv'
<1> DEFINE c == ec[n]
           e == QueueAck(d, n, rx[n])
           B == CallbackEntries(n, rx[n], reply, c.seqno)
<1>1. /\ UNCHANGED <<up, life, sink_seqno>> /\ rx[n] \in Packet /\ rx[n] # NoFrame
      /\ rx' = [rx EXCEPT ![n] = NoFrame]
      /\ rx \in [Node -> GoodFrames(seen) \cup {NoFrame}]
      /\ log \in [Node -> Seq(Packet)]
  BY HandleGood DEF Handle, IInv, RxInv, RestInv
<1>2. c.seqno \in Nat  BY EntryNumbers DEF IInv, EcInv
<1>3. /\ d \in GoodEcs(n, seen')
      /\ reply => d.seqno = c.seqno + 1
      /\ ~reply => d.seqno = c.seqno
      /\ Extends(c.sq.queued, d.sq.queued, B)
      /\ rx[n].sender \in Node =>
           /\ e \in GoodEcs(n, seen')
           /\ e.seqno = d.seqno
           /\ Extends(c.sq.queued, e.sq.queued, B \cup AckEntries(n, rx[n]))
  BY <1>1, HandOverExtends
<1>4. log' = [log EXCEPT ![n] = Append(@, rx[n])]  BY DEF Deliver
<1>5. PICK f \in GoodEcs(n, seen') :
        /\ ec' = [ec EXCEPT ![n] = f] /\ f.seqno = d.seqno
        /\ Extends(c.sq.queued, f.sq.queued, B \cup AckEntries(n, rx[n]))
  <2>1. Extends(c.sq.queued, d.sq.queued, B \cup AckEntries(n, rx[n]))
    <3> HIDE DEF B, c
    <3> QED  BY <1>3, ExtendsMore
  <2> HIDE DEF B, c, e
  <2> QED  BY <1>3, <2>1 DEF e
<1>6. c.seqno <= d.seqno /\ (reply => c.seqno < d.seqno)
  <2> HIDE DEF c
  <2> QED  BY <1>2, <1>3
<1>7. Follows(n, c, f)
  <2>1. \A b \in B \cup AckEntries(n, rx[n]) :
          /\ Proper(n, b)
          /\ OwnData(n, b) => /\ b.p.data = life[n] /\ b.p.seqno = c.seqno
                              /\ reply
    BY <1>1, EntriesInLine
  <2> HIDE DEF B
  <2> QED  BY <1>5, <1>6, <2>1, GainsFollow
<1>8. \A m \in Node : rx'[m] \in {rx[m], NoFrame}  BY <1>1
<1>9. \A m \in Node :
        \/ log'[m] = log[m]
        \/ /\ rx[m] \in Packet /\ rx[m] # NoFrame /\ ~rx[m].ack
           /\ log'[m] = Append(log[m], rx[m]) /\ rx'[m] = NoFrame
  <2> TAKE m \in Node
  <2>1. CASE m = n
    <3>1. log'[n] = Append(log[n], rx[n]) /\ rx'[n] = NoFrame  BY <1>1, <1>4
    <3> QED  BY <2>1, <3>1, <1>1
  <2>2. CASE m # n  BY <2>2, <1>1, <1>4
  <2> QED  BY <2>1, <2>2
<1> HIDE DEF c
<1> QED  BY <1>1, <1>5, <1>7, <1>8, <1>9, FollowsOInv DEF c

\* Whatever frame a node handles.
LEMMA RecvOInv ==
  ASSUME IInv, OInv, NEW n \in Node, Recv(n)
  PROVE  OInv'
<1>1. /\ Handle(n) /\ rx[n] \in GoodFrames(seen) /\ rx[n] \in Packet
      /\ UNCHANGED <<up, life, sink_seqno>>
      /\ \A m \in Node : rx'[m] \in {rx[m], NoFrame}
  <2>1. Handle(n)
    BY DEF Recv, RecvNotForUs, RecvAck, RecvAckForNonSentPacket, RecvDupe, RecvNewData,
           RecvDataOverflow, RecvFromSink
  <2>2. rx \in [Node -> GoodFrames(seen) \cup {NoFrame}]  BY DEF IInv, RxInv
  <2>3. \A m \in Node : rx'[m] \in {rx[m], NoFrame}  BY <2>1, <2>2 DEF Handle
  <2> QED  BY <2>1, <2>3, HandleGood DEF Handle
<1>2. CASE UNCHANGED <<ec, log>>
  <2>1. QueuesInLine'  BY <1>1, <1>2 DEF OInv, QueuesInLine
  <2>2. PastKept  BY <1>1, <1>2 DEF PastKept
  <2> QED  BY <1>1, <1>2, <2>1, <2>2, StepOInv
<1>3. CASE RecvDupe(n)
  <2> DEFINE c == ec[n]
             d == QueueAck(c, n, rx[n])
  <2>1. ec' = [ec EXCEPT ![n] = d] /\ log' = log  BY <1>3 DEF RecvDupe
  <2>2. c \in GoodEcs(n, seen) /\ seen \in Histories  BY DEF IInv, EcInv, RestInv
  <2>3. KeyOf(rx[n]) \in seen[n]
    <3>1. c.dq \in Seq(seen[n])  BY <2>2 DEF GoodEcs
    <3>2. PICK i \in 1..Len(c.dq) : c.dq[i] = KeyOf(rx[n])
      BY <1>3 DEF RecvDupe, Contains
    <3> QED  BY <3>1, <3>2, ElementOfSeq
  <2>4. rx[n].sender \in Node
    BY <1>3, NeighborConnAssumption DEF RecvDupe, ForUs
  <2>5. d \in GoodEcs(n, seen)  BY <1>1, <2>2, <2>3, <2>4, QueueAckGood
  <2>6. /\ d.seqno = c.seqno /\ c.seqno \in Nat
        /\ Extends(c.sq.queued, d.sq.queued, AckEntries(n, rx[n]))
    BY <2>2, QueueAckDupes, QueueAckExtends, EntryNumbers
  <2> HIDE DEF d
  <2>7. c.seqno <= d.seqno
    <3> HIDE DEF c
    <3> QED  BY <2>6
  <2>8. \A b \in AckEntries(n, rx[n]) : Proper(n, b) /\ ~OwnData(n, b)
    <3>1. ASSUME NEW b \in AckEntries(n, rx[n])
          PROVE  Proper(n, b) /\ ~OwnData(n, b)
      BY <1>1, <3>1, EntriesInLine
    <3> QED  BY <3>1
  <2>9. Follows(n, c, d)  BY <2>5, <2>6, <2>7, <2>8, GainsFollow
  <2> QED  BY <1>1, <2>1, <2>5, <2>9, FollowsOInv
<1>4. CASE RecvNewData(n)
  <2>1. PICK reply \in {FALSE, MayOriginate(n)} :
          LET c == Callback(ec[n], n, rx[n], reply)
          IN  /\ ec' = [ec EXCEPT ![n] =
                          QueueAck(StorePacketForDupeChecks(c, KeyOf(rx[n])), n, rx[n])]
              /\ Deliver(n, rx[n], c)
    BY <1>4 DEF RecvNewData
  <2>2. ~rx[n].ack /\ rx[n].sender \in Node
    BY <1>4, NeighborConnAssumption DEF RecvNewData, ForUs
  <2> QED  BY <1>1, <2>1, <2>2, HandOverOInv
<1>5. CASE RecvFromSink(n)
  <2>1. ~rx[n].ack
    BY <1>1, <1>5, NeighborConnAssumption DEF RecvFromSink, GoodFrames
  <2>2. \/ UNCHANGED <<ec, log>>
        \/ \E reply \in {FALSE, MayOriginate(n)} :
             LET c == Callback(ec[n], n, rx[n], reply)
             IN  /\ ec' = [ec EXCEPT ![n] = StorePacketForDupeChecks(c, KeyOf(rx[n]))]
                 /\ Deliver(n, rx[n], c)
    BY <1>5 DEF RecvFromSink
  <2> QED  BY <1>1, <1>2, <2>1, <2>2, HandOverOInv
<1>6. CASE RecvNotForUs(n) \/ RecvAckForNonSentPacket(n) \/ RecvDataOverflow(n)
  BY <1>2, <1>6 DEF RecvNotForUs, RecvAckForNonSentPacket, RecvDataOverflow
<1> QED  BY <1>3, <1>4, <1>5, <1>6, RecvAckOInv DEF Recv

\* A packet of the node's own is the last in its queue.
LEMMA AppBroadcastOInv ==
  ASSUME IInv, OInv, NEW n \in Node, AppBroadcast(n)
  PROVE  OInv'
<1> DEFINE c == ec[n]
           d == OwnBroadcast(c, n)
           s == c.seqno
           key == <<n, s>>
           b == DataEntry(n, key, life[n])
<1>1. /\ c \in GoodEcs(n, seen) /\ seen \in [Node -> SUBSET Key]
      /\ life[n] \in Nat /\ s \in Nat /\ rx \in [Node -> GoodFrames(seen) \cup {NoFrame}]
  BY EntryNumbers DEF IInv, EcInv, RxInv, RestInv, Histories
<1>2. /\ ec' = [ec EXCEPT ![n] = d] /\ s < MaxOwn
      /\ seen' = [seen EXCEPT ![n] = @ \cup {key}]
      /\ UNCHANGED <<rx, up, life, sink_seqno, log>>
  BY DEF AppBroadcast, MayOriginate
<1>3. key \in seen'[n] /\ Grows(seen, seen')  BY <1>1, <1>2 DEF Grows
<1>4. seen' \in Histories
  <2>1. IInv'  BY AppBroadcastIInv
  <2> QED  BY <2>1 DEF IInv, RestInv
<1>5. c \in GoodEcs(n, seen')  BY <1>1, <1>3, GoodEcsMonotonic
<1>6. /\ d \in GoodEcs(n, seen') /\ d.seqno = s + 1
      /\ Extends(c.sq.queued, d.sq.queued, {b})
  BY <1>1, <1>2, <1>3, <1>4, <1>5, OwnBroadcastGood, OwnBroadcastExtends
<1>7. Proper(n, b) /\ b.p.data = life[n] /\ b.p.seqno = s
  BY DEF Proper, DataEntry, BroadcastPacket
<1> HIDE DEF d, b
<1>8. s <= d.seqno /\ s < d.seqno
  <2> HIDE DEF s
  <2> QED  BY <1>1, <1>6
<1>9. Follows(n, c, d)  BY <1>6, <1>7, <1>8, GainsFollow
<1> QED  BY <1>2, <1>6, <1>9, FollowsOInv

\* What the sink sends next has the highest number so far.
LEMMA SinkBroadcastOInv ==
  ASSUME IInv, OInv, SinkBroadcast
  PROVE  OInv'
<1> DEFINE f == [ack |-> FALSE, originator |-> Sink, seqno |-> sink_seqno,
                 sender |-> Sink, to |-> Node, data |-> 0]
<1>1. /\ sink_seqno' = sink_seqno + 1 /\ Transmit(Sink, f)
      /\ UNCHANGED <<ec, up, life, seen, log>>
  BY DEF SinkBroadcast
<1>2. sink_seqno \in Nat
  <2>1. sink_seqno \in 0..MaxFloods /\ MaxFloods \in 0..255
    BY NeighborConnAssumption DEF IInv, RestInv
  <2> QED  BY <2>1
<1>3. \A p \in Packet : p.seqno \in Nat
  <2>1. \A p \in Packet : p.seqno \in 0..255  BY DEF Packet
  <2>2. \A k \in 0..255 : k \in Nat  OBVIOUS
  <2> QED  BY <2>1, <2>2
<1>4. \A t \in Nat : t < sink_seqno => t < sink_seqno'  BY <1>1, <1>2
<1>5. PastKept
  <2>1. ASSUME NEW k \in Node \cup {Sink}, NEW p \in Packet,
               Past(k, p, ec, life, sink_seqno)
        PROVE  Past(k, p, ec', life', sink_seqno')
    <3>1. p.seqno < sink_seqno => p.seqno < sink_seqno'
      BY <1>3, <1>4
    <3>2. Past(k, p, ec, life, sink_seqno')  BY <2>1, <3>1 DEF Past
    <3> QED  BY <1>1, <3>2
  <2> QED  BY <2>1 DEF PastKept
<1>6. QueuesInLine'  BY <1>1 DEF OInv, QueuesInLine
<1>7. /\ f.sender = Sink /\ f.data = 0 /\ f.seqno = sink_seqno
  OBVIOUS
<1> HIDE DEF f
<1>8. Past(f.sender, f, ec', life', sink_seqno')
  <2>1. f.seqno < sink_seqno' /\ 0 <= 0  BY <1>1, <1>2, <1>7
  <2> QED  BY <2>1, <1>7 DEF Past
<1>9. ASSUME NEW m \in Node PROVE NotBehind(log[m], f)
  <2> SUFFICES ASSUME NEW j \in DOMAIN log[m], Own(log[m][j]),
                      log[m][j].sender = f.sender, log[m][j].data = f.data
               PROVE  log[m][j].seqno <= f.seqno
    BY DEF NotBehind
  <2>1. Past(Sink, log[m][j], ec, life, sink_seqno)
    BY <1>7 DEF OInv, LogsInLine
  <2>2. log[m][j].seqno < sink_seqno  BY <2>1, <1>7 DEF Past
  <2>3. log[m][j].seqno \in Nat
    <3>1. log[m] \in Seq(Packet) /\ DOMAIN log[m] = 1..Len(log[m])
      BY LenProperties DEF IInv, RestInv
    <3>2. log[m][j] \in Packet  BY <3>1, ElementOfSeq
    <3> QED  BY <3>2, <1>3
  <2> QED  BY <2>2, <2>3, <1>2, <1>7
<1>10. \A m \in Node : rx'[m] \in {rx[m], f}  BY <1>1 DEF Transmit
<1> QED  BY <1>1, <1>5, <1>6, <1>8, <1>9, <1>10, StepOInv

\* A crash ends a life: what was sent in it is past for ever.
LEMMA CrashOInv ==
  ASSUME IInv, OInv, NEW n \in Node, Crash(n)
  PROVE  OInv'
<1>1. /\ ec' = [ec EXCEPT ![n] = ClosedEc] /\ log' = [log EXCEPT ![n] = << >>]
      /\ rx' = [rx EXCEPT ![n] = NoFrame] /\ life' = [life EXCEPT ![n] = @ + 1]
      /\ sink_seqno' = sink_seqno
      /\ ec \in [Node -> EcRecord] /\ log \in [Node -> Seq(Packet)]
      /\ life \in [Node -> Nat] /\ rx \in [Node -> GoodFrames(seen) \cup {NoFrame}]
  BY DEF Crash, IInv, EcInv, RxInv, RestInv
<1>2. /\ ec'[n] = ClosedEc /\ log'[n] = << >> /\ rx'[n] = NoFrame
      /\ life'[n] = life[n] + 1 /\ life[n] \in Nat
      /\ \A m \in Node \ {n} : /\ ec'[m] = ec[m] /\ log'[m] = log[m]
                               /\ rx'[m] = rx[m] /\ life'[m] = life[m]
  BY <1>1
<1>3. QueuesInLine'
  <2>1. DOMAIN ClosedEc.sq.queued = {}  BY EmptySeq DEF ClosedEc, EmptyBuffer
  <2>2. \A l : InLine(n, ClosedEc.sq.queued, ClosedEc.seqno, l)
    BY <2>1 DEF InLine
  <2> QED  BY <1>2, <2>2 DEF OInv, QueuesInLine
<1>4. PastKept
  <2>1. ASSUME NEW k \in Node \cup {Sink}, NEW p \in Packet,
               Past(k, p, ec, life, sink_seqno)
        PROVE  Past(k, p, ec', life', sink_seqno')
    <3>1. CASE k = Sink  BY <2>1, <3>1, <1>1 DEF Past
    <3>2. CASE k \in Node \ {n}
      BY <2>1, <3>2, <1>1, <1>2 DEF Past
    <3>3. CASE k = n
      <4>1. p.data <= life[n] /\ k # Sink
        BY <2>1, <3>3, NeighborConnAssumption DEF Past
      <4>2. p.data \in Nat  BY DEF Packet
      <4>3. p.data <= life'[n] /\ p.data # life'[n]  BY <4>1, <4>2, <1>2
      <4> QED  BY <4>1, <4>3, <3>3 DEF Past
    <3> QED  BY <3>1, <3>2, <3>3
  <2> QED  BY <2>1 DEF PastKept
<1>5. \A m \in Node : rx'[m] \in {rx[m], NoFrame}  BY <1>1
<1>6. \A m \in Node : \/ log'[m] = << >> /\ rx'[m] = NoFrame
                      \/ log'[m] = log[m]
  BY <1>2
<1> QED  BY <1>3, <1>4, <1>5, <1>6, StepOInv

LEMMA InitOInv == Init => OInv
<1>1. DOMAIN << >> = {}  BY EmptySeq
<1>2. ASSUME Init PROVE DOMAIN ClosedEc.sq.queued = {}
  BY <1>1 DEF ClosedEc, EmptyBuffer
<1>3. ASSUME Init PROVE QueuesInLine
  BY <1>2, <1>3 DEF Init, QueuesInLine, InLine
<1>4. ASSUME Init PROVE RadiosInLine /\ LogsInLine /\ DeliveredInOrder
  BY <1>1, <1>4 DEF Init, RadiosInLine, LogsInLine, DeliveredInOrder
<1> QED  BY <1>3, <1>4 DEF OInv

\* Every step keeps the order.
LEMMA NextOInv == IInv /\ OInv /\ [Next]_vars => OInv'
<1> SUFFICES ASSUME IInv, OInv, [Next]_vars PROVE OInv'
  OBVIOUS
<1>1. ASSUME UNCHANGED <<ec, rx, life, sink_seqno, log>> PROVE OInv'
  <2>1. QueuesInLine'  BY <1>1 DEF OInv, QueuesInLine
  <2>2. RadiosInLine'  BY <1>1 DEF OInv, RadiosInLine
  <2>3. LogsInLine'  BY <1>1 DEF OInv, LogsInLine
  <2>4. DeliveredInOrder'  BY <1>1 DEF OInv, DeliveredInOrder
  <2> QED  BY <2>1, <2>2, <2>3, <2>4 DEF OInv
<1>2. ASSUME NEW n \in Node, Restart(n) PROVE OInv'  BY <1>1, <1>2 DEF Restart
<1>3. CASE UNCHANGED vars  BY <1>1, <1>3 DEF vars
<1> QED
  BY <1>2, <1>3, SendDataOInv, SendAckOInv, RecvOInv, AppBroadcastOInv,
     SinkBroadcastOInv, CrashOInv DEF Next

LEMMA AlwaysOInv == Spec => [](IInv /\ OInv)
<1>1. Init => IInv /\ OInv  BY InitIInv, InitOInv
<1>2. IInv /\ OInv /\ [Next]_vars => (IInv /\ OInv)'  BY NextIInv, NextOInv
<1> QED  BY <1>1, <1>2, PTL DEF Spec

-----------------------------------------------------------------------------
(* Confirmation.  While no node has lost power, a number names one payload *)
(* and what a node has seen it made itself or handed over: an ACK for the  *)
(* number is an ACK for the packet.                                        *)

FirstLives == \A n \in Node : life[n] = 0

\* The payloads of the first life.
FirstPackets(q) == \A i \in DOMAIN q : q[i].p.data = 0

\* What was seen at m, when the packets in l were handed over there.
Accounted(m, sn, l) ==
  \A key \in sn : key[1] = m \/ \E j \in DOMAIN l : KeyOf(l[j]) = key

CInv ==
  \A n \in Node :
    /\ FirstPackets(ec[n].sq.queued)
    /\ rx[n] # NoFrame => rx[n].data = 0
    /\ \A j \in DOMAIN log[n] : log[n][j].data = 0
    /\ Accounted(n, seen[n], log[n])

\* What any step but a crash has to leave behind.
LEMMA StepCInv ==
  ASSUME IInv, CInv, NEW n \in Node, NEW d, ec' = [ec EXCEPT ![n] = d],
         FirstPackets(d.sq.queued),
         \A m \in Node : rx'[m] \in {rx[m], NoFrame} \/ rx'[m].data = 0,
         \/ log' = log /\ seen' = seen
         \/ log' = log /\ seen' = [seen EXCEPT ![n] = @ \cup {<<n, ec[n].seqno>>}]
         \/ rx[n] # NoFrame /\ \E c : Deliver(n, rx[n], c)
  PROVE  CInv'
<1>1. /\ ec \in [Node -> EcRecord] /\ seen \in [Node -> SUBSET Key]
      /\ log \in [Node -> Seq(Packet)]
      /\ rx \in [Node -> GoodFrames(seen) \cup {NoFrame}]
  BY DEF IInv, EcInv, RxInv, RestInv, Histories
<1>2. \A m \in Node : FirstPackets(ec'[m].sq.queued)
  <2>1. ec'[n] = d /\ \A m \in Node \ {n} : ec'[m] = ec[m]  BY <1>1
  <2> QED  BY <2>1 DEF CInv
<1>3. \A m \in Node : rx'[m] # NoFrame => rx'[m].data = 0
  BY DEF CInv
<1>4. ASSUME NEW m \in Node, log'[m] = log[m],
             \A key \in seen'[m] : key \in seen[m] \/ key[1] = m
      PROVE  /\ \A j \in DOMAIN log'[m] : log'[m][j].data = 0
             /\ Accounted(m, seen'[m], log'[m])
  BY <1>4 DEF CInv, Accounted
<1>5. ASSUME NEW c, rx[n] # NoFrame, Deliver(n, rx[n], c)
      PROVE  /\ \A j \in DOMAIN log'[n] : log'[n][j].data = 0
             /\ Accounted(n, seen'[n], log'[n])
             /\ \A m \in Node \ {n} : log'[m] = log[m] /\ seen'[m] = seen[m]
  <2> DEFINE l == log[n]
             own == {<<n, s>> : s \in ec[n].seqno .. c.seqno - 1}
  <2>1. /\ seen' = [seen EXCEPT ![n] = (@ \cup {KeyOf(rx[n])}) \cup own]
        /\ log' = [log EXCEPT ![n] = Append(@, rx[n])]
    BY <1>5 DEF Deliver
  <2>2. \A key \in own : key[1] = n  OBVIOUS
  <2> HIDE DEF own
  <2>3. /\ log'[n] = Append(l, rx[n])
        /\ seen'[n] = (seen[n] \cup {KeyOf(rx[n])}) \cup own
        /\ \A m \in Node \ {n} : log'[m] = log[m] /\ seen'[m] = seen[m]
    BY <1>1, <2>1
  <2>4. /\ l \in Seq(Packet) /\ rx[n] \in Packet
        /\ DOMAIN l = 1..Len(l) /\ Len(l) \in Nat
    BY <1>1, <1>5, LenProperties DEF GoodFrames
  <2>5. /\ DOMAIN log'[n] = 1..(Len(l) + 1) /\ log'[n][Len(l) + 1] = rx[n]
        /\ \A j \in 1..Len(l) : log'[n][j] = l[j]
    <3> HIDE DEF l
    <3>1. /\ Append(l, rx[n]) \in Seq(Packet) /\ Len(Append(l, rx[n])) = Len(l) + 1
          /\ Append(l, rx[n])[Len(l) + 1] = rx[n]
          /\ \A j \in 1..Len(l) : Append(l, rx[n])[j] = l[j]
      BY <2>4, AppendProperties
    <3>2. DOMAIN Append(l, rx[n]) = 1..(Len(l) + 1)
      BY <3>1, LenProperties
    <3> QED  BY <2>3, <3>1, <3>2
  <2>6. /\ rx[n].data = 0 /\ Accounted(n, seen[n], l)
        /\ \A j \in DOMAIN l : l[j].data = 0
    BY <1>5 DEF CInv
  <2> HIDE DEF l
  <2>7. \A j \in DOMAIN log'[n] : j \in DOMAIN l \/ j = Len(l) + 1
    BY <2>4, <2>5
  <2>8. DOMAIN l \subseteq DOMAIN log'[n] /\ Len(l) + 1 \in DOMAIN log'[n]
    BY <2>4, <2>5
  <2>9. \A j \in DOMAIN log'[n] : log'[n][j].data = 0
    BY <2>4, <2>5, <2>6, <2>7
  <2>10. Accounted(n, seen'[n], log'[n])
    BY <2>2, <2>3, <2>4, <2>5, <2>6, <2>8 DEF Accounted
  <2> QED  BY <2>3, <2>9, <2>10
<1>6. \A m \in Node : /\ \A j \in DOMAIN log'[m] : log'[m][j].data = 0
                      /\ Accounted(m, seen'[m], log'[m])
  <2>1. CASE log' = log /\ \A m \in Node : \A key \in seen'[m] :
                             key \in seen[m] \/ key[1] = m
    BY <2>1, <1>4
  <2>2. CASE rx[n] # NoFrame /\ \E c : Deliver(n, rx[n], c)
    BY <2>2, <1>4, <1>5
  <2>3. CASE log' = log /\ seen' = [seen EXCEPT ![n] = @ \cup {<<n, ec[n].seqno>>}]
    <3>1. \A m \in Node : \A key \in seen'[m] : key \in seen[m] \/ key[1] = m
      BY <2>3, <1>1
    <3> QED  BY <2>1, <2>3, <3>1
  <2>4. CASE log' = log /\ seen' = seen  BY <2>1, <2>4
  <2> QED  BY <2>2, <2>3, <2>4
<1> QED  BY <1>2, <1>3, <1>6 DEF CInv

\* What is added was made in a first life.
LEMMA ExtendsFirst ==
  ASSUME NEW q, NEW r, NEW B, Extends(q, r, B), FirstPackets(q),
         \A b \in B : b.p.data = 0
  PROVE  FirstPackets(r)
<1>1. \A i \in DOMAIN q : i \in DOMAIN r /\ r[i] = q[i]  BY DEF Extends
<1>2. \A i \in DOMAIN r : i \notin DOMAIN q => r[i] \in B  BY DEF Extends
<1> QED  BY <1>1, <1>2 DEF FirstPackets

LEMMA EntriesFirst ==
  ASSUME FirstLives, NEW n \in Node, NEW p, p.data = 0, NEW reply, NEW s,
         NEW b \in CallbackEntries(n, p, reply, s) \cup AckEntries(n, p)
  PROVE  b.p.data = 0
<1>1. CASE b \in CallbackEntries(n, p, reply, s)
  BY <1>1 DEF CallbackEntries, DataEntry, BroadcastPacket, FirstLives
<1>2. CASE b \in AckEntries(n, p)  BY <1>2 DEF AckEntries, AckPacket
<1> QED  BY <1>1, <1>2

\* Freeing a packet.
LEMMA FreeFirst ==
  ASSUME NEW S, NEW pb \in BufferOf(S), NEW i \in DOMAIN pb.queued,
         FirstPackets(pb.queued)
  PROVE  FirstPackets(FreePacket(pb, i).queued)
<1> DEFINE q == pb.queued
           r == FreePacket(pb, i).queued
           k == Len(q)
<1>1. /\ k \in Nat /\ DOMAIN q = 1..k /\ DOMAIN r = 1..(k - 1)
      /\ \A a \in 1..(k - 1) : r[a] = IF a < i THEN q[a] ELSE q[a + 1]
  BY FreePacketPositions
<1>2. FirstPackets(q)  OBVIOUS
<1> HIDE DEF q, r, k
<1>3. \A a \in DOMAIN r : a \in DOMAIN q /\ a + 1 \in DOMAIN q  BY <1>1
<1>4. FirstPackets(r)  BY <1>1, <1>2, <1>3 DEF FirstPackets
<1> QED  BY <1>4 DEF r

\* The packets of a buffer are the same when one was sent or acknowledged.
LEMMA UpdateFirst ==
  ASSUME NEW n, NEW sn, NEW sq \in BufferOf(GoodEntries(n, sn)),
         NEW i, NEW m, FirstPackets(sq.queued)
  PROVE  /\ FirstPackets(IncrementTimesSent(sq, i).queued)
         /\ FirstPackets(NeighborAcked(sq, i, m).queued)
<1>1. \A a \in DOMAIN sq.queued : sq.queued[a] \in BufferedPacket
  BY BufferElement DEF GoodEntries
<1>2. sq \in [queued : Seq(GoodEntries(n, sn)), leftover : Seq(SUBSET Node),
              null_write : BOOLEAN]
  BY DEF BufferOf
<1>3. FirstPackets(IncrementTimesSent(sq, i).queued)
  BY <1>1, <1>2 DEF IncrementTimesSent, BufferedPacket, FirstPackets
<1>4. FirstPackets(NeighborAcked(sq, i, m).queued)
  BY <1>1, <1>2 DEF NeighborAcked, BufferedPacket, FirstPackets
<1> QED  BY <1>3, <1>4

\* Both timers: packets go out, and leave.
LEMMA SendCInv ==
  ASSUME IInv, CInv, NEW n \in Node, SendData(n) \/ SendAck(n)
  PROVE  CInv'
<1> DEFINE S == GoodEntries(n, seen)
           c == ec[n]
           sq == c.sq
<1>1. /\ ec \in [Node -> EcRecord] /\ c \in EcRecord
      /\ sq \in BufferOf(S) /\ FirstPackets(sq.queued)
  BY GoodQueue DEF IInv, EcInv, CInv
<1>2. log' = log /\ seen' = seen
  BY DEF SendData, NoDataToSend, SendFirstData, GiveUpFirstData, DataTimerFires,
         SendAck, NoAckToSend, SendFirstAck, AckTimerFires
<1>3. ASSUME NEW sq2, FirstPackets(sq2.queued),
             \/ ec' = [ec EXCEPT ![n].sq = sq2]
             \/ ec' = [ec EXCEPT ![n].sq = sq2, ![n].data_timer = FALSE]
             \/ \E a : ec' = [ec EXCEPT ![n].sq = sq2, ![n].ack_timer = a],
             \A m \in Node : rx'[m] \in {rx[m], NoFrame} \/ rx'[m].data = 0
      PROVE  CInv'
  <2> DEFINE d1 == [c EXCEPT !.sq = sq2]
             d2 == [c EXCEPT !.sq = sq2, !.data_timer = FALSE]
             d3(a) == [c EXCEPT !.sq = sq2, !.ack_timer = a]
  <2>1. d1.sq = sq2 /\ d2.sq = sq2 /\ \A a : d3(a).sq = sq2
    BY <1>1 DEF EcRecord
  <2>2. \/ ec' = [ec EXCEPT ![n] = d1]
        \/ ec' = [ec EXCEPT ![n] = d2]
        \/ \E a : ec' = [ec EXCEPT ![n] = d3(a)]
    BY <1>1, <1>3
  <2> HIDE DEF d1, d2, d3
  <2>3. \E d : ec' = [ec EXCEPT ![n] = d] /\ d.sq = sq2  BY <2>1, <2>2
  <2> QED  BY <2>3, <1>2, <1>3, StepCInv
<1>4. ASSUME NEW f, NEW k, f.data = 0, Transmit(k, f)
      PROVE  \A m \in Node : rx'[m] \in {rx[m], NoFrame} \/ rx'[m].data = 0
  BY <1>4 DEF Transmit
<1>5. \A i \in DOMAIN sq.queued :
        /\ FirstPackets(FreePacket(sq, i).queued)
        /\ FreePacket(sq, i) \in BufferOf(S)
        /\ sq.queued[i].p \in Packet /\ sq.queued[i].p.data = 0
  <2> TAKE i \in DOMAIN sq.queued
  <2>1. FirstPackets(FreePacket(sq, i).queued) /\ FreePacket(sq, i) \in BufferOf(S)
    BY <1>1, FreeFirst, FreeGood
  <2>2. sq.queued[i].p \in Packet
    BY <1>1, BufferElement DEF GoodEntries, BufferedPacket
  <2>3. sq.queued[i].p.data = 0  BY <1>1 DEF FirstPackets
  <2> QED  BY <2>1, <2>2, <2>3
<1>6. ASSUME NEW sq2 \in BufferOf(S), FirstPackets(sq2.queued), NEW j,
             NEW p \in Packet, p.data = 0, SendDataPacket(n, sq2, j, p)
      PROVE  CInv'
  <2>1. CASE ec' = [ec EXCEPT ![n].sq = sq2] /\ UNCHANGED rx
    BY <2>1, <1>3, <1>6
  <2>2. ASSUME NEW to, ec' = [ec EXCEPT ![n].sq = IncrementTimesSent(sq2, j)],
               Transmit(n, [p EXCEPT !.to = to])
        PROVE  CInv'
    <3> DEFINE f == [p EXCEPT !.to = to]
               sq3 == IncrementTimesSent(sq2, j)
    <3>1. f.data = 0  BY <1>6 DEF Packet
    <3>2. Transmit(n, f)  BY <2>2
    <3> HIDE DEF f
    <3>3. \A m \in Node : rx'[m] \in {rx[m], NoFrame} \/ rx'[m].data = 0
      BY <3>1, <3>2, <1>4
    <3>4. FirstPackets(sq3.queued) /\ ec' = [ec EXCEPT ![n].sq = sq3]
      BY <1>6, <2>2, UpdateFirst
    <3> HIDE DEF sq3, sq, c
    <3> QED  BY <3>3, <3>4, <1>3
  <2> QED  BY <2>1, <2>2, <1>6 DEF SendDataPacket
<1>7. CASE NoDataToSend(n)
  <2>1. ec' = [ec EXCEPT ![n].sq = sq, ![n].data_timer = FALSE] /\ UNCHANGED rx
    BY <1>1, <1>7 DEF NoDataToSend, EcRecord
  <2> QED  BY <2>1, <1>1, <1>3
<1>8. CASE NoAckToSend(n)
  <2>1. ec' = [ec EXCEPT ![n].sq = sq, ![n].ack_timer = FALSE] /\ UNCHANGED rx
    BY <1>1, <1>8 DEF NoAckToSend, EcRecord
  <2> QED  BY <2>1, <1>1, <1>3
<1>9. CASE SendFirstData(n)
  <2>1. PICK i \in DOMAIN sq.queued : SendDataPacket(n, sq, i, sq.queued[i].p)
    BY <1>9, FirstOfPositions DEF SendFirstData, FirstOfType, OfType
  <2> QED  BY <2>1, <1>1, <1>5, <1>6
<1>10. CASE GiveUpFirstData(n)
  <2>1. PICK i \in DOMAIN sq.queued :
          \/ /\ ec' = [ec EXCEPT ![n].sq = FreePacket(sq, i), ![n].data_timer = FALSE]
             /\ UNCHANGED rx
          \/ \E j : SendDataPacket(n, FreePacket(sq, i), j, sq.queued[i].p)
    BY <1>10, FirstOfPositions DEF GiveUpFirstData, FirstOfType, OfType
  <2> DEFINE sq2 == FreePacket(sq, i)
  <2>2. FirstPackets(sq2.queued) /\ sq2 \in BufferOf(S)  BY <1>5
  <2>3. \/ ec' = [ec EXCEPT ![n].sq = sq2, ![n].data_timer = FALSE] /\ UNCHANGED rx
        \/ \E j : SendDataPacket(n, sq2, j, sq.queued[i].p)
    BY <2>1
  <2>4. sq.queued[i].p \in Packet /\ sq.queued[i].p.data = 0  BY <1>5
  <2> HIDE DEF sq2, sq, c
  <2> QED  BY <2>2, <2>3, <2>4, <1>3, <1>6
<1>11. CASE SendFirstAck(n)
  <2>1. PICK i \in DOMAIN sq.queued :
          /\ \E a : ec' = [ec EXCEPT ![n].sq = FreePacket(sq, i), ![n].ack_timer = a]
          /\ Transmit(n, sq.queued[i].p)
    BY <1>11, FirstOfPositions DEF SendFirstAck, FirstOfType, OfType
  <2>2. \A m \in Node : rx'[m] \in {rx[m], NoFrame} \/ rx'[m].data = 0
    BY <2>1, <1>4, <1>5
  <2>3. FirstPackets(FreePacket(sq, i).queued)  BY <1>5
  <2> QED  BY <2>1, <2>2, <2>3, <1>3
<1> QED  BY <1>7, <1>8, <1>9, <1>10, <1>11 DEF SendData, SendAck

\* Whatever frame a node handles.
LEMMA RecvCInv ==
  ASSUME IInv, CInv, FirstLives, NEW n \in Node, Recv(n)
  PROVE  CInv'
<1> DEFINE S == GoodEntries(n, seen)
           c == ec[n]
           sq == c.sq
<1>1. /\ Handle(n) /\ rx[n] \in Packet /\ rx[n] # NoFrame /\ rx[n].data = 0
      /\ UNCHANGED <<up, life, sink_seqno>>
      /\ \A m \in Node : rx'[m] \in {rx[m], NoFrame}
  <2>1. Handle(n)
    BY DEF Recv, RecvNotForUs, RecvAck, RecvAckForNonSentPacket, RecvDupe, RecvNewData,
           RecvDataOverflow, RecvFromSink
  <2>2. rx \in [Node -> GoodFrames(seen) \cup {NoFrame}]  BY DEF IInv, RxInv
  <2>3. \A m \in Node : rx'[m] \in {rx[m], NoFrame}  BY <2>1, <2>2 DEF Handle
  <2> QED  BY <2>1, <2>3, HandleGood DEF Handle, CInv
<1>2. /\ ec \in [Node -> EcRecord] /\ c \in EcRecord /\ c \in GoodEcs(n, seen)
      /\ sq \in BufferOf(S) /\ FirstPackets(sq.queued)
  BY GoodQueue DEF IInv, EcInv, CInv
<1>3. CASE UNCHANGED <<ec, seen, log>>
  <2>1. ec' = [ec EXCEPT ![n] = c]  BY <1>2, <1>3
  <2> QED  BY <2>1, <1>1, <1>2, <1>3, StepCInv
<1>4. CASE RecvAck(n)
  <2>1. PICK i \in FindByOriginatorSeqno(sq, rx[n]) :
          LET sq2 == NeighborAcked(sq, i, rx[n].sender)
          IN  \/ ec' = [ec EXCEPT ![n].sq = sq2]
              \/ ec' = [ec EXCEPT ![n].sq = FreePacket(sq2, i), ![n].data_timer = TRUE]
    BY <1>4 DEF RecvAck
  <2>2. UNCHANGED <<seen, log>>  BY <1>4 DEF RecvAck
  <2> DEFINE sq2 == NeighborAcked(sq, i, rx[n].sender)
             sq3 == FreePacket(sq2, i)
             d2 == [c EXCEPT !.sq = sq2]
             d3 == [c EXCEPT !.sq = sq3, !.data_timer = TRUE]
  <2>3. FirstPackets(sq2.queued)  BY <1>2, UpdateFirst
  <2>4. FirstPackets(sq3.queued)
    <3>1. rx[n].sender \in Node /\ KeyOf(rx[n]) \in seen[rx[n].sender]
      BY <1>1, <1>4, HandleGood DEF RecvAck, GoodFrames
    <3>2. sq2 \in BufferOf(S) /\ i \in DOMAIN sq2.queued
      <4> HIDE DEF sq
      <4> QED  BY <1>2, <3>1, AckedGood
    <3> HIDE DEF sq2, sq, c
    <3> QED  BY <2>3, <3>2, FreeFirst
  <2>5. d2.sq = sq2 /\ d3.sq = sq3  BY <1>2 DEF EcRecord
  <2>6. ec' = [ec EXCEPT ![n] = d2] \/ ec' = [ec EXCEPT ![n] = d3]
    BY <2>1
  <2> HIDE DEF d2, d3, sq2, sq3
  <2>7. \E d : ec' = [ec EXCEPT ![n] = d] /\ FirstPackets(d.sq.queued)
    BY <2>3, <2>4, <2>5, <2>6
  <2> HIDE DEF sq, c
  <2> QED  BY <2>2, <2>7, <1>1, StepCInv
<1>5. CASE RecvDupe(n)
  <2> DEFINE d == QueueAck(c, n, rx[n])
  <2>1. ec' = [ec EXCEPT ![n] = d] /\ UNCHANGED <<seen, log>>  BY <1>5 DEF RecvDupe
  <2>2. Extends(sq.queued, d.sq.queued, AckEntries(n, rx[n]))
    BY <1>2, QueueAckExtends
  <2>3. \A b \in AckEntries(n, rx[n]) : b.p.data = 0
    BY DEF AckEntries, AckPacket
  <2> HIDE DEF d
  <2>4. FirstPackets(d.sq.queued)  BY <1>2, <2>2, <2>3, ExtendsFirst
  <2> QED  BY <2>1, <2>4, <1>1, StepCInv
<1>6. ASSUME NEW reply \in {FALSE, MayOriginate(n)},
             Deliver(n, rx[n], Callback(ec[n], n, rx[n], reply)),
             NEW d, ec' = [ec EXCEPT ![n] = d],
             Extends(sq.queued, d.sq.queued,
                     CallbackEntries(n, rx[n], reply, c.seqno) \cup AckEntries(n, rx[n]))
      PROVE  CInv'
  <2>1. \A b \in CallbackEntries(n, rx[n], reply, c.seqno) \cup AckEntries(n, rx[n]) :
          b.p.data = 0
    BY <1>1, EntriesFirst
  <2>2. FirstPackets(d.sq.queued)  BY <1>2, <1>6, <2>1, ExtendsFirst
  <2> HIDE DEF sq, c
  <2> QED  BY <2>2, <1>1, <1>6, StepCInv
<1>7. ASSUME NEW reply \in {FALSE, MayOriginate(n)},
             Deliver(n, rx[n], Callback(ec[n], n, rx[n], reply))
      PROVE  LET B == CallbackEntries(n, rx[n], reply, c.seqno)
                 A == AckEntries(n, rx[n])
                 d == StorePacketForDupeChecks(Callback(c, n, rx[n], reply), KeyOf(rx[n]))
             IN  /\ Extends(sq.queued, d.sq.queued, B \cup A)
                 /\ rx[n].sender \in Node =>
                      Extends(sq.queued, QueueAck(d, n, rx[n]).sq.queued, B \cup A)
  <2> DEFINE B == CallbackEntries(n, rx[n], reply, c.seqno)
             A == AckEntries(n, rx[n])
             d == StorePacketForDupeChecks(Callback(c, n, rx[n], reply), KeyOf(rx[n]))
             e == QueueAck(d, n, rx[n])
  <2>1. /\ Extends(sq.queued, d.sq.queued, B)
        /\ rx[n].sender \in Node => Extends(sq.queued, e.sq.queued, B \cup A)
    BY <1>1, <1>7, HandOverExtends
  <2> HIDE DEF A, B, d, e, sq, c
  <2>2. Extends(sq.queued, d.sq.queued, B \cup A)  BY <2>1, ExtendsMore
  <2> QED  BY <2>1, <2>2 DEF A, B, d, e, c
<1>8. CASE RecvNewData(n)
  <2>1. PICK reply \in {FALSE, MayOriginate(n)} :
          LET g == Callback(ec[n], n, rx[n], reply)
          IN  /\ ec' = [ec EXCEPT ![n] =
                          QueueAck(StorePacketForDupeChecks(g, KeyOf(rx[n])), n, rx[n])]
              /\ Deliver(n, rx[n], g)
    BY <1>8 DEF RecvNewData
  <2>2. rx[n].sender \in Node
    BY <1>8, NeighborConnAssumption DEF RecvNewData, ForUs
  <2> QED  BY <2>1, <2>2, <1>6, <1>7
<1>9. CASE RecvFromSink(n)
  <2>1. \/ UNCHANGED <<ec, seen, log>>
        \/ \E reply \in {FALSE, MayOriginate(n)} :
             LET g == Callback(ec[n], n, rx[n], reply)
             IN  /\ ec' = [ec EXCEPT ![n] = StorePacketForDupeChecks(g, KeyOf(rx[n]))]
                 /\ Deliver(n, rx[n], g)
    BY <1>9 DEF RecvFromSink
  <2> QED  BY <2>1, <1>3, <1>6, <1>7
<1>10. CASE RecvNotForUs(n) \/ RecvAckForNonSentPacket(n) \/ RecvDataOverflow(n)
  BY <1>3, <1>10 DEF RecvNotForUs, RecvAckForNonSentPacket, RecvDataOverflow
<1> QED  BY <1>4, <1>5, <1>8, <1>9, <1>10 DEF Recv

\* A packet of a node's own.
LEMMA AppBroadcastCInv ==
  ASSUME IInv, CInv, FirstLives, NEW n \in Node, AppBroadcast(n)
  PROVE  CInv'
<1> DEFINE c == ec[n]
           d == OwnBroadcast(c, n)
           key == <<n, c.seqno>>
           b == DataEntry(n, key, life[n])
<1>1. /\ c \in GoodEcs(n, seen) /\ seen \in [Node -> SUBSET Key]
      /\ life[n] \in Nat /\ FirstPackets(c.sq.queued)
  BY DEF IInv, EcInv, RestInv, Histories, CInv
<1>2. /\ ec' = [ec EXCEPT ![n] = d] /\ c.seqno < MaxOwn
      /\ seen' = [seen EXCEPT ![n] = @ \cup {key}]
      /\ UNCHANGED <<rx, up, life, sink_seqno, log>>
  BY DEF AppBroadcast, MayOriginate
<1>3. key \in seen'[n] /\ Grows(seen, seen')  BY <1>1, <1>2 DEF Grows
<1>4. seen' \in Histories
  <2>1. IInv'  BY AppBroadcastIInv
  <2> QED  BY <2>1 DEF IInv, RestInv
<1>5. c \in GoodEcs(n, seen')  BY <1>1, <1>3, GoodEcsMonotonic
<1>6. Extends(c.sq.queued, d.sq.queued, {b})
  BY <1>1, <1>2, <1>3, <1>4, <1>5, OwnBroadcastExtends
<1>7. b.p.data = 0  BY DEF FirstLives, DataEntry, BroadcastPacket
<1> HIDE DEF d, b
<1>8. FirstPackets(d.sq.queued)  BY <1>1, <1>6, <1>7, ExtendsFirst
<1>9. \A m \in Node : rx'[m] \in {rx[m], NoFrame}  BY <1>2
<1> QED  BY <1>2, <1>8, <1>9, StepCInv

\* Every step, as long as nobody has lost power.
LEMMA NextCInv ==
  IInv /\ (FirstLives => CInv) /\ [Next]_vars => (FirstLives => CInv)'
<1> SUFFICES ASSUME IInv, FirstLives => CInv, [Next]_vars, FirstLives'
             PROVE  CInv'
  OBVIOUS
<1>1. /\ life \in [Node -> Nat]
      /\ rx \in [Node -> GoodFrames(seen) \cup {NoFrame}]
  BY DEF IInv, RxInv, RestInv
<1>2. ASSUME NEW n \in Node PROVE ~Crash(n)
  <2>1. SUFFICES ASSUME Crash(n) PROVE FALSE  OBVIOUS
  <2>2. life'[n] = life[n] + 1 /\ life[n] \in Nat  BY <1>1, <2>1 DEF Crash
  <2>3. life'[n] = 0  BY DEF FirstLives
  <2> QED  BY <2>2, <2>3
<1>3. life' = life
  BY <1>2 DEF Next, SendData, NoDataToSend, SendFirstData, GiveUpFirstData,
         DataTimerFires, SendAck, NoAckToSend, SendFirstAck, AckTimerFires, Recv,
         RecvNotForUs, RecvAck, RecvAckForNonSentPacket, RecvDupe, RecvNewData,
         RecvDataOverflow, RecvFromSink, Handle, AppBroadcast, Restart,
         SinkBroadcast, vars
<1>4. FirstLives /\ CInv  BY <1>3 DEF FirstLives
<1>5. ASSUME UNCHANGED <<ec, seen, log>>,
             \A m \in Node : rx'[m] \in {rx[m], NoFrame} \/ rx'[m].data = 0
      PROVE  CInv'
  BY <1>4, <1>5 DEF CInv
<1>6. CASE SinkBroadcast
  <2> DEFINE f == [ack |-> FALSE, originator |-> Sink, seqno |-> sink_seqno,
                   sender |-> Sink, to |-> Node, data |-> 0]
  <2>1. Transmit(Sink, f) /\ UNCHANGED <<ec, seen, log>>  BY <1>6 DEF SinkBroadcast
  <2>2. f.data = 0  OBVIOUS
  <2> HIDE DEF f
  <2>3. \A m \in Node : rx'[m] \in {rx[m], NoFrame} \/ rx'[m].data = 0
    BY <2>1, <2>2 DEF Transmit
  <2> QED  BY <2>1, <2>3, <1>5
<1>7. ASSUME NEW n \in Node, Restart(n) PROVE CInv'  BY <1>5, <1>7 DEF Restart
<1>8. CASE UNCHANGED vars  BY <1>5, <1>8 DEF vars
<1> QED
  BY <1>2, <1>4, <1>6, <1>7, <1>8, SendCInv, RecvCInv, AppBroadcastCInv DEF Next

LEMMA AlwaysCInv == Spec => [](IInv /\ (FirstLives => CInv))
<1>1. Init => CInv
  <2>1. DOMAIN << >> = {}  BY EmptySeq
  <2>2. ASSUME Init PROVE DOMAIN ClosedEc.sq.queued = {}
    BY <2>1 DEF ClosedEc, EmptyBuffer
  <2> QED  BY <2>1, <2>2 DEF Init, CInv, FirstPackets, Accounted
<1> QED  BY <1>1, InitIInv, NextIInv, NextCInv, PTL DEF Spec

\* Only the handler of a frame empties a radio.
LEMMA HandleIsRecv ==
  ASSUME IInv, NEW n \in Node, Handle(n), [Next]_vars
  PROVE  Recv(n)
<1>1. /\ rx[n] # NoFrame /\ rx'[n] = NoFrame /\ UNCHANGED <<up, life, sink_seqno>>
      /\ rx \in [Node -> GoodFrames(seen) \cup {NoFrame}] /\ up \in SUBSET Node
  BY DEF Handle, IInv, RxInv, RestInv
<1>2. ASSUME rx'[n] = rx[n] PROVE FALSE  BY <1>1, <1>2
<1>3. ASSUME NEW k, NEW f, Transmit(k, f) PROVE FALSE
  <2>1. PICK H \in SUBSET {m \in InRange[k] \cap f.to : m \in up /\ rx[m] = NoFrame} :
          rx' = [m \in Node |-> IF m \in H THEN f ELSE rx[m]]
    BY <1>3 DEF Transmit
  <2>2. n \notin H  BY <1>1
  <2>3. rx'[n] = rx[n]  BY <2>1, <2>2
  <2> QED  BY <2>3, <1>2
<1>4. ASSUME NEW m \in Node, SendData(m) \/ SendAck(m) PROVE FALSE
  <2>1. UNCHANGED rx \/ \E f : Transmit(m, f)
    BY <1>4 DEF SendData, NoDataToSend, SendFirstData, GiveUpFirstData, SendDataPacket,
                SendAck, NoAckToSend, SendFirstAck
  <2> QED  BY <2>1, <1>2, <1>3
<1>5. ASSUME NEW m \in Node, Recv(m) PROVE m = n
  <2>1. rx' = [rx EXCEPT ![m] = NoFrame]
    BY <1>5 DEF Recv, RecvNotForUs, RecvAck, RecvAckForNonSentPacket, RecvDupe,
                RecvNewData, RecvDataOverflow, RecvFromSink, Handle
  <2>2. CASE m # n  BY <2>1, <2>2, <1>1
  <2> QED  BY <2>2
<1>6. ASSUME NEW m \in Node, AppBroadcast(m) PROVE FALSE
  BY <1>2, <1>6 DEF AppBroadcast
<1>7. ASSUME NEW m \in Node, Crash(m) PROVE FALSE  BY <1>1, <1>7 DEF Crash
<1>8. ASSUME NEW m \in Node, Restart(m) PROVE FALSE  BY <1>1, <1>8 DEF Restart
<1>9. CASE SinkBroadcast  BY <1>3, <1>9 DEF SinkBroadcast
<1>10. CASE UNCHANGED vars  BY <1>2, <1>10 DEF vars
<1> QED  BY <1>4, <1>5, <1>6, <1>7, <1>8, <1>9, <1>10 DEF Next

\* Nothing leaves a queue that only gains.
LEMMA NoneLeaves ==
  ASSUME NEW n \in Node, NEW B, Extends(ec[n].sq.queued, ec'[n].sq.queued, B)
  PROVE  Leaving(n) = {}
<1> DEFINE q == ec[n].sq.queued
           r == ec'[n].sq.queued
<1>1. \A i \in DOMAIN q : i \in DOMAIN r /\ r[i] = q[i]  BY DEF Extends
<1> QED  BY <1>1 DEF Leaving, DataPositions, OfType

\* An ACK makes at most the packet leave for which it was found, and only when
\* nobody is waited for any more.
LEMMA ConfirmedLeaves ==
  ASSUME IInv, NEW n \in Node, RecvAck(n), NEW p \in Leaving(n), NEW m \in Neighbors[n]
  PROVE  KeyOf(p) \in seen[m] /\ \E k \in DOMAIN ec[n].sq.queued : ec[n].sq.queued[k].p = p
<1> DEFINE S == GoodEntries(n, seen)
           sq == ec[n].sq
           a == rx[n].sender
<1>1. /\ ec \in [Node -> EcRecord] /\ ec[n] \in EcRecord /\ sq \in BufferOf(S)
      /\ a \in Node /\ KeyOf(rx[n]) \in seen[a]
  BY GoodQueue, HandleGood DEF IInv, EcInv, RecvAck, GoodFrames
<1>2. PICK i \in FindByOriginatorSeqno(sq, rx[n]) :
        ec' = IF AllNeighborsAcked(NeighborAcked(sq, i, a), i)
              THEN [ec EXCEPT ![n].sq = FreePacket(NeighborAcked(sq, i, a), i),
                              ![n].data_timer = TRUE]
              ELSE [ec EXCEPT ![n].sq = NeighborAcked(sq, i, a)]
  BY DEF RecvAck
<1> DEFINE sq2 == NeighborAcked(sq, i, a)
           sq3 == FreePacket(sq2, i)
<1>3. sq2 \in BufferOf(S) /\ i \in DOMAIN sq2.queued
  <2> HIDE DEF sq, a
  <2> QED  BY <1>1, AckedGood
<1>4. /\ DOMAIN sq2.queued = DOMAIN sq.queued
      /\ \A k \in DOMAIN sq.queued : /\ sq2.queued[k].type = sq.queued[k].type
                                     /\ sq2.queued[k].p = sq.queued[k].p
  <2>1. \A k \in DOMAIN sq.queued : sq.queued[k] \in BufferedPacket
    BY <1>1, BufferElement DEF GoodEntries
  <2>2. sq \in [queued : Seq(S), leftover : Seq(SUBSET Node), null_write : BOOLEAN]
    BY <1>1 DEF BufferOf
  <2> HIDE DEF S, sq, a
  <2> QED  BY <2>1, <2>2 DEF NeighborAcked, BufferedPacket
<1>5. IF AllNeighborsAcked(sq2, i) THEN ec'[n].sq = sq3 ELSE ec'[n].sq = sq2
  BY <1>1, <1>2 DEF EcRecord
<1> HIDE DEF sq2, sq3
<1>6. PICK k \in DOMAIN sq.queued :
        /\ sq.queued[k].type = NEIGHBOR_DATA /\ sq.queued[k].p = p
  BY DEF Leaving, DataPositions, OfType
<1>7. \A j \in DOMAIN ec'[n].sq.queued :
        ec'[n].sq.queued[j].type = NEIGHBOR_DATA => ec'[n].sq.queued[j].p # p
  BY DEF Leaving, DataPositions, OfType
<1> HIDE DEF sq
<1>8. AllNeighborsAcked(sq2, i)
  <2>1. CASE ~AllNeighborsAcked(sq2, i)
    BY <2>1, <1>4, <1>5, <1>6, <1>7
  <2> QED  BY <2>1
<1>9. k = i
  <2> SUFFICES ASSUME k # i PROVE FALSE  OBVIOUS
  <2> DEFINE q == sq2.queued
             r == sq3.queued
             l == Len(q)
  <2>1. /\ l \in Nat /\ DOMAIN q = 1..l /\ i \in 1..l
        /\ DOMAIN r = 1..(l - 1)
        /\ \A j \in 1..(l - 1) : r[j] = IF j < i THEN q[j] ELSE q[j + 1]
    BY <1>3, FreePacketPositions DEF sq3
  <2>2. /\ k \in DOMAIN q /\ q[k].type = NEIGHBOR_DATA /\ q[k].p = p
        /\ \A j \in DOMAIN r : r[j].type = NEIGHBOR_DATA => r[j].p # p
    BY <1>4, <1>5, <1>6, <1>7, <1>8
  <2> HIDE DEF q, r, l
  <2>3. CASE k < i
    <3>1. k \in DOMAIN r /\ r[k] = q[k]  BY <2>1, <2>2, <2>3
    <3> QED  BY <3>1, <2>2
  <2>4. CASE k > i
    <3>1. k - 1 \in DOMAIN r /\ r[k - 1] = q[k]  BY <2>1, <2>2, <2>4
    <3> QED  BY <3>1, <2>2
  <2> QED  BY <2>1, <2>2, <2>3, <2>4
<1>10. sq2.queued[i] \in S  BY <1>3, BufferElement
<1>11. sq2.queued[i].unacked_ns = {}  BY <1>8 DEF AllNeighborsAcked
<1>12. sq2.queued[i].type = NEIGHBOR_DATA /\ sq2.queued[i].p = p
  BY <1>4, <1>6, <1>9
<1>13. KeyOf(p) \in seen[m]  BY <1>10, <1>11, <1>12 DEF GoodEntries
<1> QED  BY <1>6, <1>13 DEF sq

\* In their first lives: what all neighbours confirmed was handed over to each.
LEMMA ConfirmedStep ==
  ASSUME IInv, CInv, FirstLives, [Next]_vars, NEW n \in Node, Handle(n),
         NEW p \in Leaving(n), NEW m \in Neighbors[n]
  PROVE  \/ p.originator = m
         \/ \E j \in DOMAIN log[m] : SameMessage(log[m][j], p)
<1>1. Recv(n)  BY HandleIsRecv
<1>2. CASE RecvAck(n)
  <2>1. KeyOf(p) \in seen[m] /\ p.data = 0
    BY <1>2, ConfirmedLeaves DEF CInv, FirstPackets
  <2>2. m \in Node  BY NeighborConnAssumption
  <2>3. \/ KeyOf(p)[1] = m
        \/ \E j \in DOMAIN log[m] : KeyOf(log[m][j]) = KeyOf(p) /\ log[m][j].data = 0
    BY <2>1, <2>2 DEF CInv, Accounted
  <2> QED  BY <2>1, <2>3 DEF KeyOf, SameMessage
<1>3. ASSUME NEW B, Extends(ec[n].sq.queued, ec'[n].sq.queued, B) PROVE FALSE
  BY <1>3, NoneLeaves
<1>4. ec \in [Node -> EcRecord] /\ ec[n] \in GoodEcs(n, seen) /\ rx[n] \in Packet
  BY HandleGood DEF IInv, EcInv
<1>5. CASE UNCHANGED ec  BY <1>3, <1>5, ExtendsItself
<1>6. CASE RecvDupe(n)
  <2> DEFINE d == QueueAck(ec[n], n, rx[n])
  <2>1. ec' = [ec EXCEPT ![n] = d]  BY <1>6 DEF RecvDupe
  <2>2. Extends(ec[n].sq.queued, d.sq.queued, AckEntries(n, rx[n]))
    BY <1>4, QueueAckExtends
  <2> HIDE DEF d
  <2>3. ec'[n] = d  BY <2>1, <1>4
  <2> QED  BY <2>2, <2>3, <1>3
<1>7. ASSUME NEW reply \in {FALSE, MayOriginate(n)},
             Deliver(n, rx[n], Callback(ec[n], n, rx[n], reply)),
             LET d == StorePacketForDupeChecks(Callback(ec[n], n, rx[n], reply),
                                               KeyOf(rx[n]))
             IN  \/ ec' = [ec EXCEPT ![n] = d]
                 \/ /\ rx[n].sender \in Node
                    /\ ec' = [ec EXCEPT ![n] = QueueAck(d, n, rx[n])]
      PROVE  FALSE
  <2> DEFINE d == StorePacketForDupeChecks(Callback(ec[n], n, rx[n], reply), KeyOf(rx[n]))
             e == QueueAck(d, n, rx[n])
             B == CallbackEntries(n, rx[n], reply, ec[n].seqno)
             A == AckEntries(n, rx[n])
  <2>1. UNCHANGED <<up, life, sink_seqno>>  BY DEF Handle
  <2>2. /\ Extends(ec[n].sq.queued, d.sq.queued, B)
        /\ rx[n].sender \in Node => Extends(ec[n].sq.queued, e.sq.queued, B \cup A)
    BY <2>1, <1>4, <1>7, HandOverExtends
  <2>3. \/ ec' = [ec EXCEPT ![n] = d]
        \/ rx[n].sender \in Node /\ ec' = [ec EXCEPT ![n] = e]
    BY <1>7
  <2> HIDE DEF A, B, d, e
  <2>4. ec'[n] = d \/ (rx[n].sender \in Node /\ ec'[n] = e)  BY <2>3, <1>4
  <2> QED  BY <2>2, <2>4, <1>3
<1>8. CASE RecvNewData(n)
  <2>1. PICK reply \in {FALSE, MayOriginate(n)} :
          LET g == Callback(ec[n], n, rx[n], reply)
          IN  /\ ec' = [ec EXCEPT ![n] =
                          QueueAck(StorePacketForDupeChecks(g, KeyOf(rx[n])), n, rx[n])]
              /\ Deliver(n, rx[n], g)
    BY <1>8 DEF RecvNewData
  <2>2. rx[n].sender \in Node
    BY <1>8, NeighborConnAssumption DEF RecvNewData, ForUs
  <2> QED  BY <2>1, <2>2, <1>7
<1>9. CASE RecvFromSink(n)
  <2>1. \/ UNCHANGED ec
        \/ \E reply \in {FALSE, MayOriginate(n)} :
             LET g == Callback(ec[n], n, rx[n], reply)
             IN  /\ ec' = [ec EXCEPT ![n] = StorePacketForDupeChecks(g, KeyOf(rx[n]))]
                 /\ Deliver(n, rx[n], g)
    BY <1>9 DEF RecvFromSink
  <2> QED  BY <2>1, <1>5, <1>7
<1>10. CASE RecvNotForUs(n) \/ RecvAckForNonSentPacket(n) \/ RecvDataOverflow(n)
  BY <1>5, <1>10 DEF RecvNotForUs, RecvAckForNonSentPacket, RecvDataOverflow
<1> QED  BY <1>1, <1>2, <1>6, <1>8, <1>9, <1>10 DEF Recv

\* Nobody loses power.
LEMMA AlwaysFirstLives ==
  ASSUME Crashers = {} \/ MaxCrashes = 0
  PROVE  Spec => []FirstLives
<1>1. Init => FirstLives  BY DEF Init, FirstLives
<1>2. ASSUME FirstLives, [Next]_vars PROVE FirstLives'
  <2>1. \A n \in Node : ~Crash(n)  BY <1>2 DEF Crash, FirstLives
  <2>2. life' = life
    BY <1>2, <2>1
       DEF Next, SendData, NoDataToSend, SendFirstData, GiveUpFirstData,
           DataTimerFires, SendAck, NoAckToSend, SendFirstAck, AckTimerFires, Recv,
           RecvNotForUs, RecvAck, RecvAckForNonSentPacket, RecvDupe, RecvNewData,
           RecvDataOverflow, RecvFromSink, Handle, AppBroadcast, Restart,
           SinkBroadcast, vars
  <2> QED  BY <1>2, <2>2 DEF FirstLives
<1> QED  BY <1>1, <1>2, PTL DEF Spec

\* Types, slots and acknowledgements follow from the inductive invariant.
LEMMA IInvImplies == IInv => TypeOK /\ NoSlotLost /\ AckedWasSeen
<1> SUFFICES ASSUME IInv PROVE TypeOK /\ NoSlotLost /\ AckedWasSeen
  OBVIOUS
<1>1. ASSUME NEW n \in Node
      PROVE  /\ ec[n].sq \in BufferOf(GoodEntries(n, seen))
             /\ Len(ec[n].dq) <= DupeQueueLength
  BY DEF IInv, EcInv, GoodEcs
<1>2. TypeOK
  BY <1>1 DEF TypeOK, IInv, EcInv, RxInv, RestInv, GoodFrames, Histories
<1>3. NoSlotLost  BY <1>1 DEF NoSlotLost, BufferOf
<1>4. ASSUME NEW n \in Node, NEW i \in DataPositions(n),
             NEW m \in Neighbors[n] \ ec[n].sq.queued[i].unacked_ns
      PROVE  KeyOf(ec[n].sq.queued[i].p) \in seen[m]
  <2>1. i \in DOMAIN ec[n].sq.queued /\ ec[n].sq.queued[i].type = NEIGHBOR_DATA
    BY DEF DataPositions, OfType
  <2>2. ec[n].sq.queued[i] \in GoodEntries(n, seen)
    BY <1>1, <2>1, BufferElement
  <2> QED  BY <2>1, <2>2 DEF GoodEntries
<1>5. AckedWasSeen  BY <1>4 DEF AckedWasSeen
<1> QED  BY <1>2, <1>3, <1>5

\* The inductive invariant holds in every reachable state.
LEMMA AlwaysIInv == Spec => []IInv
BY InitIInv, NextIInv, PTL DEF Spec

\* Every variable of the neighbour connection keeps its type, and the duplicate
\* queue its bound.
THEOREM NeighborConnTyped == Spec => []TypeOK
<1>1. IInv => TypeOK  BY IInvImplies
<1> QED  BY <1>1, AlwaysIInv, PTL

\* No slot of a sending queue is ever lost.
THEOREM SlotsAreKept == Spec => []NoSlotLost
<1>1. IInv => NoSlotLost  BY IInvImplies
<1> QED  BY <1>1, AlwaysIInv, PTL

\* A neighbour is struck off the list of a queued data packet only if the
\* packet reached its application or was its own, whatever is lost, repeated,
\* entered for the wrong packet or cut short by a crash.
THEOREM AcknowledgedWasSeen == Spec => []AckedWasSeen
<1>1. IInv => AckedWasSeen  BY IInvImplies
<1> QED  BY <1>1, AlwaysIInv, PTL

\* No lost wake-up: a queued packet always has its timer pending.
THEOREM NoPacketStalls == Spec => []NoStalledPacket
<1>1. ASSUME QInv PROVE NoStalledPacket
  <2> SUFFICES ASSUME NEW n \in Node
               PROVE  /\ DataPositions(n) # {} => ec[n].data_timer
                      /\ AckPositions(n) # {} => ec[n].ack_timer
    BY DEF NoStalledPacket
  <2>1. Awake(ec[n].sq.queued, Pending(ec[n]))  BY <1>1 DEF QInv, Sound
  <2>2. ASSUME NEW i \in DataPositions(n) PROVE ec[n].data_timer
    <3>1. NEIGHBOR_DATA \in Pending(ec[n])
      BY <2>1 DEF DataPositions, OfType, Awake, Timed
    <3> QED  BY <3>1 DEF Pending, NEIGHBOR_ACK, NEIGHBOR_DATA
  <2>3. ASSUME NEW i \in AckPositions(n) PROVE ec[n].ack_timer
    <3>1. NEIGHBOR_ACK \in Pending(ec[n])
      BY <2>1 DEF AckPositions, OfType, Awake, Timed
    <3> QED  BY <3>1 DEF Pending, NEIGHBOR_ACK, NEIGHBOR_DATA
  <2> QED  BY <2>2, <2>3
<1> QED  BY <1>1, AlwaysQInv, PTL

\* Stop and wait: behind the first data packet of a queue none was sent yet.
THEOREM OneIsSentAtATime == Spec => []OnlyFirstSent
<1>1. QInv => OnlyFirstSent
  BY DEF QInv, Sound, SoundQueue, OnlyFirstSent, DataPositions, OfType
<1> QED  BY <1>1, AlwaysQInv, PTL

\* The code's assertion that a retransmission has a receiver never fails.
THEOREM SomeoneIsWaitedFor == Spec => []DataWaitsForSomeone
<1>1. QInv => DataWaitsForSomeone
  BY DEF QInv, Sound, SoundQueue, DataWaitsForSomeone, DataPositions, OfType
<1> QED  BY <1>1, AlwaysQInv, PTL

\* A node is handed another copy of a packet only after so many other packets,
\* its own included, that the duplicate queue has no place left for its key.
THEOREM CopiesAreFarApart ==
  Spec => [](\A m \in Node : FarApart(log[m], ec[m].seqno))
<1>1. RInv => \A m \in Node : FarApart(log[m], ec[m].seqno)  BY DEF RInv
<1> QED  BY <1>1, AlwaysRInv, PTL

\* While no more packets went through the nodes than their duplicate queues
\* hold, no packet is handed to an application twice, in whatever copies, from
\* whichever neighbours and in whatever order it arrives.
THEOREM ReceivedOnce == Spec => [](NothingForgotten => DeliveredOnce)
<1>1. ASSUME IInv, RInv, NothingForgotten PROVE DeliveredOnce
  <2> SUFFICES ASSUME NEW m \in Node, NEW i \in DOMAIN log[m], NEW j \in DOMAIN log[m],
                      KeyOf(log[m][i]) = KeyOf(log[m][j]), i < j
               PROVE  FALSE
    <3>1. \A m \in Node : DOMAIN log[m] \subseteq Nat
      BY <1>1, LenProperties DEF IInv, RestInv
    <3>2. \A a, b \in Nat : a < b \/ b < a \/ a = b  OBVIOUS
    <3> QED  BY <3>1, <3>2 DEF DeliveredOnce, SameMessage
  <2>1. /\ Len(log[m]) \in Nat /\ DOMAIN log[m] = 1..Len(log[m])
        /\ ec[m].seqno \in Nat
    <3>1. log[m] \in Seq(Packet)  BY <1>1 DEF IInv, RestInv
    <3>2. ec[m].seqno \in 0..255  BY <1>1 DEF IInv, EcInv, EcRecord
    <3>3. Len(log[m]) \in Nat /\ DOMAIN log[m] = 1..Len(log[m])
      BY <3>1, LenProperties
    <3>4. ec[m].seqno \in Nat
      <4> DEFINE s == ec[m].seqno
      <4>1. s \in 0..255  BY <3>2
      <4> HIDE DEF s
      <4>2. s \in Nat  BY <4>1
      <4> QED  BY <4>2 DEF s
    <3> QED  BY <3>3, <3>4
  <2>2. j - i + ec[m].seqno > DupeQueueLength
    BY <1>1, <2>1 DEF RInv, FarApart
  <2>3. Len(log[m]) + ec[m].seqno <= DupeQueueLength
    BY <1>1 DEF NothingForgotten
  <2> QED  BY <2>1, <2>2, <2>3, NeighborConnAssumption
<1> QED  BY <1>1, AlwaysRInv, PTL

\* What a node, or the sink, makes and sends arrives from it in the order of
\* its numbers, in any network and whatever is lost, repeated or given up.
THEOREM DeliversInOrder == Spec => []DeliveredInOrder
<1>1. OInv => DeliveredInOrder  BY DEF OInv
<1> QED  BY <1>1, AlwaysOInv, PTL

\* As long as no node has lost power, a packet that leaves a queue because all
\* neighbours acknowledged it was handed to the application of each of them, or
\* made there.  After a crash numbers are used again, and it need not be so.
THEOREM ConfirmedUntilCrash ==
  Spec => [][FirstLives => \A n \in Node : Handle(n) =>
               \A p \in Leaving(n) : \A m \in Neighbors[n] :
                 \/ p.originator = m
                 \/ \E j \in DOMAIN log[m] : SameMessage(log[m][j], p)]_vars
<1>1. ASSUME IInv, FirstLives => CInv, [Next]_vars, FirstLives,
             NEW n \in Node, Handle(n), NEW p \in Leaving(n), NEW m \in Neighbors[n]
      PROVE  \/ p.originator = m
             \/ \E j \in DOMAIN log[m] : SameMessage(log[m][j], p)
  BY <1>1, ConfirmedStep
<1>2. IInv /\ (FirstLives => CInv) /\ [Next]_vars =>
        (FirstLives => \A n \in Node : Handle(n) =>
           \A p \in Leaving(n) : \A m \in Neighbors[n] :
             \/ p.originator = m
             \/ \E j \in DOMAIN log[m] : SameMessage(log[m][j], p))
  BY <1>1
<1> QED  BY <1>2, AlwaysCInv, PTL DEF Spec

\* Where no node ever loses power, what was confirmed was delivered.
THEOREM ConfirmedIsDelivered ==
  ASSUME Crashers = {} \/ MaxCrashes = 0
  PROVE  Spec => ConfirmedWasDelivered
<1>1. Spec => []FirstLives  BY AlwaysFirstLives
<1> QED  BY <1>1, ConfirmedUntilCrash, PTL DEF ConfirmedWasDelivered

\* The log of a node grows only when it takes a new packet, and that never adds
\* to a full buffer: the three places the code asks for are enough.
LEMMA ReservedRoomStep ==
  IInv /\ QInv /\ [Next]_vars =>
    [\A n \in Node : Len(log'[n]) > Len(log[n]) =>
       ec'[n].sq.null_write = ec[n].sq.null_write]_vars
<1> SUFFICES ASSUME IInv, QInv, [Next]_vars,
                    NEW n \in Node, Len(log'[n]) > Len(log[n])
             PROVE  ec'[n].sq.null_write = ec[n].sq.null_write
  OBVIOUS
<1>0. log \in [Node -> Seq(Packet)]  BY DEF IInv, RestInv
<1>1. log'[n] # log[n]
  <2>1. Len(log[n]) \in Nat  BY <1>0, LenProperties
  <2> QED  BY <2>1
<1>2. ASSUME NEW m \in Node, RecvNewData(m) \/ RecvFromSink(m), m # n
      PROVE  log'[n] = log[n]
  BY <1>2, <1>0 DEF RecvNewData, RecvFromSink, Deliver
<1>3. ASSUME NEW m \in Node, Crash(m) PROVE FALSE
  <2>1. log' = [log EXCEPT ![m] = << >>]  BY <1>3 DEF Crash
  <2>2. log'[n] = << >>  BY <2>1, <1>0, <1>1
  <2>3. Len(log[n]) \in Nat /\ Len(<< >>) = 0  BY <1>0, LenProperties, EmptySeq
  <2> QED  BY <2>2, <2>3
<1>4. ASSUME NEW m \in Node, Recv(m), ~RecvNewData(m), ~RecvFromSink(m) PROVE FALSE
  BY <1>1, <1>4
     DEF Recv, RecvNotForUs, RecvAck, RecvAckForNonSentPacket, RecvDupe,
         RecvDataOverflow
<1>5. ASSUME NEW m \in Node,
             SendData(m) \/ SendAck(m) \/ AppBroadcast(m) \/ Restart(m)
      PROVE  FALSE
  BY <1>1, <1>5
     DEF SendData, NoDataToSend, SendFirstData, GiveUpFirstData, DataTimerFires,
         SendAck, NoAckToSend, SendFirstAck, AckTimerFires, AppBroadcast, Restart
<1>6. ~SinkBroadcast /\ ~UNCHANGED vars  BY <1>1 DEF SinkBroadcast, vars
<1>7. PICK m \in Node : RecvNewData(m) \/ RecvFromSink(m)
  BY <1>3, <1>4, <1>5, <1>6 DEF Next
<1>8. m = n  BY <1>1, <1>2, <1>7
<1> QED  BY <1>7, <1>8, RecvNewDataQInv, RecvFromSinkQInv

\* Handing a new packet to the application, with its forward, its reply and the
\* ACK, never writes through the null pointer of a full buffer.
THEOREM ReservedRoomIsEnough == Spec => ReservedRoomSuffices
BY ReservedRoomStep, AlwaysQInv, PTL DEF Spec, ReservedRoomSuffices

\* The neighbour connection implements the reliable broadcast: a packet stays
\* outstanding until every neighbour knows it, it is the oldest and was sent
\* MaxTimesSent times, or its sender loses power; nobody learns of a packet
\* that nobody originated.
THEOREM KeepsThePromise == Spec => ImplementsReliableBroadcast
<1>1. Spec => Reliable!Init /\ [][Reliable!Next]_(Reliable!vars)
  BY AlwaysQInv, InitRefines, NextRefines, PTL DEF Spec
<1> QED  BY <1>1 DEF ImplementsReliableBroadcast, Reliable!Spec

=============================================================================
