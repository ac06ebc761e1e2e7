------------------------- MODULE EmergencyConnProofs -------------------------
(***************************************************************************)
(* Proofs about EmergencyConn, for every network: the types, that a        *)
(* multicast leaves its queue only when everyone it names was handed it    *)
(* (ConfirmedWasHanded), that no report waits for nothing                  *)
(* (ReportNotStranded), and where floods have been when none is under way  *)
(* (FloodsAreSent, FloodsReach).                                           *)
(***************************************************************************)
EXTENDS EmergencyConn, PacketBufferProofs

-----------------------------------------------------------------------------
(* The invariant.  h says which keys each node was handed.                 *)

HandedKeys == [m \in Node |-> ToSet(handed[m])]

Histories == [Node -> SUBSET Key]

\* Broadcasts, which go to all nodes;
GoodBroadcast(p) ==
  p.to = Node /\ p.data \in {EMERGENCY_PACKET, EXTRACT_REPORT_PACKET}

\* multicasts of node n, never to itself;
GoodMulticast(n, p) ==
  /\ p.originator = n /\ p.sender = n /\ n \notin p.to
  /\ p.data = IM_YOUR_NEW_NEIGHBOR

\* and node n's acknowledgements, which say that it was handed the packet.
GoodAck(n, p, h) == p.sender = n /\ KeyOf(p) \in h[n]

\* What is in the queue of node n: who is struck off a multicast was handed it.
GoodEntry(n, b, h) ==
  \/ /\ b.type = BROADCAST_DATA /\ ~b.p.ack /\ b.p.originator \in Node
     /\ GoodBroadcast(b.p)
  \/ /\ b.type = MULTICAST_UNICAST_DATA /\ ~b.p.ack
     /\ GoodMulticast(n, b.p) /\ b.unacked_ns \subseteq b.p.to
     /\ \A m \in b.p.to \ b.unacked_ns : KeyOf(b.p) \in h[m]
  \/ /\ b.type = MULTICAST_UNICAST_ACK /\ b.p.ack /\ b.p.originator \in Node
     /\ GoodAck(n, b.p, h)
  \/ b.type = MESH_DATA

GoodEntries(n, h) == {b \in BufferedPacket : GoodEntry(n, b, h)}

\* Only the first report was tried, and what is no report is not counted.
TriedInOrder(pb) ==
  /\ \A i \in DOMAIN pb.queued : pb.queued[i].type # MESH_DATA => pb.queued[i].times_sent = 0
  /\ \A i, j \in OfType(pb, MESH_DATA) : i < j => pb.queued[j].times_sent = 0

\* What a node remembers as duplicates it was handed, or is its own.
KnownKeys(n, h) == {key \in Key : key[1] = n \/ key \in h[n]}

\* A sending queue of node n.
Buffers(n, h) == {pb \in BufferOf(GoodEntries(n, h)) : TriedInOrder(pb)}

Records(n, h) ==
  [sq : Buffers(n, h), dq : Seq(KnownKeys(n, h)), ns : SUBSET Node, seqno : 0..255,
   broadcast_timer : BOOLEAN, data_timer : BOOLEAN, ack_timer : BOOLEAN, mesh_timer : BOOLEAN]

IInv ==
  /\ ec \in [Node -> EcRecord] /\ \A n \in Node : ec[n] \in Records(n, HandedKeys)
  /\ mesh \in [Node -> [route : BOOLEAN, queued_data : BOOLEAN]]
  /\ failed \subseteq Node
  /\ losses \in 0..MaxLosses
  /\ floods \subseteq Key
  /\ handed \in [Node -> Seq(Key)]
  /\ missed \in [Node -> SUBSET Key]
  /\ ReportNotStranded

-----------------------------------------------------------------------------
(* More is handed, and what was good stays so.                             *)

Grows(h, h2) == \A m \in Node : h[m] \subseteq h2[m]

LEMMA EntriesMonotonic ==
  ASSUME NEW n \in Node, NEW h \in Histories, NEW h2 \in Histories, Grows(h, h2)
  PROVE  GoodEntries(n, h) \subseteq GoodEntries(n, h2) /\ KnownKeys(n, h) \subseteq KnownKeys(n, h2)
<1>1. KnownKeys(n, h) \subseteq KnownKeys(n, h2)
  BY DEF KnownKeys, Grows
<1>2. ASSUME NEW b \in BufferedPacket, GoodEntry(n, b, h) PROVE GoodEntry(n, b, h2)
  <2>0. b.p.to \subseteq Node
    BY DEF BufferedPacket, Packet
  <2>1. CASE /\ b.type = MULTICAST_UNICAST_DATA /\ ~b.p.ack
             /\ GoodMulticast(n, b.p) /\ b.unacked_ns \subseteq b.p.to
             /\ \A m \in b.p.to \ b.unacked_ns : KeyOf(b.p) \in h[m]
    <3>1. \A m \in b.p.to \ b.unacked_ns : KeyOf(b.p) \in h2[m]
      BY <2>0, <2>1 DEF Grows
    <3> QED BY <2>1, <3>1 DEF GoodEntry
  <2>2. CASE /\ b.type = MULTICAST_UNICAST_ACK /\ b.p.ack /\ b.p.originator \in Node
             /\ GoodAck(n, b.p, h)
    <3>1. GoodAck(n, b.p, h2)
      BY <2>2 DEF GoodAck, Grows
    <3> QED BY <2>2, <3>1 DEF GoodEntry
  <2> QED BY <1>2, <2>1, <2>2 DEF GoodEntry
<1> QED BY <1>1, <1>2 DEF GoodEntries

LEMMA RecordsMonotonic ==
  ASSUME NEW n \in Node, NEW h \in Histories, NEW h2 \in Histories, Grows(h, h2),
         NEW c \in Records(n, h)
  PROVE  c \in Records(n, h2)
<1>1. GoodEntries(n, h) \subseteq GoodEntries(n, h2) /\ KnownKeys(n, h) \subseteq KnownKeys(n, h2)
  BY EntriesMonotonic
<1>2. c.sq \in Buffers(n, h2)
  <2>1. c.sq \in BufferOf(GoodEntries(n, h)) /\ TriedInOrder(c.sq)
    BY DEF Records, Buffers
  <2> QED BY <1>1, <2>1, BufferOfMonotonic DEF Buffers
<1>3. c.dq \in Seq(KnownKeys(n, h2))
  <2>1. c.dq \in Seq(KnownKeys(n, h))
    BY DEF Records
  <2> QED BY <1>1, <2>1, SeqMonotonic
<1> QED BY <1>2, <1>3 DEF Records

-----------------------------------------------------------------------------
(* The operations of PacketBuffer.                                         *)

Reports(pb) == OfType(pb, MESH_DATA) # {}

Multicasts(pb) == {pb.queued[i].p : i \in OfType(pb, MULTICAST_UNICAST_DATA)}

\* The multicasts that leave a queue were handed to all they name.
Confirmed(pb, pb2, h) ==
  \A p \in Multicasts(pb) \ Multicasts(pb2) : \A m \in p.to : KeyOf(p) \in h[m]

LEMMA TypesDiffer ==
  /\ MESH_DATA # MULTICAST_UNICAST_DATA /\ MESH_DATA # MULTICAST_UNICAST_ACK
  /\ MESH_DATA # BROADCAST_DATA /\ MULTICAST_UNICAST_DATA # MULTICAST_UNICAST_ACK
  /\ MULTICAST_UNICAST_DATA # BROADCAST_DATA /\ MULTICAST_UNICAST_ACK # BROADCAST_DATA
  /\ {BROADCAST_DATA, MULTICAST_UNICAST_ACK, MULTICAST_UNICAST_DATA, MESH_DATA} \subseteq PacketType
  /\ PacketType \subseteq Nat
  BY DEF MESH_DATA, MULTICAST_UNICAST_DATA, MULTICAST_UNICAST_ACK, BROADCAST_DATA, PacketType

\* The first position of a type.
LEMMA EntryAt ==
  ASSUME NEW n \in Node, NEW h \in Histories, NEW pb \in Buffers(n, h), NEW i \in DOMAIN pb.queued
  PROVE  /\ pb.queued[i] \in GoodEntries(n, h) /\ pb.queued[i] \in BufferedPacket
         /\ GoodEntry(n, pb.queued[i], h) /\ pb.queued[i].p \in Packet
         /\ DOMAIN pb.queued = 1..Len(pb.queued) /\ Len(pb.queued) \in Nat
<1>1. pb \in BufferOf(GoodEntries(n, h))
  BY DEF Buffers
<1>2. pb.queued[i] \in GoodEntries(n, h)
  BY <1>1, BufferElement
<1>3. pb.queued \in Seq(GoodEntries(n, h))
  BY <1>1 DEF BufferOf
<1> QED BY <1>2, <1>3, LenProperties DEF GoodEntries, BufferedPacket

\* A packet is added, if there is room.
LEMMA AddGood ==
  ASSUME NEW n \in Node, NEW h \in Histories, NEW g, NEW pb \in Buffers(n, h),
         NEW type, NEW p, NEW ns,
         [type |-> type, p |-> p, unacked_ns |-> ns, times_sent |-> 0] \in GoodEntries(n, h),
         NEW pb2, pb2 = AddPacket(pb, type, p, ns)
  PROVE  /\ pb2 \in Buffers(n, h) /\ Confirmed(pb, pb2, g)
         /\ Reports(pb2) => Reports(pb) \/ type = MESH_DATA
<1> DEFINE S == GoodEntries(n, h)
           b == [type |-> type, p |-> p, unacked_ns |-> ns, times_sent |-> 0]
<1>1. pb \in BufferOf(S) /\ TriedInOrder(pb)
  BY DEF Buffers
<1>2. pb2 \in BufferOf(S)
  BY <1>1, AddPacketProperties
<1>3. CASE Full(pb)
  <2>1. pb2.queued = pb.queued
    BY <1>1, <1>3 DEF AddPacket, BufferOf
  <2>2. TriedInOrder(pb2)
    BY <1>1, <2>1 DEF TriedInOrder, OfType
  <2> QED BY <1>2, <2>1, <2>2 DEF Buffers, Confirmed, Multicasts, Reports, OfType
<1>4. CASE ~Full(pb)
  <2> DEFINE q == pb.queued
             q2 == pb2.queued
  <2>1. /\ Len(q) \in Nat /\ DOMAIN q = 1..Len(q) /\ DOMAIN q2 = 1..(Len(q) + 1)
        /\ q2[Len(q) + 1] = b /\ \A i \in 1..Len(q) : q2[i] = q[i]
    BY <1>1, <1>4, AddPacketPositions
  <2>2. b.type = type /\ b.times_sent = 0
    OBVIOUS
  <2> HIDE DEF q, q2, b
  <2>3. \A i \in DOMAIN q2 : i \in DOMAIN q \/ i = Len(q) + 1
    BY <2>1
  <2>4. \A i \in DOMAIN q : i \in DOMAIN q2 /\ q2[i] = q[i] /\ i < Len(q) + 1 /\ i \in Nat
    BY <2>1
  <2>5. TriedInOrder(pb2)
    <3>1. \A i \in DOMAIN q2 : q2[i].type # MESH_DATA => q2[i].times_sent = 0
      BY <1>1, <2>1, <2>2, <2>3, <2>4 DEF TriedInOrder, q
    <3>2. ASSUME NEW i \in DOMAIN q2, NEW j \in DOMAIN q2, i < j,
                 q2[i].type = MESH_DATA, q2[j].type = MESH_DATA
          PROVE  q2[j].times_sent = 0
      <4>1. CASE j = Len(q) + 1
        BY <2>1, <2>2, <4>1
      <4>2. CASE j \in DOMAIN q
        <5>1. i \in DOMAIN q
          BY <2>1, <3>2, <4>2
        <5>2. q[j].times_sent = 0
          BY <1>1, <2>4, <3>2, <4>2, <5>1 DEF TriedInOrder, OfType, q
        <5> QED BY <2>4, <4>2, <5>2
      <4> QED BY <2>3, <4>1, <4>2
    <3> QED BY <3>1, <3>2 DEF TriedInOrder, OfType, q2
  <2>6. Multicasts(pb) \subseteq Multicasts(pb2)
    BY <2>4 DEF Multicasts, OfType, q, q2
  <2>7. Reports(pb2) => Reports(pb) \/ type = MESH_DATA
    <3> SUFFICES ASSUME Reports(pb2), type # MESH_DATA PROVE Reports(pb)
      OBVIOUS
    <3>1. PICK i \in DOMAIN q2 : q2[i].type = MESH_DATA
      BY DEF Reports, OfType, q2
    <3>2. i \in DOMAIN q
      BY <2>1, <2>2, <2>3, <3>1
    <3> QED BY <2>4, <3>1, <3>2 DEF Reports, OfType, q
  <2> QED BY <1>2, <2>5, <2>6, <2>7 DEF Buffers, Confirmed
<1> QED BY <1>3, <1>4

LEMMA AddUntrackedGood ==
  ASSUME NEW n \in Node, NEW h \in Histories, NEW g, NEW pb \in Buffers(n, h), NEW type, NEW p,
         \A ns \in SUBSET Node :
           [type |-> type, p |-> p, unacked_ns |-> ns, times_sent |-> 0] \in GoodEntries(n, h),
         NEW pb2, pb2 = AddUntrackedPacket(pb, type, p)
  PROVE  /\ pb2 \in Buffers(n, h) /\ Confirmed(pb, pb2, g)
         /\ Reports(pb2) => Reports(pb) \/ type = MESH_DATA
<1>1. pb \in BufferOf(GoodEntries(n, h)) /\ pb.leftover \in Seq(SUBSET Node)
  BY DEF Buffers, BufferOf
<1>2. CASE Full(pb)
  <2>1. PICK ns \in SUBSET Node : ns = {}
    OBVIOUS
  <2>2. pb2 = AddPacket(pb, type, p, ns)
    BY <1>2 DEF AddUntrackedPacket, AddPacket
  <2>3. [type |-> type, p |-> p, unacked_ns |-> ns, times_sent |-> 0] \in GoodEntries(n, h)
    OBVIOUS
  <2> QED BY <2>2, <2>3, AddGood
<1>3. CASE ~Full(pb)
  <2>1. Head(pb.leftover) \in SUBSET Node
    BY <1>1, <1>3, HeadTailProperties DEF Full
  <2>2. PICK ns \in SUBSET Node : ns = Head(pb.leftover)
    BY <2>1
  <2>3. pb2 = AddPacket(pb, type, p, ns)
    BY <1>3, <2>2 DEF AddUntrackedPacket
  <2>4. [type |-> type, p |-> p, unacked_ns |-> ns, times_sent |-> 0] \in GoodEntries(n, h)
    OBVIOUS
  <2> QED BY <2>3, <2>4, AddGood
<1> QED BY <1>2, <1>3

\* A packet is freed; a multicast only if it was handed to all it names.
LEMMA FreeGood ==
  ASSUME NEW n \in Node, NEW h \in Histories, NEW g, NEW pb \in Buffers(n, h),
         NEW i \in DOMAIN pb.queued,
         pb.queued[i].type = MULTICAST_UNICAST_DATA =>
           \A m \in pb.queued[i].p.to : KeyOf(pb.queued[i].p) \in g[m],
         NEW pb2, pb2 = FreePacket(pb, i)
  PROVE  /\ pb2 \in Buffers(n, h) /\ Confirmed(pb, pb2, g)
         /\ Reports(pb2) => Reports(pb)
<1> DEFINE S == GoodEntries(n, h)
           q == pb.queued
           q2 == pb2.queued
<1>1. pb \in BufferOf(S) /\ TriedInOrder(pb)
  BY DEF Buffers
<1>2. pb2 \in BufferOf(S)
  <2>1. \A b \in S : b.unacked_ns \in SUBSET Node
    BY DEF GoodEntries, BufferedPacket
  <2> QED BY <1>1, <2>1, FreePacketProperties
<1>3. /\ Len(q) \in Nat /\ DOMAIN q = 1..Len(q) /\ i \in 1..Len(q)
      /\ DOMAIN q2 = 1..(Len(q) - 1)
      /\ \A j \in 1..(Len(q) - 1) : q2[j] = IF j < i THEN q[j] ELSE q[j + 1]
  BY <1>1, FreePacketPositions
<1> HIDE DEF q, q2
<1>4. \A j \in DOMAIN q2 :
        /\ j < i => j \in DOMAIN q /\ q2[j] = q[j]
        /\ ~(j < i) => j + 1 \in DOMAIN q /\ q2[j] = q[j + 1]
  BY <1>3
<1>5. \A j \in DOMAIN q :
        \/ j < i /\ j \in DOMAIN q2 /\ q2[j] = q[j]
        \/ j = i
        \/ j > i /\ j - 1 \in DOMAIN q2 /\ q2[j - 1] = q[j]
  BY <1>3
<1>6. TriedInOrder(pb2)
  <2>1. \A j \in DOMAIN q2 : q2[j].type # MESH_DATA => q2[j].times_sent = 0
    BY <1>1, <1>4 DEF TriedInOrder, q
  <2>2. ASSUME NEW j \in DOMAIN q2, NEW k \in DOMAIN q2, j < k,
               q2[j].type = MESH_DATA, q2[k].type = MESH_DATA
        PROVE  q2[k].times_sent = 0
    <3>1. PICK j2 \in DOMAIN q : q[j2] = q2[j] /\ (j2 = j \/ (j2 = j + 1 /\ ~(j < i)))
      BY <1>4
    <3>2. PICK k2 \in DOMAIN q : q[k2] = q2[k] /\ ((k2 = k /\ k < i) \/ k2 = k + 1)
      BY <1>4
    <3>3. j2 < k2
      BY <1>3, <2>2, <3>1, <3>2
    <3> QED BY <1>1, <2>2, <3>1, <3>2, <3>3 DEF TriedInOrder, OfType, q
  <2> QED BY <2>1, <2>2 DEF TriedInOrder, OfType, q2
<1>7. Confirmed(pb, pb2, g)
  <2> SUFFICES ASSUME NEW p \in Multicasts(pb), p \notin Multicasts(pb2)
               PROVE  \A m \in p.to : KeyOf(p) \in g[m]
    BY DEF Confirmed
  <2>1. PICK j \in DOMAIN q : q[j].type = MULTICAST_UNICAST_DATA /\ q[j].p = p
    BY DEF Multicasts, OfType, q
  <2>2. \A k \in DOMAIN q2 : q2[k] # q[j]
    BY <2>1 DEF Multicasts, OfType, q2
  <2>3. j = i
    BY <1>5, <2>2
  <2> QED BY <2>1, <2>3 DEF q
<1>8. Reports(pb2) => Reports(pb)
  <2> SUFFICES ASSUME NEW j \in DOMAIN q2, q2[j].type = MESH_DATA
               PROVE  \E k \in DOMAIN q : q[k].type = MESH_DATA
    BY DEF Reports, OfType, q, q2
  <2> QED BY <1>4
<1> QED BY <1>2, <1>6, <1>7, <1>8 DEF Buffers

\* A packet is rewritten in place, neither its header nor how often it was sent.
LEMMA RewriteGood ==
  ASSUME NEW n \in Node, NEW h \in Histories, NEW g, NEW pb \in Buffers(n, h),
         NEW i \in DOMAIN pb.queued, NEW b \in GoodEntries(n, h),
         b.p = pb.queued[i].p, b.type = pb.queued[i].type,
         b.times_sent = pb.queued[i].times_sent \/ i \in FirstOfType(pb, MESH_DATA),
         NEW pb2, pb2 = [pb EXCEPT !.queued[i] = b]
  PROVE  /\ pb2 \in Buffers(n, h) /\ Confirmed(pb, pb2, g)
         /\ Reports(pb2) <=> Reports(pb)
         /\ DOMAIN pb2.queued = DOMAIN pb.queued /\ pb2.queued[i] = b
<1> DEFINE S == GoodEntries(n, h)
           q == pb.queued
           q2 == pb2.queued
<1>1. pb \in BufferOf(S) /\ TriedInOrder(pb)
  BY DEF Buffers
<1>2. pb2 \in BufferOf(S) /\ DOMAIN q2 = DOMAIN q
  BY <1>1, UpdatePacketProperties
<1>3. q2[i] = b /\ \A j \in DOMAIN q : j # i => q2[j] = q[j]
  BY <1>1 DEF BufferOf
<1> HIDE DEF q2
<1>4. \A j \in DOMAIN q2 : q2[j].type = q[j].type /\ q2[j].p = q[j].p
  BY <1>2, <1>3
<1>5. OfType(pb2, MESH_DATA) = OfType(pb, MESH_DATA)
  BY <1>2, <1>4 DEF OfType, q2
<1>6. Multicasts(pb2) = Multicasts(pb)
  BY <1>2, <1>4 DEF Multicasts, OfType, q2
<1>7. TriedInOrder(pb2)
  <2>1. CASE b.times_sent = pb.queued[i].times_sent
    <3>1. \A j \in DOMAIN q2 : q2[j].times_sent = q[j].times_sent
      BY <1>2, <1>3, <2>1
    <3> QED BY <1>1, <1>2, <1>4, <1>5, <3>1 DEF TriedInOrder, OfType, q2
  <2>2. CASE i \in FirstOfType(pb, MESH_DATA)
    <3>1. i \in OfType(pb, MESH_DATA) /\ \A j \in OfType(pb, MESH_DATA) : i <= j
      BY <2>2, TypesDiffer, FirstOfTypeLeast
    <3>2. \A j \in OfType(pb, MESH_DATA) : j \in Nat /\ j \in DOMAIN q
      BY EntryAt DEF OfType
    <3>3. \A j \in DOMAIN q2 : q2[j].type # MESH_DATA => q2[j].times_sent = 0
      BY <1>1, <1>2, <1>3, <1>4, <3>1 DEF TriedInOrder, OfType
    <3>4. ASSUME NEW j \in OfType(pb2, MESH_DATA), NEW k \in OfType(pb2, MESH_DATA), j < k
          PROVE  q2[k].times_sent = 0
      <4>1. i # k /\ k \in DOMAIN q
        BY <1>5, <3>1, <3>2, <3>4
      <4>2. q[k].times_sent = 0
        BY <1>1, <1>5, <3>4 DEF TriedInOrder
      <4> QED BY <1>3, <4>1, <4>2
    <3> QED BY <3>3, <3>4 DEF TriedInOrder, q2
  <2> QED BY <2>1, <2>2
<1> QED BY <1>2, <1>3, <1>5, <1>6, <1>7 DEF Buffers, Confirmed, Reports, q2

\* Node m, which was handed the packet, acknowledges it.
LEMMA AckedGood ==
  ASSUME NEW n \in Node, NEW h \in Histories, NEW g, NEW pb \in Buffers(n, h),
         NEW i \in DOMAIN pb.queued, NEW m \in Node, KeyOf(pb.queued[i].p) \in h[m],
         NEW pb2, pb2 = NeighborAcked(pb, i, m)
  PROVE  /\ pb2 \in Buffers(n, h) /\ Confirmed(pb, pb2, g)
         /\ Reports(pb2) <=> Reports(pb)
         /\ i \in DOMAIN pb2.queued
<1> DEFINE b == pb.queued[i]
<1>1. b \in BufferedPacket /\ GoodEntry(n, b, h)
  BY EntryAt
<1> HIDE DEF b
<1>2. PICK ns \in SUBSET Node : ns = b.unacked_ns \ {m}
  BY <1>1 DEF BufferedPacket
<1> DEFINE b2 == [b EXCEPT !.unacked_ns = ns]
<1>3. /\ b2 \in BufferedPacket /\ b2.p = b.p /\ b2.type = b.type /\ b2.times_sent = b.times_sent
      /\ b2.unacked_ns = ns
  BY <1>1, <1>2 DEF BufferedPacket
<1>4. pb2 = [pb EXCEPT !.queued[i] = b2]
  BY <1>2 DEF NeighborAcked, b
<1> HIDE DEF b2
<1>5. GoodEntry(n, b2, h)
  <2>1. CASE b.type = MULTICAST_UNICAST_DATA
    <3>1. /\ ~b.p.ack /\ GoodMulticast(n, b.p) /\ b.unacked_ns \subseteq b.p.to
          /\ \A x \in b.p.to \ b.unacked_ns : KeyOf(b.p) \in h[x]
      BY <1>1, <2>1, TypesDiffer DEF GoodEntry
    <3>2. \A x \in b.p.to \ ns : KeyOf(b.p) \in h[x]
      BY <1>2, <3>1 DEF b
    <3> QED BY <1>2, <1>3, <2>1, <3>1, <3>2 DEF GoodEntry
  <2>2. CASE b.type # MULTICAST_UNICAST_DATA
    BY <1>1, <1>3, <2>2 DEF GoodEntry
  <2> QED BY <2>1, <2>2
<1>6. b2 \in GoodEntries(n, h)
  BY <1>3, <1>5 DEF GoodEntries
<1>7. b2.p = pb.queued[i].p /\ b2.type = pb.queued[i].type /\ b2.times_sent = pb.queued[i].times_sent
  BY <1>3 DEF b
<1> QED BY <1>4, <1>6, <1>7, RewriteGood

\* The first report is tried once more.
LEMMA IncrementGood ==
  ASSUME NEW n \in Node, NEW h \in Histories, NEW g, NEW pb \in Buffers(n, h),
         NEW i \in FirstOfType(pb, MESH_DATA), pb.queued[i].times_sent < MaxTimesSentMesh,
         NEW pb2, pb2 = IncrementTimesSent(pb, i)
  PROVE  /\ pb2 \in Buffers(n, h) /\ Confirmed(pb, pb2, g)
         /\ Reports(pb2) <=> Reports(pb)
<1> DEFINE b == pb.queued[i]
<1>0. i \in DOMAIN pb.queued /\ b.type = MESH_DATA
  BY FirstOfPositions DEF FirstOfType, OfType
<1>1. b \in BufferedPacket
  BY <1>0, EntryAt
<1>2. b.times_sent < MaxTimesSentMesh /\ MaxTimesSentMesh \in Nat
  BY EmergencyConnAssumption
<1> HIDE DEF b
<1>3. PICK k \in 0..MaxTimesSentMesh : k = b.times_sent + 1
  <2>1. b.times_sent \in 0..MaxTimesSentMesh
    BY <1>1 DEF BufferedPacket
  <2>2. b.times_sent + 1 \in 0..MaxTimesSentMesh
    BY <1>2, <2>1
  <2> QED BY <2>2, Zenon
<1> DEFINE b2 == [b EXCEPT !.times_sent = k]
<1>4. b2 \in BufferedPacket /\ b2.p = b.p /\ b2.type = b.type
  BY <1>1 DEF BufferedPacket
<1>5. pb2 = [pb EXCEPT !.queued[i] = b2]
  BY <1>3 DEF IncrementTimesSent, b
<1> HIDE DEF b2
<1>6. b2 \in GoodEntries(n, h)
  BY <1>0, <1>4 DEF GoodEntries, GoodEntry
<1>7. b2.p = pb.queued[i].p /\ b2.type = pb.queued[i].type
  BY <1>4 DEF b
<1> QED BY <1>0, <1>5, <1>6, <1>7, RewriteGood

-----------------------------------------------------------------------------
(* The operations on one node's struct ec.                                 *)

\* The record d of node n after c: it is good, a report that waits in it waited
\* before or the timer is set, and the multicasts that left are confirmed, by
\* what was handed as g says.
Follows(c, d, n, h, g) ==
  /\ d \in Records(n, h)
  /\ c.mesh_timer => d.mesh_timer
  /\ Reports(d.sq) => Reports(c.sq) \/ d.mesh_timer
  /\ Confirmed(c.sq, d.sq, g)

LEMMA FollowsItself ==
  ASSUME NEW n \in Node, NEW h \in Histories, NEW g, NEW c \in Records(n, h)
  PROVE  Follows(c, c, n, h, g)
BY DEF Follows, Confirmed

LEMMA FollowsOn ==
  ASSUME NEW n \in Node, NEW h \in Histories, NEW g, NEW c, NEW d, NEW e,
         Follows(c, d, n, h, g), Follows(d, e, n, h, g)
  PROVE  Follows(c, e, n, h, g)
<1>1. Confirmed(c.sq, e.sq, g)
  BY DEF Follows, Confirmed
<1> QED BY <1>1 DEF Follows

\* Only the sending queue and a timer other than the mesh's change.
LEMMA FollowsQueue ==
  ASSUME NEW n \in Node, NEW h \in Histories, NEW g, NEW c \in Records(n, h), NEW d \in Records(n, h),
         d.mesh_timer <=> c.mesh_timer, Reports(d.sq) => Reports(c.sq),
         Confirmed(c.sq, d.sq, g)
  PROVE  Follows(c, d, n, h, g)
BY DEF Follows

LEMMA SeqnoFits == ASSUME NEW k \in 0..255 PROVE (k + 1) % 256 \in 0..255
OBVIOUS

\* Remembering a key that the node was handed or that is its own.
LEMMA StoreFollows ==
  ASSUME NEW n \in Node, NEW h \in Histories, NEW g, NEW c \in Records(n, h),
         NEW key \in KnownKeys(n, h)
  PROVE  Follows(c, StorePacketForDupeChecks(c, key), n, h, g)
<1> DEFINE S == KnownKeys(n, h)
           d == c.dq
           kept == IF Len(d) < DupeQueueLength THEN d ELSE Front(d)
<1>1. d \in Seq(S) /\ Len(d) \in Nat
  BY LenProperties DEF Records
<1>2. DupeQueueLength \in 1..255
  BY EmergencyConnAssumption
<1>3. kept \in Seq(S)
  <2>1. CASE Len(d) < DupeQueueLength
    BY <2>1, <1>1
  <2>2. CASE ~(Len(d) < DupeQueueLength)
    <3>1. d # << >>
      BY <2>2, <1>1, <1>2, EmptySeq
    <3>2. Front(d) \in Seq(S)
      <4> HIDE DEF d, S
      <4> QED BY <3>1, <1>1, FrontProperties
    <3> QED BY <2>2, <3>2
  <2> QED BY <2>1, <2>2
<1> HIDE DEF kept
<1>4. PICK d2 \in Seq(S) : d2 = Cons(key, kept)
  <2> HIDE DEF S
  <2>1. key \in S
    BY DEF S
  <2> QED BY <2>1, <1>3, ConsProperties
<1>5. CASE Contains(c.dq, key)
  BY <1>5, FollowsItself DEF StorePacketForDupeChecks
<1>6. CASE ~Contains(c.dq, key)
  <2>1. PICK c2 : c2 = [c EXCEPT !.dq = d2]
    OBVIOUS
  <2>2. StorePacketForDupeChecks(c, key) = c2
    BY <1>4, <1>6, <2>1 DEF StorePacketForDupeChecks, kept
  <2>3. c2 \in Records(n, h) /\ c2.sq = c.sq /\ (c2.mesh_timer <=> c.mesh_timer)
    BY <2>1 DEF Records
  <2>4. Confirmed(c.sq, c2.sq, g)
    BY <2>3 DEF Confirmed
  <2> QED BY <2>2, <2>3, <2>4, FollowsQueue
<1> QED BY <1>5, <1>6

\* An entry that was just added.
LEMMA BroadcastEntry ==
  ASSUME NEW n \in Node, NEW h \in Histories, NEW ns \in SUBSET Node,
         NEW key \in Key, NEW data \in {EMERGENCY_PACKET, EXTRACT_REPORT_PACKET},
         NEW no \in BOOLEAN, ~no
  PROVE  [type |-> BROADCAST_DATA,
          p |-> [ack |-> no, originator |-> key[1], seqno |-> key[2],
                 sender |-> n, to |-> Node, data |-> data],
          unacked_ns |-> ns, times_sent |-> 0] \in GoodEntries(n, h)
<1> DEFINE p == [ack |-> no, originator |-> key[1], seqno |-> key[2],
                 sender |-> n, to |-> Node, data |-> data]
           b == [type |-> BROADCAST_DATA, p |-> p, unacked_ns |-> ns, times_sent |-> 0]
<1>1. /\ p \in Packet /\ p.to = Node /\ p.data = data /\ ~p.ack /\ p.originator \in Node
  BY DEF Packet, Key
<1> HIDE DEF p
<1>2. b \in BufferedPacket /\ b.type = BROADCAST_DATA /\ b.p = p
  BY <1>1, TypesDiffer, EmergencyConnAssumption DEF BufferedPacket
<1> HIDE DEF b
<1>3. b \in GoodEntries(n, h)
  BY <1>1, <1>2 DEF GoodEntries, GoodEntry, GoodBroadcast
<1> QED BY <1>3 DEF b, p

LEMMA MulticastEntry ==
  ASSUME NEW n \in Node, NEW h \in Histories, NEW ns \in SUBSET Node, n \notin ns,
         NEW key \in Key, key[1] = n,
         NEW no \in BOOLEAN, ~no
  PROVE  [type |-> MULTICAST_UNICAST_DATA,
          p |-> [ack |-> no, originator |-> key[1], seqno |-> key[2],
                 sender |-> n, to |-> ns, data |-> IM_YOUR_NEW_NEIGHBOR],
          unacked_ns |-> ns, times_sent |-> 0] \in GoodEntries(n, h)
<1> DEFINE p == [ack |-> no, originator |-> key[1], seqno |-> key[2],
                 sender |-> n, to |-> ns, data |-> IM_YOUR_NEW_NEIGHBOR]
           b == [type |-> MULTICAST_UNICAST_DATA, p |-> p, unacked_ns |-> ns, times_sent |-> 0]
<1>1. /\ p \in Packet /\ p.to = ns /\ p.data = IM_YOUR_NEW_NEIGHBOR /\ ~p.ack
      /\ p.originator = n /\ p.sender = n
  BY DEF Packet, Key
<1> HIDE DEF p
<1>2. /\ b \in BufferedPacket /\ b.type = MULTICAST_UNICAST_DATA /\ b.p = p
      /\ b.unacked_ns = ns
  BY <1>1, TypesDiffer, EmergencyConnAssumption DEF BufferedPacket
<1> HIDE DEF b
<1>3. b \in GoodEntries(n, h)
  BY <1>1, <1>2 DEF GoodEntries, GoodEntry, GoodMulticast
<1> QED BY <1>3 DEF b, p

LEMMA AckEntry ==
  ASSUME NEW n \in Node, NEW h \in Histories, NEW ns \in SUBSET Node,
         NEW f \in Packet, KeyOf(f) \in h[n], f.originator \in Node, f.sender \in Node
  PROVE  /\ [type |-> MULTICAST_UNICAST_ACK, p |-> AckPacket(n, f), unacked_ns |-> ns,
             times_sent |-> 0] \in GoodEntries(n, h)
<1> DEFINE p == AckPacket(n, f)
           b == [type |-> MULTICAST_UNICAST_ACK, p |-> p, unacked_ns |-> ns, times_sent |-> 0]
<1>1. PICK yes \in BOOLEAN : yes = TRUE
  BY Zenon
<1>2. p = [ack |-> yes, originator |-> f.originator, seqno |-> f.seqno, sender |-> n,
           to |-> {f.sender}, data |-> "none"]
  BY <1>1, Zenon DEF AckPacket
<1> HIDE DEF p
<1>3. /\ p \in Packet /\ p.ack /\ p.originator = f.originator /\ p.seqno = f.seqno
      /\ p.sender = n
  BY <1>1, <1>2 DEF Packet
<1>4. KeyOf(p) \in h[n]
  BY <1>3 DEF KeyOf
<1>5. b \in BufferedPacket /\ b.type = MULTICAST_UNICAST_ACK /\ b.p = p
  BY <1>3, TypesDiffer, EmergencyConnAssumption DEF BufferedPacket
<1> HIDE DEF b
<1>6. b \in GoodEntries(n, h)
  BY <1>3, <1>4, <1>5 DEF GoodEntries, GoodEntry, GoodAck
<1> QED BY <1>6 DEF b, p

LEMMA MeshEntry ==
  ASSUME NEW n \in Node, NEW h \in Histories, NEW ns \in SUBSET Node, NEW to \in Node,
         NEW seqno \in 0..255, NEW no \in BOOLEAN, ~no
  PROVE  [type |-> MESH_DATA,
          p |-> [ack |-> no, originator |-> NoNode, seqno |-> seqno,
                 sender |-> NoNode, to |-> {to}, data |-> NODE_REPORT_PACKET],
          unacked_ns |-> ns, times_sent |-> 0] \in GoodEntries(n, h)
<1> DEFINE p == [ack |-> no, originator |-> NoNode, seqno |-> seqno,
                 sender |-> NoNode, to |-> {to}, data |-> NODE_REPORT_PACKET]
           b == [type |-> MESH_DATA, p |-> p, unacked_ns |-> ns, times_sent |-> 0]
<1>1. p \in Packet
  BY DEF Packet
<1> HIDE DEF p
<1>2. b \in BufferedPacket /\ b.type = MESH_DATA
  BY <1>1, TypesDiffer, EmergencyConnAssumption DEF BufferedPacket
<1> HIDE DEF b
<1>3. b \in GoodEntries(n, h)
  BY <1>2 DEF GoodEntries, GoodEntry
<1> QED BY <1>3 DEF b, p

\* The queue of a record after an addition.
LEMMA FollowsAdded ==
  ASSUME NEW n \in Node, NEW h \in Histories, NEW g, NEW c \in Records(n, h),
         NEW pb \in Buffers(n, h), Confirmed(c.sq, pb, g), NEW yes \in BOOLEAN, yes
  PROVE  /\ (Reports(pb) => Reports(c.sq)) =>
              /\ Follows(c, [c EXCEPT !.sq = pb], n, h, g)
              /\ Follows(c, [c EXCEPT !.sq = pb, !.broadcast_timer = yes], n, h, g)
              /\ Follows(c, [c EXCEPT !.sq = pb, !.data_timer = yes], n, h, g)
              /\ Follows(c, [c EXCEPT !.sq = pb, !.ack_timer = yes], n, h, g)
         /\ Follows(c, [c EXCEPT !.sq = pb, !.mesh_timer = yes], n, h, g)
<1>1. ASSUME Reports(pb) => Reports(c.sq)
      PROVE  Follows(c, [c EXCEPT !.sq = pb], n, h, g)
  <2> DEFINE d == [c EXCEPT !.sq = pb]
  <2>1. d \in Records(n, h) /\ d.sq = pb /\ (d.mesh_timer <=> c.mesh_timer)
    BY DEF Records
  <2> HIDE DEF d
  <2>2. Follows(c, d, n, h, g)
    BY <1>1, <2>1, FollowsQueue
  <2> QED BY <2>2 DEF d
<1>2. ASSUME Reports(pb) => Reports(c.sq)
      PROVE  Follows(c, [c EXCEPT !.sq = pb, !.broadcast_timer = yes], n, h, g)
  <2> DEFINE d == [c EXCEPT !.sq = pb, !.broadcast_timer = yes]
  <2>1. d \in Records(n, h) /\ d.sq = pb /\ (d.mesh_timer <=> c.mesh_timer)
    BY DEF Records
  <2> HIDE DEF d
  <2>2. Follows(c, d, n, h, g)
    BY <1>2, <2>1, FollowsQueue
  <2> QED BY <2>2 DEF d
<1>3. ASSUME Reports(pb) => Reports(c.sq)
      PROVE  Follows(c, [c EXCEPT !.sq = pb, !.data_timer = yes], n, h, g)
  <2> DEFINE d == [c EXCEPT !.sq = pb, !.data_timer = yes]
  <2>1. d \in Records(n, h) /\ d.sq = pb /\ (d.mesh_timer <=> c.mesh_timer)
    BY DEF Records
  <2> HIDE DEF d
  <2>2. Follows(c, d, n, h, g)
    BY <1>3, <2>1, FollowsQueue
  <2> QED BY <2>2 DEF d
<1>4. ASSUME Reports(pb) => Reports(c.sq)
      PROVE  Follows(c, [c EXCEPT !.sq = pb, !.ack_timer = yes], n, h, g)
  <2> DEFINE d == [c EXCEPT !.sq = pb, !.ack_timer = yes]
  <2>1. d \in Records(n, h) /\ d.sq = pb /\ (d.mesh_timer <=> c.mesh_timer)
    BY DEF Records
  <2> HIDE DEF d
  <2>2. Follows(c, d, n, h, g)
    BY <1>4, <2>1, FollowsQueue
  <2> QED BY <2>2 DEF d
<1>5. Follows(c, [c EXCEPT !.sq = pb, !.mesh_timer = yes], n, h, g)
  <2> DEFINE d == [c EXCEPT !.sq = pb, !.mesh_timer = yes]
  <2>1. d \in Records(n, h) /\ d.sq = pb /\ d.mesh_timer
    BY DEF Records
  <2> HIDE DEF d
  <2>2. Follows(c, d, n, h, g)
    BY <2>1 DEF Follows
  <2> QED BY <2>2 DEF d
<1> QED BY <1>1, <1>2, <1>3, <1>4, <1>5, Zenon

LEMMA BroadcastFollows ==
  ASSUME NEW n \in Node, NEW h \in Histories, NEW g, NEW c \in Records(n, h),
         NEW key \in KnownKeys(n, h), NEW data \in {EMERGENCY_PACKET, EXTRACT_REPORT_PACKET}
  PROVE  Follows(c, EcBroadcast(c, n, key, data), n, h, g)
<1>1. PICK yes \in BOOLEAN, no \in BOOLEAN : yes = TRUE /\ no = FALSE
  BY Zenon
<1> DEFINE p == [ack |-> no, originator |-> key[1], seqno |-> key[2],
                 sender |-> n, to |-> Node, data |-> data]
           pb == AddPacket(c.sq, BROADCAST_DATA, p, c.ns)
           d == [c EXCEPT !.sq = pb, !.broadcast_timer = yes]
<1>2. EcBroadcast(c, n, key, data) = StorePacketForDupeChecks(d, key)
  BY <1>1, Zenon DEF EcBroadcast
<1>3. /\ c.sq \in Buffers(n, h) /\ c.ns \in SUBSET Node /\ key \in Key
      /\ [type |-> BROADCAST_DATA, p |-> p, unacked_ns |-> c.ns, times_sent |-> 0]
           \in GoodEntries(n, h)
  BY <1>1, BroadcastEntry DEF Records, KnownKeys
<1> HIDE DEF p
<1>4. pb \in Buffers(n, h) /\ Confirmed(c.sq, pb, g) /\ (Reports(pb) => Reports(c.sq))
  BY <1>3, AddGood, TypesDiffer
<1> HIDE DEF pb
<1>5. Follows(c, d, n, h, g)
  BY <1>1, <1>4, FollowsAdded
<1> HIDE DEF d
<1>6. Follows(d, StorePacketForDupeChecks(d, key), n, h, g)
  BY <1>5, StoreFollows DEF Follows
<1>7. Follows(c, StorePacketForDupeChecks(d, key), n, h, g)
  BY <1>5, <1>6, FollowsOn
<1> QED BY <1>2, <1>7

LEMMA MulticastFollows ==
  ASSUME NEW n \in Node, NEW h \in Histories, NEW g, NEW c \in Records(n, h),
         NEW key \in KnownKeys(n, h), key[1] = n, NEW receivers \in SUBSET Node, n \notin receivers
  PROVE  Follows(c, EcReliableMulticast(c, n, receivers, key, IM_YOUR_NEW_NEIGHBOR), n, h, g)
<1>1. PICK yes \in BOOLEAN, no \in BOOLEAN : yes = TRUE /\ no = FALSE
  BY Zenon
<1> DEFINE p == [ack |-> no, originator |-> key[1], seqno |-> key[2],
                 sender |-> n, to |-> receivers, data |-> IM_YOUR_NEW_NEIGHBOR]
           pb == AddPacket(c.sq, MULTICAST_UNICAST_DATA, p, receivers)
           d == [c EXCEPT !.sq = pb, !.data_timer = yes]
<1>2. EcReliableMulticast(c, n, receivers, key, IM_YOUR_NEW_NEIGHBOR)
        = StorePacketForDupeChecks(d, key)
  BY <1>1, Zenon DEF EcReliableMulticast
<1>3. /\ c.sq \in Buffers(n, h) /\ key \in Key
      /\ [type |-> MULTICAST_UNICAST_DATA, p |-> p, unacked_ns |-> receivers, times_sent |-> 0]
           \in GoodEntries(n, h)
  BY <1>1, MulticastEntry DEF Records, KnownKeys
<1> HIDE DEF p
<1>4. pb \in Buffers(n, h) /\ Confirmed(c.sq, pb, g) /\ (Reports(pb) => Reports(c.sq))
  BY <1>3, AddGood, TypesDiffer
<1> HIDE DEF pb
<1>5. Follows(c, d, n, h, g)
  BY <1>1, <1>4, FollowsAdded
<1> HIDE DEF d
<1>6. Follows(d, StorePacketForDupeChecks(d, key), n, h, g)
  BY <1>5, StoreFollows DEF Follows
<1>7. Follows(c, StorePacketForDupeChecks(d, key), n, h, g)
  BY <1>5, <1>6, FollowsOn
<1> QED BY <1>2, <1>7

LEMMA MeshFollows ==
  ASSUME NEW n \in Node, NEW h \in Histories, NEW g, NEW c \in Records(n, h),
         NEW to \in Node, NEW seqno \in 0..255
  PROVE  Follows(c, EcMesh(c, to, seqno, NODE_REPORT_PACKET), n, h, g)
<1>1. PICK yes \in BOOLEAN, no \in BOOLEAN : yes = TRUE /\ no = FALSE
  BY Zenon
<1> DEFINE p == [ack |-> no, originator |-> NoNode, seqno |-> seqno,
                 sender |-> NoNode, to |-> {to}, data |-> NODE_REPORT_PACKET]
           pb == AddUntrackedPacket(c.sq, MESH_DATA, p)
           d == [c EXCEPT !.sq = pb, !.mesh_timer = yes]
<1>2. EcMesh(c, to, seqno, NODE_REPORT_PACKET) = d
  BY <1>1, Zenon DEF EcMesh
<1>3. /\ c.sq \in Buffers(n, h)
      /\ \A ns \in SUBSET Node :
           [type |-> MESH_DATA, p |-> p, unacked_ns |-> ns, times_sent |-> 0] \in GoodEntries(n, h)
  BY <1>1, MeshEntry DEF Records
<1> HIDE DEF p
<1>4. pb \in Buffers(n, h) /\ Confirmed(c.sq, pb, g)
  BY <1>3, AddUntrackedGood
<1> HIDE DEF pb
<1>5. Follows(c, d, n, h, g)
  BY <1>1, <1>4, FollowsAdded
<1> QED BY <1>2, <1>5

LEMMA SeqnoFollows ==
  ASSUME NEW n \in Node, NEW h \in Histories, NEW g, NEW c \in Records(n, h), NEW k \in 0..255
  PROVE  Follows(c, [c EXCEPT !.seqno = k], n, h, g)
<1> DEFINE d == [c EXCEPT !.seqno = k]
<1>1. d \in Records(n, h) /\ d.sq = c.sq /\ (d.mesh_timer <=> c.mesh_timer)
  BY DEF Records
<1> HIDE DEF d
<1>2. Confirmed(c.sq, d.sq, g)
  BY <1>1 DEF Confirmed
<1>3. Follows(c, d, n, h, g)
  BY <1>1, <1>2, FollowsQueue
<1> QED BY <1>3 DEF d

-----------------------------------------------------------------------------
(* The frames on the air.                                                  *)

\* What is not an acknowledgement is a broadcast or a multicast.
GoodData(f, n) ==
  /\ ~f.ack
  /\ \/ GoodBroadcast(f) /\ f.originator \in Node
     \/ f.data = IM_YOUR_NEW_NEIGHBOR /\ f.originator \in Node \ {n}
        /\ f.sender \in Node /\ ~IsBroadcast(f)

\* A frame as node n receives it.
GoodFrame(f, n, h) ==
  /\ f \in Packet
  /\ IF f.ack THEN f.sender \in Node /\ GoodAck(f.sender, f, h) ELSE GoodData(f, n)

\* The application forwards, notes a neighbour, or answers with a report.
LEMMA CallbackFollows ==
  ASSUME NEW n \in Node, NEW h \in Histories, NEW g, NEW c \in Records(n, h),
         NEW f \in Packet, GoodData(f, n), KeyOf(f) \in KnownKeys(n, h)
  PROVE  Follows(c, Callback(c, n, f), n, h, g)
<1>0. /\ EMERGENCY_PACKET # IM_YOUR_NEW_NEIGHBOR /\ EXTRACT_REPORT_PACKET # IM_YOUR_NEW_NEIGHBOR
      /\ EMERGENCY_PACKET # EXTRACT_REPORT_PACKET
  BY DEF EMERGENCY_PACKET, EXTRACT_REPORT_PACKET, IM_YOUR_NEW_NEIGHBOR
<1>1. CASE f.data = IM_YOUR_NEW_NEIGHBOR
  <2>1. f.originator \in Node
    BY <1>0, <1>1 DEF GoodData, GoodBroadcast
  <2> DEFINE d == [c EXCEPT !.ns = @ \cup {f.originator}]
  <2>2. Callback(c, n, f) = d
    <3>1. Callback(c, n, f) = CASE f.data = IM_YOUR_NEW_NEIGHBOR -> d
      BY <1>1, <1>0 DEF Callback
    <3> QED BY <1>1, <3>1
  <2>3. d \in Records(n, h) /\ d.sq = c.sq /\ (d.mesh_timer <=> c.mesh_timer)
    BY <2>1 DEF Records
  <2> HIDE DEF d
  <2>4. Confirmed(c.sq, d.sq, g)
    BY <2>3 DEF Confirmed
  <2> QED BY <2>2, <2>3, <2>4, FollowsQueue
<1>2. CASE f.data # IM_YOUR_NEW_NEIGHBOR /\ n = Sink
  BY <1>2, FollowsItself DEF Callback, GoodData, GoodBroadcast, IsBroadcast
<1>3. CASE f.data = EMERGENCY_PACKET /\ n # Sink
  <2>1. Callback(c, n, f) = EcBroadcast(c, n, KeyOf(f), f.data)
    BY <1>0, <1>3 DEF Callback
  <2> QED BY <1>3, <2>1, BroadcastFollows
<1>4. CASE f.data = EXTRACT_REPORT_PACKET /\ n # Sink
  <2>1. PICK d : d = EcBroadcast(c, n, KeyOf(f), f.data)
    OBVIOUS
  <2>2. Follows(c, d, n, h, g)
    BY <1>4, <2>1, BroadcastFollows
  <2>3. PICK k \in 0..255 : k = (d.seqno + 1) % 256
    BY <2>2, SeqnoFits DEF Follows, Records
  <2>4. PICK e : e = [d EXCEPT !.seqno = k]
    OBVIOUS
  <2>5. Follows(d, e, n, h, g)
    BY <2>2, <2>4, SeqnoFollows DEF Follows
  <2>6. c.seqno \in 0..255 /\ f.originator \in Node
    BY <1>0, <1>4 DEF Records, GoodData
  <2>7. PICK x : x = EcMesh(e, f.originator, c.seqno, NODE_REPORT_PACKET)
    OBVIOUS
  <2>8. Follows(e, x, n, h, g)
    BY <2>5, <2>6, <2>7, MeshFollows DEF Follows
  <2>9. Callback(c, n, f) = x
    BY <1>0, <1>4, <2>1, <2>3, <2>4, <2>7 DEF Callback
  <2>10. Follows(c, e, n, h, g)
    BY <2>2, <2>5, FollowsOn
  <2>11. Follows(c, x, n, h, g)
    BY <2>8, <2>10, FollowsOn
  <2> QED BY <2>9, <2>11
<1>5. f.data \in {EMERGENCY_PACKET, EXTRACT_REPORT_PACKET, IM_YOUR_NEW_NEIGHBOR}
  BY DEF GoodData, GoodBroadcast
<1> QED BY <1>1, <1>2, <1>3, <1>4, <1>5

\* A packet that was handed to the application is acknowledged.
LEMMA QueueAckFollows ==
  ASSUME NEW n \in Node, NEW h \in Histories, NEW g, NEW c \in Records(n, h), NEW f \in Packet,
         IsBroadcast(f) \/ (KeyOf(f) \in h[n] /\ f.originator \in Node /\ f.sender \in Node)
  PROVE  Follows(c, QueueAck(c, n, f), n, h, g)
<1>1. CASE IsBroadcast(f) \/ IsQueued(c.sq, AckPacket(n, f))
  BY <1>1, FollowsItself DEF QueueAck
<1>2. CASE ~(IsBroadcast(f) \/ IsQueued(c.sq, AckPacket(n, f)))
  <2>1. PICK yes \in BOOLEAN : yes = TRUE
    BY Zenon
  <2> DEFINE p == AckPacket(n, f)
             pb == AddUntrackedPacket(c.sq, MULTICAST_UNICAST_ACK, p)
             d == [c EXCEPT !.sq = pb, !.ack_timer = yes]
  <2>2. QueueAck(c, n, f) = d
    BY <1>2, <2>1, Zenon DEF QueueAck
  <2>3. /\ c.sq \in Buffers(n, h)
        /\ \A ns \in SUBSET Node :
             [type |-> MULTICAST_UNICAST_ACK, p |-> p, unacked_ns |-> ns, times_sent |-> 0]
               \in GoodEntries(n, h)
    BY <1>2, AckEntry DEF Records
  <2> HIDE DEF p
  <2>4. pb \in Buffers(n, h) /\ Confirmed(c.sq, pb, g) /\ (Reports(pb) => Reports(c.sq))
    BY <2>3, AddUntrackedGood, TypesDiffer
  <2> HIDE DEF pb
  <2>5. Follows(c, d, n, h, g)
    BY <2>1, <2>4, FollowsAdded
  <2> QED BY <2>2, <2>5
<1> QED BY <1>1, <1>2

\* Whoever acknowledges was handed the packet, and the packet goes when all were.
LEMMA AckReceivedFollows ==
  ASSUME NEW n \in Node, NEW h \in Histories, NEW c \in Records(n, h), NEW f \in Packet,
         f.sender \in Node, KeyOf(f) \in h[f.sender]
  PROVE  Follows(c, AckReceived(c, f), n, h, h)
<1> DEFINE found == FindByOriginatorSeqno(c.sq, f)
<1>0. c.sq \in Buffers(n, h)
  BY DEF Records
<1>1. CASE found = {}
  BY <1>1, FollowsItself DEF AckReceived
<1>2. CASE found # {}
  <2>1. PICK i \in found : i = CHOOSE j \in found : TRUE
    BY <1>2, Zenon
  <2>2. i \in DOMAIN c.sq.queued /\ KeyOf(c.sq.queued[i].p) = KeyOf(f)
    <3>1. i \in {j \in DOMAIN c.sq.queued : /\ c.sq.queued[j].p.originator = f.originator
                                            /\ c.sq.queued[j].p.seqno = f.seqno}
      BY <2>1, FirstOfPositions DEF FindByOriginatorSeqno
    <3> QED BY <3>1 DEF KeyOf
  <2>3. PICK pb : pb = NeighborAcked(c.sq, i, f.sender)
    OBVIOUS
  <2>4. /\ pb \in Buffers(n, h) /\ Confirmed(c.sq, pb, h) /\ (Reports(pb) <=> Reports(c.sq))
        /\ i \in DOMAIN pb.queued
    BY <1>0, <2>2, <2>3, AckedGood
  <2>5. CASE AllNeighborsAcked(pb, i)
    <3>1. PICK yes \in BOOLEAN : yes = TRUE
      BY Zenon
    <3>2. PICK pb2 : pb2 = FreePacket(pb, i)
      OBVIOUS
    <3>3. pb.queued[i].type = MULTICAST_UNICAST_DATA =>
            \A m \in pb.queued[i].p.to : KeyOf(pb.queued[i].p) \in h[m]
      <4>1. GoodEntry(n, pb.queued[i], h)
        BY <2>4, EntryAt
      <4> QED BY <2>5, <4>1, TypesDiffer DEF GoodEntry, AllNeighborsAcked
    <3>4. pb2 \in Buffers(n, h) /\ Confirmed(pb, pb2, h) /\ (Reports(pb2) => Reports(pb))
      BY <2>4, <3>2, <3>3, FreeGood
    <3>5. Confirmed(c.sq, pb2, h)
      BY <2>4, <3>4 DEF Confirmed
    <3>6. Follows(c, [c EXCEPT !.sq = pb2, !.data_timer = yes], n, h, h)
      BY <2>4, <3>1, <3>4, <3>5, FollowsAdded
    <3>7. AckReceived(c, f) = [c EXCEPT !.sq = pb2, !.data_timer = yes]
      BY <1>2, <2>1, <2>3, <2>5, <3>1, <3>2, Zenon DEF AckReceived
    <3> QED BY <3>6, <3>7
  <2>6. CASE ~AllNeighborsAcked(pb, i)
    <3>0. PICK yes \in BOOLEAN : yes = TRUE
      BY Zenon
    <3>1. Follows(c, [c EXCEPT !.sq = pb], n, h, h)
      BY <2>4, <3>0, FollowsAdded
    <3>2. AckReceived(c, f) = [c EXCEPT !.sq = pb]
      BY <1>2, <2>1, <2>3, <2>6, Zenon DEF AckReceived
    <3> QED BY <3>1, <3>2
  <2> QED BY <2>5, <2>6
<1> QED BY <1>1, <1>2

\* A frame is handled, and the history gains the packet if it is handed on.
LEMMA ReceivedFollows ==
  ASSUME NEW n \in Node, NEW h \in Histories, NEW h2 \in Histories, Grows(h, h2),
         NEW c \in Records(n, h), NEW f, GoodFrame(f, n, h),
         IsNew(c, f) /\ HasRoom(c) => KeyOf(f) \in h2[n]
  PROVE  Follows(c, Received(c, n, f), n, h2, h)
<1>0. c \in Records(n, h2) /\ f \in Packet
  BY RecordsMonotonic DEF GoodFrame
<1>1. CASE f.ack
  <2>1. f.sender \in Node /\ KeyOf(f) \in h[f.sender]
    BY <1>1 DEF GoodFrame, GoodAck
  <2>2. Received(c, n, f) = AckReceived(c, f)
    BY <1>1 DEF Received, IsNew
  <2>3. PICK d : d = AckReceived(c, f)
    OBVIOUS
  <2>4. Follows(c, d, n, h, h)
    BY <1>0, <2>1, <2>3, AckReceivedFollows
  <2>5. d \in Records(n, h2)
    BY <2>4, RecordsMonotonic DEF Follows
  <2>6. Follows(c, d, n, h2, h)
    BY <2>4, <2>5 DEF Follows
  <2> QED BY <2>2, <2>3, <2>6
<1>2. CASE ~f.ack /\ ~IsNew(c, f)
  <2>1. Contains(c.dq, KeyOf(f)) /\ c.dq \in Seq(KnownKeys(n, h2))
    BY <1>0, <1>2 DEF IsNew, Records
  <2>2. KeyOf(f) \in KnownKeys(n, h2)
    <3>1. PICK i \in 1..Len(c.dq) : c.dq[i] = KeyOf(f)
      BY <2>1 DEF Contains
    <3> QED BY <2>1, <3>1, ElementOfSeq
  <2>3. GoodData(f, n)
    BY <1>2 DEF GoodFrame
  <2>4. IsBroadcast(f) \/ (KeyOf(f) \in h2[n] /\ f.originator \in Node /\ f.sender \in Node)
    BY <2>2, <2>3 DEF GoodData, GoodBroadcast, IsBroadcast, KnownKeys, KeyOf
  <2>5. Received(c, n, f) = QueueAck(c, n, f)
    BY <1>2 DEF Received
  <2> QED BY <1>0, <2>4, <2>5, QueueAckFollows
<1>3. CASE IsNew(c, f) /\ HasRoom(c)
  <2>1. ~f.ack /\ GoodData(f, n)
    BY <1>3 DEF IsNew, GoodFrame
  <2>2. KeyOf(f) \in h2[n] /\ KeyOf(f) \in KnownKeys(n, h2)
    BY <1>3 DEF KnownKeys, Histories
  <2>3. PICK d : d = Callback(c, n, f)
    OBVIOUS
  <2>4. Follows(c, d, n, h2, h)
    BY <1>0, <2>1, <2>2, <2>3, CallbackFollows
  <2>5. PICK e : e = StorePacketForDupeChecks(d, KeyOf(f))
    OBVIOUS
  <2>6. Follows(d, e, n, h2, h)
    BY <2>2, <2>4, <2>5, StoreFollows DEF Follows
  <2>7. PICK x : x = QueueAck(e, n, f)
    OBVIOUS
  <2>8. IsBroadcast(f) \/ (KeyOf(f) \in h2[n] /\ f.originator \in Node /\ f.sender \in Node)
    BY <2>1, <2>2 DEF GoodData, GoodBroadcast, IsBroadcast
  <2>9. Follows(e, x, n, h2, h)
    <3>1. e \in Records(n, h2)
      BY <2>6 DEF Follows
    <3> QED BY <1>0, <2>7, <2>8, <3>1, QueueAckFollows
  <2>10. Follows(c, e, n, h2, h)
    BY <2>4, <2>6, FollowsOn
  <2>11. Follows(c, x, n, h2, h)
    BY <2>9, <2>10, FollowsOn
  <2>12. Received(c, n, f) = x
    BY <1>3, <2>1, <2>3, <2>5, <2>7 DEF Received
  <2> QED BY <2>11, <2>12
<1>4. CASE IsNew(c, f) /\ ~HasRoom(c)
  <2>1. Received(c, n, f) = c
    BY <1>4 DEF Received, IsNew
  <2> QED BY <1>0, <2>1, FollowsItself
<1>5. f.ack \/ ~f.ack
  BY DEF IsNew
<1> QED BY <1>1, <1>2, <1>3, <1>4, <1>5

-----------------------------------------------------------------------------
(* The steps.                                                              *)

\* What leaves a queue in this step is confirmed.
StepConfirmed == \A m \in Node : Confirmed(ec[m].sq, ec'[m].sq, HandedKeys)

LEMMA RecordsTyped ==
  ASSUME NEW n \in Node, NEW h \in Histories, NEW c \in Records(n, h)
  PROVE  /\ c \in EcRecord /\ Len(c.sq.queued) + Len(c.sq.leftover) = SendingQueueLength
         /\ c.sq \in Buffers(n, h)
<1>1. c.sq \in BufferOf(GoodEntries(n, h)) /\ GoodEntries(n, h) \subseteq BufferedPacket
  BY DEF Records, Buffers, GoodEntries
<1>2. c.sq \in BufferOf(BufferedPacket)
  BY <1>1, BufferOfMonotonic
<1>3. c.dq \in Seq(KnownKeys(n, h)) /\ KnownKeys(n, h) \subseteq Key
  BY DEF Records, KnownKeys
<1>4. c.dq \in Seq(Key)
  BY <1>3, SeqMonotonic
<1> QED BY <1>2, <1>4 DEF Records, EcRecord, BufferOf

LEMMA HandedKeysTyped ==
  ASSUME handed \in [Node -> Seq(Key)]
  PROVE  HandedKeys \in Histories /\ \A m \in Node : HandedKeys[m] = ToSet(handed[m])
<1>1. \A m \in Node : ToSet(handed[m]) \subseteq Key
  BY ElementOfSeq DEF ToSet
<1> QED BY <1>1 DEF HandedKeys, Histories

\* A packet is handed to one more node.
LEMMA ToSetAppend ==
  ASSUME NEW S, NEW s \in Seq(S), NEW e \in S
  PROVE  Append(s, e) \in Seq(S) /\ ToSet(Append(s, e)) = ToSet(s) \cup {e}
<1>1. /\ Append(s, e) \in Seq(S) /\ Len(s) \in Nat /\ DOMAIN s = 1..Len(s)
      /\ DOMAIN Append(s, e) = 1..(Len(s) + 1)
      /\ \A i \in 1..Len(s) : Append(s, e)[i] = s[i]
      /\ Append(s, e)[Len(s) + 1] = e
  BY AppendProperties, LenProperties
<1>2. \A i \in 1..(Len(s) + 1) : i \in 1..Len(s) \/ i = Len(s) + 1
  BY <1>1
<1>3. 1..Len(s) \subseteq 1..(Len(s) + 1) /\ Len(s) + 1 \in 1..(Len(s) + 1)
  BY <1>1
<1> QED BY <1>1, <1>2, <1>3 DEF ToSet

\* A node's record changes and nothing is handed on.
LEMMA OneRecordChanges ==
  ASSUME IInv, UNCHANGED <<handed, missed>>, floods' \subseteq Key, losses' \in 0..MaxLosses,
         mesh' \in [Node -> [route : BOOLEAN, queued_data : BOOLEAN]],
         failed' \subseteq Node, failed \subseteq failed',
         NEW n \in Node, NEW d \in Records(n, HandedKeys),
         ec' = [ec EXCEPT ![n] = d], Confirmed(ec[n].sq, d.sq, HandedKeys),
         \A m \in Node \ {n} : mesh'[m].queued_data <=> mesh[m].queued_data,
         n \notin failed' => (Reports(d.sq) => d.mesh_timer \/ mesh'[n].queued_data)
  PROVE  IInv' /\ StepConfirmed
<1>1. HandedKeys \in Histories /\ HandedKeys' = HandedKeys
  BY HandedKeysTyped DEF IInv, HandedKeys
<1>2. PICK h \in Histories : h = HandedKeys
  BY <1>1
<1>3. d \in Records(n, h) /\ d \in EcRecord
  BY <1>2, RecordsTyped
<1>4. /\ ec' \in [Node -> EcRecord] /\ ec'[n] = d
      /\ \A m \in Node \ {n} : ec'[m] = ec[m]
  BY <1>3 DEF IInv
<1>5. \A m \in Node : ec'[m] \in Records(m, h)
  BY <1>2, <1>3, <1>4 DEF IInv
<1>6. StepConfirmed
  BY <1>4 DEF StepConfirmed, Confirmed
<1>7. ReportNotStranded'
  <2> SUFFICES ASSUME NEW m \in Node, m \notin failed', OfType(ec'[m].sq, MESH_DATA) # {}
               PROVE  ec'[m].mesh_timer \/ mesh'[m].queued_data
    BY DEF ReportNotStranded
  <2>1. CASE m = n
    BY <1>4, <2>1 DEF Reports
  <2>2. CASE m # n
    <3>1. ec[m].mesh_timer \/ mesh[m].queued_data
      BY <1>4, <2>2 DEF IInv, ReportNotStranded
    <3> QED BY <1>4, <2>2, <3>1
  <2> QED BY <2>1, <2>2
<1> QED BY <1>1, <1>2, <1>4, <1>5, <1>6, <1>7 DEF IInv

\* A frame is sent.
LEMMA TransmitStep ==
  ASSUME IInv, NEW n \in Node, NEW c, Follows(ec[n], c, n, HandedKeys, HandedKeys),
         NEW f, KeyOf(f) \in Key,
         \A m \in Node \ {n} : m \in InRange[n] \cap f.to => GoodFrame(f, m, HandedKeys),
         Transmit(n, c, f)
  PROVE  IInv' /\ StepConfirmed
<1>1. PICK h \in Histories : h = HandedKeys
  BY HandedKeysTyped DEF IInv
<1> DEFINE hearers == (InRange[n] \cap f.to) \ failed
<1>2. PICK lost \in SUBSET hearers :
        /\ losses' = losses + Cardinality(lost) /\ losses' <= MaxLosses
        /\ ec' = [m \in Node |->
             IF m = n THEN c
             ELSE IF m \in hearers \ lost THEN Received(ec[m], m, f)
             ELSE ec[m]]
        /\ handed' = [m \in Node |->
             IF m \in hearers \ lost /\ IsNew(ec[m], f) /\ HasRoom(ec[m])
             THEN Append(handed[m], KeyOf(f)) ELSE handed[m]]
        /\ missed' = [m \in Node |->
             IF m \in lost \/ (m \in hearers /\ IsNew(ec[m], f) /\ ~HasRoom(ec[m]))
             THEN missed[m] \cup {KeyOf(f)} ELSE missed[m]]
        /\ UNCHANGED <<mesh, failed, floods>>
  BY DEF Transmit
<1>3. losses' \in 0..MaxLosses
  <2>1. hearers \subseteq Node /\ n \notin InRange[n]
    BY EmergencyConnAssumption
  <2>2. IsFiniteSet(lost)
    BY <1>2, <2>1, EmergencyConnAssumption, FS_Subset
  <2>3. Cardinality(lost) \in Nat
    BY <2>2, FS_CardinalityType
  <2>4. PICK k \in Nat : k = Cardinality(lost)
    BY <2>3
  <2>5. losses' = losses + k /\ losses' <= MaxLosses /\ losses \in 0..MaxLosses
    BY <1>2, <2>4 DEF IInv
  <2> QED BY <2>5, EmergencyConnAssumption
<1>4. handed' \in [Node -> Seq(Key)] /\ \A m \in Node :
        \/ m \in hearers \ lost /\ IsNew(ec[m], f) /\ HasRoom(ec[m])
           /\ ToSet(handed'[m]) = ToSet(handed[m]) \cup {KeyOf(f)}
        \/ ~(m \in hearers \ lost /\ IsNew(ec[m], f) /\ HasRoom(ec[m]))
           /\ ToSet(handed'[m]) = ToSet(handed[m])
  <2>1. ASSUME NEW m \in Node
        PROVE  handed[m] \in Seq(Key) /\ Append(handed[m], KeyOf(f)) \in Seq(Key)
               /\ ToSet(Append(handed[m], KeyOf(f))) = ToSet(handed[m]) \cup {KeyOf(f)}
    <3>1. handed[m] \in Seq(Key)
      BY DEF IInv
    <3> QED BY <3>1, ToSetAppend
  <2>2. \A m \in Node : handed'[m] =
          IF m \in hearers \ lost /\ IsNew(ec[m], f) /\ HasRoom(ec[m])
          THEN Append(handed[m], KeyOf(f)) ELSE handed[m]
    BY <1>2
  <2>3. handed' \in [Node -> Seq(Key)]
    <3>1. DOMAIN handed' = Node /\ handed' = [m \in DOMAIN handed' |-> handed'[m]]
      BY <1>2
    <3>2. \A m \in Node : handed'[m] \in Seq(Key)
      BY <2>1, <2>2
    <3> QED BY <3>1, <3>2
  <2> QED BY <2>1, <2>2, <2>3
<1>5. PICK h2 \in Histories : h2 = HandedKeys' /\ \A m \in Node : h2[m] = ToSet(handed'[m])
  <2>1. \A m \in Node : ToSet(handed'[m]) \subseteq Key
    BY <1>4, ElementOfSeq DEF ToSet
  <2>2. PICK h2 : h2 = [m \in Node |-> ToSet(handed'[m])]
    OBVIOUS
  <2>3. h2 \in Histories /\ \A m \in Node : h2[m] = ToSet(handed'[m])
    BY <2>1, <2>2 DEF Histories
  <2>4. h2 = HandedKeys'
    BY <2>2, Zenon DEF HandedKeys
  <2> QED BY <2>3, <2>4
<1>6. Grows(h, h2)
  <2>1. \A m \in Node : h[m] = ToSet(handed[m])
    BY <1>1, HandedKeysTyped DEF IInv
  <2>2. ASSUME NEW m \in Node PROVE h[m] \subseteq h2[m]
    <3>1. ToSet(handed[m]) \subseteq ToSet(handed'[m])
      BY <1>4
    <3> QED BY <1>5, <2>1, <3>1
  <2> QED BY <2>2 DEF Grows
<1>7. ASSUME NEW m \in Node PROVE Follows(ec[m], ec'[m], m, h2, h)
  <2>0. ec[m] \in Records(m, h) /\ ec[m] \in Records(m, h2)
    BY <1>1, <1>6, RecordsMonotonic DEF IInv
  <2>1. CASE m = n
    <3>1. Follows(ec[n], c, n, h, h) /\ ec'[m] = c
      BY <1>1, <1>2, <2>1
    <3>2. c \in Records(n, h2)
      BY <1>6, <3>1, RecordsMonotonic DEF Follows
    <3> QED BY <2>1, <3>1, <3>2 DEF Follows
  <2>2. CASE m # n /\ m \in hearers \ lost
    <3>1. GoodFrame(f, m, h)
      BY <1>1, <2>2
    <3>2. IsNew(ec[m], f) /\ HasRoom(ec[m]) => KeyOf(f) \in h2[m]
      BY <1>4, <1>5, <2>2
    <3>3. ec'[m] = Received(ec[m], m, f)
      BY <1>2, <2>2
    <3>4. Follows(ec[m], Received(ec[m], m, f), m, h2, h)
      BY <1>6, <2>0, <3>1, <3>2, ReceivedFollows
    <3> QED BY <3>3, <3>4
  <2>3. CASE m # n /\ m \notin hearers \ lost
    <3>1. ec'[m] = ec[m]
      BY <1>2, <2>3
    <3> QED BY <2>0, <3>1, FollowsItself
  <2> QED BY <2>1, <2>2, <2>3
<1>8. ec' \in [Node -> EcRecord] /\ \A m \in Node : ec'[m] \in Records(m, h2)
  <2>1. \A m \in Node : ec'[m] \in Records(m, h2) /\ ec'[m] \in EcRecord
    BY <1>7, RecordsTyped DEF Follows
  <2>2. DOMAIN ec' = Node /\ ec' = [m \in DOMAIN ec' |-> ec'[m]]
    BY <1>2
  <2> QED BY <2>1, <2>2
<1>9. StepConfirmed
  BY <1>1, <1>7 DEF StepConfirmed, Follows
<1>10. ReportNotStranded'
  <2> SUFFICES ASSUME NEW m \in Node \ failed, OfType(ec'[m].sq, MESH_DATA) # {}
               PROVE  ec'[m].mesh_timer \/ mesh'[m].queued_data
    BY <1>2 DEF ReportNotStranded
  <2>1. Reports(ec'[m].sq)
    BY DEF Reports
  <2>2. Follows(ec[m], ec'[m], m, h2, h)
    BY <1>7
  <2>3. CASE Reports(ec[m].sq)
    <3>1. ec[m].mesh_timer \/ mesh[m].queued_data
      BY <2>3 DEF IInv, ReportNotStranded, Reports
    <3> QED BY <1>2, <2>2, <3>1 DEF Follows
  <2>4. CASE ~Reports(ec[m].sq)
    BY <2>1, <2>2, <2>4 DEF Follows
  <2> QED BY <2>3, <2>4
<1>11. missed' \in [Node -> SUBSET Key]
  <2>1. missed \in [Node -> SUBSET Key]
    BY DEF IInv
  <2> QED BY <1>2, <2>1
<1> QED BY <1>2, <1>3, <1>4, <1>5, <1>8, <1>9, <1>10, <1>11 DEF IInv

\* What a sender finds.
LEMMA FirstIsThere ==
  ASSUME IInv, NEW n \in Node, NEW type \in PacketType, NEW i \in FirstOfType(ec[n].sq, type)
  PROVE  /\ HandedKeys \in Histories /\ ec[n] \in Records(n, HandedKeys)
         /\ ec[n].sq \in Buffers(n, HandedKeys)
         /\ i \in DOMAIN ec[n].sq.queued /\ ec[n].sq.queued[i].type = type
         /\ ec[n].sq.queued[i] \in BufferedPacket
         /\ ec[n].sq.queued[i].p \in Packet
         /\ GoodEntry(n, ec[n].sq.queued[i], HandedKeys)
         /\ ec[n].ns \in SUBSET Node
<1>1. HandedKeys \in Histories /\ ec[n] \in Records(n, HandedKeys)
  BY HandedKeysTyped DEF IInv
<1>2. ec[n].sq \in Buffers(n, HandedKeys) /\ ec[n].ns \in SUBSET Node
  BY <1>1 DEF Records
<1>3. i \in DOMAIN ec[n].sq.queued /\ ec[n].sq.queued[i].type = type
  BY FirstOfPositions DEF FirstOfType, OfType
<1> QED BY <1>1, <1>2, <1>3, EntryAt

LEMMA SendBroadcastDataStep ==
  ASSUME IInv, NEW n \in Node, SendBroadcastData(n) PROVE IInv' /\ StepConfirmed
<1>1. PICK i \in FirstOfType(ec[n].sq, BROADCAST_DATA) :
        Transmit(n, [ec[n] EXCEPT !.sq = FreePacket(ec[n].sq, i),
                       !.broadcast_timer = OfType(FreePacket(ec[n].sq, i), BROADCAST_DATA) # {}],
                 ec[n].sq.queued[i].p)
  BY DEF SendBroadcastData
<1>2. PICK h \in Histories : h = HandedKeys
  BY HandedKeysTyped DEF IInv
<1>3. PICK c : c = ec[n]
  OBVIOUS
<1>4. PICK b : b = c.sq.queued[i]
  OBVIOUS
<1>5. PICK pb : pb = FreePacket(c.sq, i)
  OBVIOUS
<1>6. PICK t \in BOOLEAN : t = (OfType(pb, BROADCAST_DATA) # {})
  OBVIOUS
<1>7. PICK d : d = [c EXCEPT !.sq = pb, !.broadcast_timer = t]
  OBVIOUS
<1>8. Transmit(n, d, b.p)
  BY <1>1, <1>3, <1>4, <1>5, <1>6, <1>7
<1>9. /\ c \in Records(n, h) /\ c.sq \in Buffers(n, h) /\ i \in DOMAIN c.sq.queued
      /\ b.type = BROADCAST_DATA /\ b.p \in Packet /\ GoodEntry(n, b, h)
  BY <1>2, <1>3, <1>4, FirstIsThere, TypesDiffer
<1>10. pb \in Buffers(n, h) /\ Confirmed(c.sq, pb, h) /\ (Reports(pb) => Reports(c.sq))
  BY <1>4, <1>5, <1>9, FreeGood, TypesDiffer
<1>11. d \in Records(n, h) /\ d.sq = pb /\ (d.mesh_timer <=> c.mesh_timer)
  BY <1>7, <1>9, <1>10 DEF Records
<1>12. Follows(c, d, n, h, h)
  BY <1>9, <1>10, <1>11, FollowsQueue
<1>13. /\ KeyOf(b.p) \in Key
       /\ \A m \in Node \ {n} : GoodFrame(b.p, m, h)
  <2>1. ~b.p.ack /\ b.p.originator \in Node /\ GoodBroadcast(b.p) /\ b.p.seqno \in 0..255
    BY <1>9, TypesDiffer DEF GoodEntry, Packet
  <2> QED BY <1>9, <2>1 DEF GoodFrame, GoodData, KeyOf, Key
<1> QED BY <1>2, <1>3, <1>8, <1>12, <1>13, TransmitStep

LEMMA SendMulticastUnicastDataStep ==
  ASSUME IInv, NEW n \in Node, SendMulticastUnicastData(n) PROVE IInv' /\ StepConfirmed
<1>1. PICK i \in FirstOfType(ec[n].sq, MULTICAST_UNICAST_DATA) :
        Transmit(n, ec[n],
                 [ec[n].sq.queued[i].p EXCEPT !.to = ec[n].sq.queued[i].unacked_ns])
  BY DEF SendMulticastUnicastData
<1>2. PICK h \in Histories : h = HandedKeys
  BY HandedKeysTyped DEF IInv
<1>3. PICK c : c = ec[n]
  OBVIOUS
<1>4. PICK b : b = c.sq.queued[i]
  OBVIOUS
<1>5. PICK f : f = [b.p EXCEPT !.to = b.unacked_ns]
  OBVIOUS
<1>6. Transmit(n, c, f)
  BY <1>1, <1>3, <1>4, <1>5
<1>7. /\ c \in Records(n, h) /\ b.type = MULTICAST_UNICAST_DATA /\ b \in BufferedPacket
      /\ b.p \in Packet /\ GoodEntry(n, b, h)
  BY <1>2, <1>3, <1>4, FirstIsThere, TypesDiffer
<1>8. ~b.p.ack /\ GoodMulticast(n, b.p) /\ b.unacked_ns \subseteq b.p.to
  BY <1>7, TypesDiffer DEF GoodEntry
<1>9. b.unacked_ns \in SUBSET Node
  BY <1>7 DEF BufferedPacket
<1>10. /\ f \in Packet /\ ~f.ack /\ f.originator = n /\ f.sender = n /\ n \notin f.to
       /\ f.data = IM_YOUR_NEW_NEIGHBOR /\ f.seqno \in 0..255
  BY <1>5, <1>7, <1>8, <1>9 DEF Packet, GoodMulticast
<1>11. ~IsBroadcast(f)
  BY <1>10 DEF IsBroadcast
<1>12. KeyOf(f) \in Key /\ \A m \in Node \ {n} : GoodFrame(f, m, h)
  BY <1>10, <1>11 DEF GoodFrame, GoodData, KeyOf, Key
<1>13. Follows(c, c, n, h, h)
  BY <1>7, FollowsItself
<1> QED BY <1>2, <1>3, <1>6, <1>12, <1>13, TransmitStep

LEMMA SendMulticastUnicastAckStep ==
  ASSUME IInv, NEW n \in Node, SendMulticastUnicastAck(n) PROVE IInv' /\ StepConfirmed
<1>1. PICK i \in FirstOfType(ec[n].sq, MULTICAST_UNICAST_ACK) :
        Transmit(n, [ec[n] EXCEPT !.sq = FreePacket(ec[n].sq, i),
                       !.ack_timer = OfType(FreePacket(ec[n].sq, i), MULTICAST_UNICAST_ACK) # {}],
                 ec[n].sq.queued[i].p)
  BY DEF SendMulticastUnicastAck
<1>2. PICK h \in Histories : h = HandedKeys
  BY HandedKeysTyped DEF IInv
<1>3. PICK c : c = ec[n]
  OBVIOUS
<1>4. PICK b : b = c.sq.queued[i]
  OBVIOUS
<1>5. PICK pb : pb = FreePacket(c.sq, i)
  OBVIOUS
<1>6. PICK t \in BOOLEAN : t = (OfType(pb, MULTICAST_UNICAST_ACK) # {})
  OBVIOUS
<1>7. PICK d : d = [c EXCEPT !.sq = pb, !.ack_timer = t]
  OBVIOUS
<1>8. Transmit(n, d, b.p)
  BY <1>1, <1>3, <1>4, <1>5, <1>6, <1>7
<1>9. /\ c \in Records(n, h) /\ c.sq \in Buffers(n, h) /\ i \in DOMAIN c.sq.queued
      /\ b.type = MULTICAST_UNICAST_ACK /\ b.p \in Packet /\ GoodEntry(n, b, h)
  BY <1>2, <1>3, <1>4, FirstIsThere, TypesDiffer
<1>10. pb \in Buffers(n, h) /\ Confirmed(c.sq, pb, h) /\ (Reports(pb) => Reports(c.sq))
  BY <1>4, <1>5, <1>9, FreeGood, TypesDiffer
<1>11. d \in Records(n, h) /\ d.sq = pb /\ (d.mesh_timer <=> c.mesh_timer)
  BY <1>7, <1>9, <1>10 DEF Records
<1>12. Follows(c, d, n, h, h)
  BY <1>9, <1>10, <1>11, FollowsQueue
<1>13. KeyOf(b.p) \in Key /\ \A m \in Node \ {n} : GoodFrame(b.p, m, h)
  <2>1. b.p.ack /\ b.p.originator \in Node /\ GoodAck(n, b.p, h) /\ b.p.seqno \in 0..255
    BY <1>9, TypesDiffer DEF GoodEntry, Packet
  <2> QED BY <1>9, <2>1 DEF GoodFrame, GoodAck, KeyOf, Key
<1> QED BY <1>2, <1>3, <1>8, <1>12, <1>13, TransmitStep

\* The first report, if there is one, is freed and the next one is looked at.
LEMMA MeshdataSentGood ==
  ASSUME IInv, UNCHANGED <<losses, floods, handed, missed>>, NEW n \in Node,
         NEW c \in Records(n, HandedKeys), Confirmed(ec[n].sq, c.sq, HandedKeys),
         mesh' \in [Node -> [route : BOOLEAN, queued_data : BOOLEAN]],
         \A m \in Node \ {n} : mesh'[m].queued_data <=> mesh[m].queued_data,
         MeshdataSent(n, c)
  PROVE  IInv' /\ StepConfirmed
<1>1. PICK h \in Histories : h = HandedKeys
  BY HandedKeysTyped DEF IInv
<1>2. floods' \subseteq Key /\ losses' \in 0..MaxLosses /\ failed \subseteq Node
  BY DEF IInv
<1>3. CASE FirstOfType(c.sq, MESH_DATA) = {}
  <2>1. ec' = [ec EXCEPT ![n] = c] /\ failed' = failed \cup {n}
    BY <1>3 DEF MeshdataSent
  <2>2. n \in failed' /\ failed \subseteq failed' /\ failed' \subseteq Node
    BY <1>2, <2>1
  <2> QED BY <1>2, <2>1, <2>2, OneRecordChanges
<1>4. CASE FirstOfType(c.sq, MESH_DATA) # {}
  <2>1. PICK i \in FirstOfType(c.sq, MESH_DATA) :
          ec' = [ec EXCEPT ![n] = [c EXCEPT !.sq = FreePacket(c.sq, i), !.mesh_timer = TRUE]]
    BY <1>4 DEF MeshdataSent
  <2>2. failed' = failed
    BY <1>4 DEF MeshdataSent
  <2>3. PICK pb : pb = FreePacket(c.sq, i)
    OBVIOUS
  <2>4. PICK yes \in BOOLEAN : yes = TRUE
    BY Zenon
  <2>5. PICK d : d = [c EXCEPT !.sq = pb, !.mesh_timer = yes]
    OBVIOUS
  <2>6. ec' = [ec EXCEPT ![n] = d]
    BY <2>1, <2>3, <2>4, <2>5, Zenon
  <2>7. /\ c.sq \in Buffers(n, h) /\ i \in DOMAIN c.sq.queued
        /\ c.sq.queued[i].type = MESH_DATA
    BY <1>1, FirstOfPositions DEF FirstOfType, OfType, Records
  <2>8. pb \in Buffers(n, h) /\ Confirmed(c.sq, pb, h)
    BY <2>3, <2>7, FreeGood, TypesDiffer
  <2>9. d \in Records(n, h) /\ d.sq = pb /\ d.mesh_timer
    BY <1>1, <2>4, <2>5, <2>8 DEF Records
  <2>10. Confirmed(ec[n].sq, d.sq, h)
    BY <1>1, <2>8, <2>9 DEF Confirmed
  <2> QED BY <1>1, <1>2, <2>2, <2>6, <2>9, <2>10, OneRecordChanges
<1> QED BY <1>3, <1>4

LEMMA FoundRouteStep ==
  ASSUME IInv, NEW n \in Node, FoundRoute(n) PROVE IInv' /\ StepConfirmed
<1>1. /\ UNCHANGED <<losses, floods, handed, missed>> /\ MeshdataSent(n, ec[n])
      /\ ec[n] \in Records(n, HandedKeys)
  BY DEF FoundRoute, IInv
<1>2. PICK yes \in BOOLEAN, no \in BOOLEAN : yes = TRUE /\ no = FALSE
  BY Zenon
<1>3. PICK r \in [route : BOOLEAN, queued_data : BOOLEAN] : r = [route |-> yes, queued_data |-> no]
  OBVIOUS
<1>4. mesh' = [mesh EXCEPT ![n] = r]
  BY <1>2, <1>3, Zenon DEF FoundRoute
<1>5. /\ mesh' \in [Node -> [route : BOOLEAN, queued_data : BOOLEAN]]
      /\ \A m \in Node \ {n} : mesh'[m].queued_data <=> mesh[m].queued_data
  BY <1>4 DEF IInv
<1>6. Confirmed(ec[n].sq, ec[n].sq, HandedKeys)
  BY DEF Confirmed
<1> QED BY <1>1, <1>5, <1>6, MeshdataSentGood

\* The report that is sent is the first, and was not tried too often.
LEMMA MeshSendStep ==
  ASSUME IInv, UNCHANGED <<losses, floods, handed, missed>>, NEW n \in Node, n \notin failed,
         NEW c \in Records(n, HandedKeys), Confirmed(ec[n].sq, c.sq, HandedKeys),
         NEW j \in FirstOfType(c.sq, MESH_DATA),
         c.sq.queued[j].times_sent < MaxTimesSentMesh, MeshSend(n, c, j)
  PROVE  IInv' /\ StepConfirmed
<1>1. PICK h \in Histories : h = HandedKeys
  BY HandedKeysTyped DEF IInv
<1>2. PICK pb : pb = IncrementTimesSent(c.sq, j)
  OBVIOUS
<1>3. PICK no \in BOOLEAN : no = FALSE
  BY Zenon
<1>4. PICK d : d = [c EXCEPT !.sq = pb, !.mesh_timer = no]
  OBVIOUS
<1>5. d = [c EXCEPT !.sq = IncrementTimesSent(@, j), !.mesh_timer = FALSE]
  BY <1>2, <1>3, <1>4, Zenon
<1>6. c.sq \in Buffers(n, h)
  BY <1>1 DEF Records
<1>7. pb \in Buffers(n, h) /\ Confirmed(c.sq, pb, h)
  BY <1>2, <1>6, IncrementGood
<1>8. d \in Records(n, h) /\ d.sq = pb
  BY <1>1, <1>4, <1>7 DEF Records
<1>9. Confirmed(ec[n].sq, d.sq, h)
  BY <1>1, <1>7, <1>8 DEF Confirmed
<1>10. CASE mesh[n].route /\ MeshdataSent(n, d) /\ UNCHANGED mesh
  <2>1. mesh' \in [Node -> [route : BOOLEAN, queued_data : BOOLEAN]] /\ mesh' = mesh
    BY <1>10 DEF IInv
  <2> QED BY <1>1, <1>8, <1>9, <1>10, <2>1, MeshdataSentGood
<1>11. CASE /\ mesh' = [mesh EXCEPT ![n].queued_data = TRUE]
            /\ ec' = [ec EXCEPT ![n] = d] /\ UNCHANGED failed
  <2>1. /\ mesh' \in [Node -> [route : BOOLEAN, queued_data : BOOLEAN]]
        /\ mesh'[n].queued_data
        /\ \A m \in Node \ {n} : mesh'[m].queued_data <=> mesh[m].queued_data
    BY <1>11 DEF IInv
  <2>2. /\ floods' \subseteq Key /\ losses' \in 0..MaxLosses
        /\ failed' \subseteq Node /\ failed \subseteq failed'
    BY <1>11 DEF IInv
  <2> QED BY <1>1, <1>8, <1>9, <1>11, <2>1, <2>2, OneRecordChanges
<1>12. MeshSend(n, c, j) <=>
         \/ mesh[n].route /\ MeshdataSent(n, d) /\ UNCHANGED mesh
         \/ /\ ~mesh[n].route
            /\ mesh' = [mesh EXCEPT ![n].queued_data = TRUE]
            /\ ec' = [ec EXCEPT ![n] = d] /\ UNCHANGED failed
  BY <1>5, Zenon DEF MeshSend
<1> QED BY <1>10, <1>11, <1>12

LEMMA NoReports ==
  ASSUME NEW n \in Node, NEW h \in Histories, NEW pb \in Buffers(n, h),
         FirstOfType(pb, MESH_DATA) = {}
  PROVE  ~Reports(pb)
<1>1. pb \in BufferOf(GoodEntries(n, h))
  BY DEF Buffers
<1>2. \A b \in GoodEntries(n, h) : b.type \in Nat
  BY TypesDiffer DEF GoodEntries, BufferedPacket
<1> QED BY <1>1, <1>2, FirstOfTypeFound DEF Reports

\* When the first report makes way, the next one was not tried yet.
LEMMA NextWasNotTried ==
  ASSUME NEW n \in Node, NEW h \in Histories, NEW pb \in Buffers(n, h),
         NEW i \in FirstOfType(pb, MESH_DATA),
         NEW j \in FirstOfType(FreePacket(pb, i), MESH_DATA)
  PROVE  FreePacket(pb, i).queued[j].times_sent < MaxTimesSentMesh
<1> DEFINE q == pb.queued
           q2 == FreePacket(pb, i).queued
<1>1. /\ i \in DOMAIN q /\ q[i].type = MESH_DATA
      /\ \A k \in DOMAIN q : q[k].type = MESH_DATA => i <= k
  <2>1. MESH_DATA \in Nat
    BY TypesDiffer
  <2>2. i \in OfType(pb, MESH_DATA) /\ \A k \in OfType(pb, MESH_DATA) : i <= k
    BY <2>1, FirstOfTypeLeast
  <2> QED BY <2>2 DEF OfType
<1>2. j \in DOMAIN q2 /\ q2[j].type = MESH_DATA
  BY FirstOfPositions DEF FirstOfType, OfType
<1>3. /\ Len(q) \in Nat /\ DOMAIN q = 1..Len(q) /\ DOMAIN q2 = 1..(Len(q) - 1)
      /\ \A k \in 1..(Len(q) - 1) : q2[k] = IF k < i THEN q[k] ELSE q[k + 1]
  BY <1>1, FreePacketPositions DEF Buffers
<1> HIDE DEF q, q2
<1>4. PICK k \in DOMAIN q : q[k] = q2[j] /\ k # i
  <2>1. CASE j < i
    BY <1>1, <1>2, <1>3, <2>1
  <2>2. CASE ~(j < i)
    BY <1>1, <1>2, <1>3, <2>2
  <2> QED BY <2>1, <2>2
<1>5. i < k
  BY <1>1, <1>2, <1>3, <1>4
<1>6. q2[j].times_sent = 0
  BY <1>1, <1>2, <1>4, <1>5 DEF Buffers, TriedInOrder, OfType, q
<1> QED BY <1>6, EmergencyConnAssumption DEF q2

\* A report that was tried too often makes way for the next.
NextTried(e, i) ==
  IF e.sq.queued[i].times_sent < MaxTimesSentMesh THEN e
  ELSE [e EXCEPT !.sq = FreePacket(e.sq, i)]

\* The record c, from which a report is sent, after e.
Sends(e, c, n, h) ==
  /\ c \in Records(n, h) /\ c.sq \in Buffers(n, h) /\ Confirmed(e.sq, c.sq, h)
  /\ \A j \in FirstOfType(c.sq, MESH_DATA) : c.sq.queued[j].times_sent < MaxTimesSentMesh

LEMMA NextReport ==
  ASSUME NEW n \in Node, NEW h \in Histories, NEW e \in Records(n, h),
         NEW i \in FirstOfType(e.sq, MESH_DATA)
  PROVE  Sends(e, NextTried(e, i), n, h)
<1>1. PICK c : c = NextTried(e, i)
  OBVIOUS
<1> SUFFICES Sends(e, c, n, h)
  BY <1>1
<1>2. /\ e.sq \in Buffers(n, h) /\ i \in DOMAIN e.sq.queued
      /\ e.sq.queued[i].type = MESH_DATA
  BY FirstOfPositions DEF FirstOfType, OfType, Records
<1>3. CASE e.sq.queued[i].times_sent < MaxTimesSentMesh
  <2>1. c = e
    BY <1>1, <1>3 DEF NextTried
  <2>2. \A j \in FirstOfType(e.sq, MESH_DATA) : j = i
    <3>1. \A j \in FirstOfType(e.sq, MESH_DATA) :
            j \in OfType(e.sq, MESH_DATA) /\ \A k \in OfType(e.sq, MESH_DATA) : j <= k
      BY TypesDiffer, FirstOfTypeLeast
    <3>2. OfType(e.sq, MESH_DATA) \subseteq Nat
      BY <1>2, EntryAt DEF OfType
    <3> QED BY <3>1, <3>2
  <2> QED BY <1>2, <1>3, <2>1, <2>2 DEF Confirmed, Sends
<1>4. CASE ~(e.sq.queued[i].times_sent < MaxTimesSentMesh)
  <2>1. PICK pb : pb = FreePacket(e.sq, i)
    OBVIOUS
  <2>2. pb \in Buffers(n, h) /\ Confirmed(e.sq, pb, h)
    BY <1>2, <2>1, FreeGood, TypesDiffer
  <2>3. c = [e EXCEPT !.sq = pb]
    BY <1>1, <1>4, <2>1 DEF NextTried
  <2>4. c \in Records(n, h) /\ c.sq = pb
    BY <1>2, <2>2, <2>3 DEF Records
  <2>5. \A j \in FirstOfType(pb, MESH_DATA) : pb.queued[j].times_sent < MaxTimesSentMesh
    BY <1>2, <2>1, NextWasNotTried
  <2> QED BY <2>2, <2>4, <2>5 DEF Sends
<1> QED BY <1>3, <1>4

LEMMA SendMeshDataStep ==
  ASSUME IInv, NEW n \in Node, SendMeshData(n) PROVE IInv' /\ StepConfirmed
<1>1. PICK i \in FirstOfType(ec[n].sq, MESH_DATA) :
        LET c    == IF ec[n].sq.queued[i].times_sent < MaxTimesSentMesh
                    THEN ec[n] ELSE [ec[n] EXCEPT !.sq = FreePacket(@, i)]
            next == FirstOfType(c.sq, MESH_DATA)
        IN  \/ \E j \in next : MeshSend(n, c, j)
            \/ /\ next = {}
               /\ ec' = [ec EXCEPT ![n] = [c EXCEPT !.mesh_timer = FALSE]]
               /\ UNCHANGED <<mesh, failed>>
  BY DEF SendMeshData
<1>2. /\ n \notin failed /\ UNCHANGED <<losses, floods, handed, missed>>
  BY DEF SendMeshData
<1>3. PICK h \in Histories : h = HandedKeys
  BY HandedKeysTyped DEF IInv
<1>4. PICK e : e = ec[n]
  OBVIOUS
<1>5. /\ e \in Records(n, h) /\ e.sq \in Buffers(n, h) /\ i \in DOMAIN e.sq.queued
      /\ e.sq.queued[i].type = MESH_DATA
  BY <1>3, <1>4, FirstIsThere, TypesDiffer
<1>6. PICK c : c = NextTried(e, i)
  OBVIOUS
<1>7. /\ c \in Records(n, h) /\ c.sq \in Buffers(n, h) /\ Confirmed(e.sq, c.sq, h)
      /\ \A j \in FirstOfType(c.sq, MESH_DATA) : c.sq.queued[j].times_sent < MaxTimesSentMesh
  <2>1. Sends(e, c, n, h)
    BY <1>4, <1>5, <1>6, NextReport
  <2> QED BY <2>1 DEF Sends
<1>8. \/ \E j \in FirstOfType(c.sq, MESH_DATA) : MeshSend(n, c, j)
      \/ /\ FirstOfType(c.sq, MESH_DATA) = {}
         /\ ec' = [ec EXCEPT ![n] = [c EXCEPT !.mesh_timer = FALSE]]
         /\ UNCHANGED <<mesh, failed>>
  BY <1>1, <1>4, <1>6 DEF NextTried
<1>9. CASE \E j \in FirstOfType(c.sq, MESH_DATA) : MeshSend(n, c, j)
  BY <1>2, <1>3, <1>4, <1>7, <1>9, MeshSendStep
<1>10. CASE /\ FirstOfType(c.sq, MESH_DATA) = {}
            /\ ec' = [ec EXCEPT ![n] = [c EXCEPT !.mesh_timer = FALSE]]
            /\ UNCHANGED <<mesh, failed>>
  <2>1. PICK no \in BOOLEAN : no = FALSE
    BY Zenon
  <2>2. PICK d : d = [c EXCEPT !.mesh_timer = no]
    OBVIOUS
  <2>3. ec' = [ec EXCEPT ![n] = d]
    BY <1>10, <2>1, <2>2, Zenon
  <2>4. d \in Records(n, h) /\ d.sq = c.sq
    BY <1>7, <2>2 DEF Records
  <2>5. ~Reports(d.sq)
    BY <1>7, <1>10, <2>4, NoReports
  <2>6. /\ mesh' \in [Node -> [route : BOOLEAN, queued_data : BOOLEAN]] /\ mesh' = mesh
        /\ failed' = failed /\ failed' \subseteq Node /\ floods' \subseteq Key
        /\ losses' \in 0..MaxLosses
    BY <1>2, <1>10 DEF IInv
  <2> QED BY <1>2, <1>3, <1>4, <1>7, <2>3, <2>4, <2>5, <2>6, OneRecordChanges
<1> QED BY <1>8, <1>9, <1>10

\* What the steps have in common that change one record and nothing of the mesh.
LEMMA RecordStep ==
  ASSUME IInv, UNCHANGED <<mesh, failed, losses, handed, missed>>, floods' \subseteq Key,
         NEW n \in Node, NEW d \in Records(n, HandedKeys),
         ec' = [ec EXCEPT ![n] = d], Confirmed(ec[n].sq, d.sq, HandedKeys),
         Reports(d.sq) => d.mesh_timer \/ (Reports(ec[n].sq) /\ ~ec[n].mesh_timer)
  PROVE  IInv' /\ StepConfirmed
<1>1. /\ mesh' \in [Node -> [route : BOOLEAN, queued_data : BOOLEAN]] /\ mesh' = mesh
      /\ failed' = failed /\ failed' \subseteq Node /\ losses' \in 0..MaxLosses
  BY DEF IInv
<1>2. n \notin failed' => (Reports(d.sq) => d.mesh_timer \/ mesh'[n].queued_data)
  BY <1>1 DEF IInv, ReportNotStranded, Reports
<1> QED BY <1>1, <1>2, OneRecordChanges

LEMMA NothingToSendStep ==
  ASSUME IInv, NEW n \in Node, NothingToSend(n) PROVE IInv' /\ StepConfirmed
<1>1. PICK h \in Histories : h = HandedKeys
  BY HandedKeysTyped DEF IInv
<1>2. PICK c : c = ec[n]
  OBVIOUS
<1>3. c \in Records(n, h) /\ c.sq \in Buffers(n, h)
  BY <1>1, <1>2 DEF IInv, Records
<1>4. PICK no \in BOOLEAN : no = FALSE
  BY Zenon
<1>5. /\ UNCHANGED <<mesh, failed, losses, handed, missed>> /\ floods' \subseteq Key
  BY DEF NothingToSend, IInv
<1>6. CASE ec' = [ec EXCEPT ![n].data_timer = FALSE]
  <2>1. PICK d : d = [c EXCEPT !.data_timer = no]
    OBVIOUS
  <2>2. ec' = [ec EXCEPT ![n] = d]
    BY <1>2, <1>4, <1>6, <2>1, Zenon
  <2>3. d \in Records(n, h) /\ d.sq = c.sq /\ (d.mesh_timer <=> c.mesh_timer)
    BY <1>3, <2>1 DEF Records
  <2>4. Confirmed(c.sq, d.sq, h)
    BY <2>3 DEF Confirmed
  <2> QED BY <1>1, <1>2, <1>5, <2>2, <2>3, <2>4, RecordStep
<1>7. CASE FirstOfType(ec[n].sq, MESH_DATA) = {} /\ ec' = [ec EXCEPT ![n].mesh_timer = FALSE]
  <2>1. PICK d : d = [c EXCEPT !.mesh_timer = no]
    OBVIOUS
  <2>2. ec' = [ec EXCEPT ![n] = d]
    BY <1>2, <1>4, <1>7, <2>1, Zenon
  <2>3. d \in Records(n, h) /\ d.sq = c.sq
    BY <1>3, <2>1 DEF Records
  <2>4. Confirmed(c.sq, d.sq, h) /\ ~Reports(d.sq)
    BY <1>2, <1>3, <1>7, <2>3, NoReports DEF Confirmed
  <2> QED BY <1>1, <1>2, <1>5, <2>2, <2>3, <2>4, RecordStep
<1>8. CASE ec' = [ec EXCEPT ![n].broadcast_timer = FALSE]
  <2>1. PICK d : d = [c EXCEPT !.broadcast_timer = no]
    OBVIOUS
  <2>2. ec' = [ec EXCEPT ![n] = d]
    BY <1>2, <1>4, <1>8, <2>1, Zenon
  <2>3. d \in Records(n, h) /\ d.sq = c.sq /\ (d.mesh_timer <=> c.mesh_timer)
    BY <1>3, <2>1 DEF Records
  <2>4. Confirmed(c.sq, d.sq, h)
    BY <2>3 DEF Confirmed
  <2> QED BY <1>1, <1>2, <1>5, <2>2, <2>3, <2>4, RecordStep
<1>9. CASE ec' = [ec EXCEPT ![n].ack_timer = FALSE]
  <2>1. PICK d : d = [c EXCEPT !.ack_timer = no]
    OBVIOUS
  <2>2. ec' = [ec EXCEPT ![n] = d]
    BY <1>2, <1>4, <1>9, <2>1, Zenon
  <2>3. d \in Records(n, h) /\ d.sq = c.sq /\ (d.mesh_timer <=> c.mesh_timer)
    BY <1>3, <2>1 DEF Records
  <2>4. Confirmed(c.sq, d.sq, h)
    BY <2>3 DEF Confirmed
  <2> QED BY <1>1, <1>2, <1>5, <2>2, <2>3, <2>4, RecordStep
<1> QED BY <1>6, <1>7, <1>8, <1>9 DEF NothingToSend

LEMMA RouteTimedOutStep ==
  ASSUME IInv, NEW n \in Node, RouteTimedOut(n) PROVE IInv' /\ StepConfirmed
<1>1. PICK yes \in BOOLEAN, no \in BOOLEAN : yes = TRUE /\ no = FALSE
  BY Zenon
<1>2. PICK d : d = [ec[n] EXCEPT !.mesh_timer = yes]
  OBVIOUS
<1>3. ec' = [ec EXCEPT ![n] = d]
  BY <1>1, <1>2, Zenon DEF RouteTimedOut
<1>4. ec[n] \in Records(n, HandedKeys)
  BY DEF IInv
<1>5. d \in Records(n, HandedKeys) /\ d.sq = ec[n].sq /\ d.mesh_timer
  BY <1>1, <1>2, <1>4 DEF Records
<1>6. mesh' = [mesh EXCEPT ![n].queued_data = no]
  BY <1>1, Zenon DEF RouteTimedOut
<1>7. /\ mesh' \in [Node -> [route : BOOLEAN, queued_data : BOOLEAN]]
      /\ \A m \in Node \ {n} : mesh'[m].queued_data <=> mesh[m].queued_data
  BY <1>6 DEF IInv
<1>8. Confirmed(ec[n].sq, d.sq, HandedKeys)
  BY <1>5 DEF Confirmed
<1>9. /\ UNCHANGED <<handed, missed>> /\ floods' \subseteq Key /\ losses' \in 0..MaxLosses
      /\ failed' \subseteq Node /\ failed \subseteq failed'
  BY DEF RouteTimedOut, IInv
<1> QED BY <1>3, <1>5, <1>7, <1>8, <1>9, OneRecordChanges

LEMMA RouteChangesStep ==
  ASSUME IInv, NEW n \in Node, RouteChanges(n) PROVE IInv' /\ StepConfirmed
<1>1. PICK t \in BOOLEAN : t = ~mesh[n].route
  OBVIOUS
<1>2. mesh' = [mesh EXCEPT ![n].route = t]
  BY <1>1 DEF RouteChanges
<1>3. /\ mesh' \in [Node -> [route : BOOLEAN, queued_data : BOOLEAN]]
      /\ \A m \in Node : mesh'[m].queued_data <=> mesh[m].queued_data
  BY <1>2 DEF IInv
<1>4. UNCHANGED <<ec, failed, losses, floods, handed, missed>>
  BY DEF RouteChanges
<1>5. StepConfirmed
  BY <1>4 DEF StepConfirmed, Confirmed
<1>6. ReportNotStranded'
  BY <1>3, <1>4 DEF IInv, ReportNotStranded, OfType
<1>7. HandedKeys' = HandedKeys
  BY <1>4 DEF HandedKeys
<1> QED BY <1>3, <1>4, <1>5, <1>6, <1>7 DEF IInv

\* A packet of the node's own.
LEMMA OwnKeyKnown ==
  ASSUME IInv, NEW n \in Node
  PROVE  /\ OwnKey(n) \in Key /\ OwnKey(n)[1] = n /\ OwnKey(n) \in KnownKeys(n, HandedKeys)
         /\ Follows(ec[n], Counted(ec[n]), n, HandedKeys, HandedKeys)
<1>1. ec[n] \in Records(n, HandedKeys) /\ HandedKeys \in Histories
  BY HandedKeysTyped DEF IInv
<1>2. ec[n].seqno \in 0..255
  BY <1>1 DEF Records
<1>3. PICK k \in 0..255 : k = (ec[n].seqno + 1) % 256
  BY <1>2, SeqnoFits
<1>4. PICK h, c : h \in Histories /\ h = HandedKeys /\ c = ec[n] /\ c \in Records(n, h)
  BY <1>1
<1>5. Follows(ec[n], Counted(ec[n]), n, HandedKeys, HandedKeys)
  <2>1. Follows(c, [c EXCEPT !.seqno = k], n, h, h)
    BY <1>4, SeqnoFollows
  <2>2. Counted(c) = [c EXCEPT !.seqno = k]
    BY <1>3, <1>4 DEF Counted
  <2> QED BY <1>4, <2>1, <2>2
<1>6. OwnKey(n) \in Key /\ OwnKey(n)[1] = n
  BY <1>2 DEF OwnKey, Key
<1> QED BY <1>5, <1>6 DEF KnownKeys

LEMMA AppBroadcastStep ==
  ASSUME IInv, NEW n \in Node, NEW data \in {EMERGENCY_PACKET, EXTRACT_REPORT_PACKET},
         AppBroadcast(n, data)
  PROVE  IInv' /\ StepConfirmed
<1>1. PICK h \in Histories : h = HandedKeys
  BY HandedKeysTyped DEF IInv
<1>2. PICK c : c = Counted(ec[n])
  OBVIOUS
<1>3. PICK d : d = EcBroadcast(c, n, OwnKey(n), data)
  OBVIOUS
<1>4. ec' = [ec EXCEPT ![n] = d]
  BY <1>2, <1>3 DEF AppBroadcast
<1>5. /\ OwnKey(n) \in Key /\ OwnKey(n) \in KnownKeys(n, h) /\ Follows(ec[n], c, n, h, h)
  BY <1>1, <1>2, OwnKeyKnown
<1>6. Follows(c, d, n, h, h)
  <2>1. c \in Records(n, h)
    BY <1>5 DEF Follows
  <2> QED BY <1>3, <1>5, <2>1, BroadcastFollows
<1>7. Follows(ec[n], d, n, h, h)
  BY <1>5, <1>6, FollowsOn
<1>8. /\ UNCHANGED <<mesh, failed, losses, handed, missed>> /\ floods' \subseteq Key
  BY <1>5 DEF AppBroadcast, IInv
<1>9. /\ d \in Records(n, h) /\ Confirmed(ec[n].sq, d.sq, h)
      /\ ec[n].mesh_timer => d.mesh_timer
      /\ Reports(d.sq) => Reports(ec[n].sq) \/ d.mesh_timer
  BY <1>7 DEF Follows
<1> QED BY <1>1, <1>4, <1>8, <1>9, RecordStep

LEMMA AppMulticastStep ==
  ASSUME IInv, NEW n \in Node, AppMulticast(n) PROVE IInv' /\ StepConfirmed
<1>1. PICK h \in Histories : h = HandedKeys
  BY HandedKeysTyped DEF IInv
<1>2. PICK c : c = Counted(ec[n])
  OBVIOUS
<1>3. PICK d : d = EcReliableMulticast(c, n, Receivers[n], OwnKey(n), IM_YOUR_NEW_NEIGHBOR)
  OBVIOUS
<1>4. ec' = [ec EXCEPT ![n] = d]
  BY <1>2, <1>3 DEF AppMulticast
<1>5. /\ OwnKey(n) \in Key /\ OwnKey(n)[1] = n /\ OwnKey(n) \in KnownKeys(n, h)
      /\ Follows(ec[n], c, n, h, h)
  BY <1>1, <1>2, OwnKeyKnown
<1>6. Follows(c, d, n, h, h)
  <2>1. c \in Records(n, h)
    BY <1>5 DEF Follows
  <2>2. Receivers[n] \in SUBSET Node /\ n \notin Receivers[n]
    BY EmergencyConnAssumption
  <2> QED BY <1>3, <1>5, <2>1, <2>2, MulticastFollows
<1>7. Follows(ec[n], d, n, h, h)
  BY <1>5, <1>6, FollowsOn
<1>8. /\ UNCHANGED <<mesh, failed, losses, handed, missed>> /\ floods' \subseteq Key
  BY DEF AppMulticast, IInv
<1>9. /\ d \in Records(n, h) /\ Confirmed(ec[n].sq, d.sq, h)
      /\ ec[n].mesh_timer => d.mesh_timer
      /\ Reports(d.sq) => Reports(ec[n].sq) \/ d.mesh_timer
  BY <1>7 DEF Follows
<1> QED BY <1>1, <1>4, <1>8, <1>9, RecordStep

-----------------------------------------------------------------------------
(* The invariant holds, and what it is for.                                *)

LEMMA InitIInv == Init => IInv
<1> SUFFICES ASSUME Init PROVE IInv
  OBVIOUS
<1>1. PICK no \in BOOLEAN : no = FALSE
  BY Zenon
<1>2. handed \in [Node -> Seq(Key)]
  <2>1. << >> \in Seq(Key)
    BY EmptySeq
  <2> QED BY <2>1 DEF Init
<1>3. HandedKeys \in Histories
  BY <1>2, HandedKeysTyped
<1>4. ASSUME NEW n \in Node
      PROVE  ec[n] \in Records(n, HandedKeys) /\ ~Reports(ec[n].sq)
  <2> DEFINE S == GoodEntries(n, HandedKeys)
             K == KnownKeys(n, HandedKeys)
  <2>1. EmptyBuffer \in BufferOf(S) /\ EmptyBuffer.queued = << >>
    BY EmptyBufferOf DEF EmptyBuffer
  <2>2. PICK pb : pb = EmptyBuffer
    OBVIOUS
  <2>3. DOMAIN pb.queued = {}
    BY <2>1, <2>2, EmptySeq
  <2>4. pb \in Buffers(n, HandedKeys) /\ ~Reports(pb)
    BY <2>1, <2>2, <2>3 DEF Buffers, TriedInOrder, OfType, Reports
  <2>5. PICK dq \in Seq(K) : dq = << >>
    BY EmptySeq
  <2>6. ec[n] = [sq |-> pb, dq |-> dq, ns |-> Neighbors[n], seqno |-> 0,
                 broadcast_timer |-> no, data_timer |-> no, ack_timer |-> no, mesh_timer |-> no]
    BY <1>1, <2>2, <2>5 DEF Init
  <2>7. Neighbors[n] \in SUBSET Node
    BY EmergencyConnAssumption
  <2> QED BY <2>4, <2>6, <2>7 DEF Records
<1>5. ec \in [Node -> EcRecord]
  <2>1. \A n \in Node : ec[n] \in EcRecord
    BY <1>3, <1>4, RecordsTyped
  <2>2. DOMAIN ec = Node /\ ec = [n \in DOMAIN ec |-> ec[n]]
    BY DEF Init
  <2> QED BY <2>1, <2>2
<1>6. ReportNotStranded
  BY <1>4 DEF ReportNotStranded, Reports
<1>7. mesh \in [Node -> [route : BOOLEAN, queued_data : BOOLEAN]]
  BY DEF Init
<1>8. failed \subseteq Node /\ losses \in 0..MaxLosses /\ floods \subseteq Key
      /\ missed \in [Node -> SUBSET Key]
  BY EmergencyConnAssumption DEF Init
<1> QED BY <1>2, <1>4, <1>5, <1>6, <1>7, <1>8 DEF IInv

LEMMA NextIInv ==
  ASSUME IInv, [Next]_vars PROVE IInv' /\ StepConfirmed
<1>1. CASE UNCHANGED vars
  <2>1. ec' = ec
    BY <1>1 DEF vars
  <2>2. StepConfirmed
    BY <2>1 DEF StepConfirmed, Confirmed
  <2>3. HandedKeys' = HandedKeys
    BY <1>1 DEF HandedKeys, vars
  <2>4. ReportNotStranded'
    BY <1>1 DEF IInv, ReportNotStranded, OfType, vars
  <2> QED BY <1>1, <2>2, <2>3, <2>4 DEF IInv, vars
<1>2. ASSUME NEW n \in Node, SenseEmergency(n) PROVE IInv' /\ StepConfirmed
  BY <1>2, AppBroadcastStep DEF SenseEmergency
<1>3. CASE ExtractReports
  BY <1>3, AppBroadcastStep, EmergencyConnAssumption DEF ExtractReports
<1> QED
  BY <1>1, <1>2, <1>3, NothingToSendStep, SendBroadcastDataStep, SendMulticastUnicastDataStep,
     SendMulticastUnicastAckStep, SendMeshDataStep, FoundRouteStep, RouteTimedOutStep,
     RouteChangesStep, AppMulticastStep DEF Next

LEMMA AlwaysIInv == Spec => []IInv
BY InitIInv, NextIInv, PTL DEF Spec

LEMMA IInvTyped == IInv => TypeOK
<1> SUFFICES ASSUME IInv PROVE TypeOK
  OBVIOUS
<1>1. \A n \in Node : Len(ec[n].sq.queued) + Len(ec[n].sq.leftover) = SendingQueueLength
  BY HandedKeysTyped, RecordsTyped DEF IInv
<1> QED BY <1>1 DEF IInv, TypeOK

\* Every variable of every node stays within its type: no slot of a sending queue
\* is lost between its list and the free ones (packet_buffer.c), and no report is
\* tried more often than send_mesh_data allows.
THEOREM EmergencyConnTyped == Spec => []TypeOK
BY AlwaysIInv, IInvTyped, PTL

\* A report in the queue always has its timer set or its route looked for:
\* meshdata_sent and meshdata_timeout (emergency_conn.c:808) wake every one.
THEOREM ReportsAreTried == Spec => []ReportNotStranded
<1>1. IInv => ReportNotStranded
  BY DEF IInv
<1> QED BY <1>1, AlwaysIInv, PTL

LEMMA ConfirmedStep ==
  ASSUME IInv, [Next]_vars, ~UNCHANGED vars
  PROVE  \A n \in Node : \A p \in MulticastsOf(n) \ MulticastsOf(n)' :
           \A m \in p.to : KeyOf(p) \in ToSet(handed[m])
<1>1. StepConfirmed
  BY NextIInv
<1>2. SUFFICES ASSUME NEW n \in Node, NEW p \in MulticastsOf(n) \ MulticastsOf(n)', NEW m \in p.to
               PROVE  KeyOf(p) \in ToSet(handed[m])
  OBVIOUS
<1>3. MulticastsOf(n) = Multicasts(ec[n].sq) /\ MulticastsOf(n)' = Multicasts(ec'[n].sq)
  BY DEF MulticastsOf, Multicasts, OfType
<1>4. KeyOf(p) \in HandedKeys[m]
  BY <1>1, <1>3 DEF StepConfirmed, Confirmed
<1>5. m \in Node
  <2>1. PICK i \in DOMAIN ec[n].sq.queued : p = ec[n].sq.queued[i].p
    BY <1>3 DEF Multicasts, OfType
  <2>2. ec[n].sq \in Buffers(n, HandedKeys) /\ HandedKeys \in Histories
    BY HandedKeysTyped DEF IInv, Records
  <2>3. p \in Packet
    BY <2>1, <2>2, EntryAt
  <2> QED BY <2>3 DEF Packet
<1> QED BY <1>4, <1>5, HandedKeysTyped DEF IInv

\* A reliable multicast leaves its queue only when every node it names handed it
\* to its application: received_ack strikes off the right ones, whatever the slot
\* of the packet held before and whoever else uses the queue.
THEOREM MulticastsAreConfirmed == Spec => ConfirmedWasHanded
BY AlwaysIInv, ConfirmedStep, PTL DEF Spec, ConfirmedWasHanded

-----------------------------------------------------------------------------
(* Floods.  A flooded packet that a node has to send on waits in its queue *)
(* until whoever is in range has it, missed it or is stopped.  F are the   *)
(* keys of floods, M those of multicasts.                                  *)

\* The broadcasts that wait in a queue.
Waiting(pb) == {KeyOf(pb.queued[i].p) : i \in OfType(pb, BROADCAST_DATA)}

\* No key is both a broadcast's and a multicast's, or an acknowledgement would
\* free a broadcast.
Keyed(pb, F, M) ==
  \A i \in DOMAIN pb.queued :
    /\ pb.queued[i].type = BROADCAST_DATA => KeyOf(pb.queued[i].p) \in F
    /\ pb.queued[i].type \in {MULTICAST_UNICAST_DATA, MULTICAST_UNICAST_ACK}
         => KeyOf(pb.queued[i].p) \in M

Sound(c, F, M) == Keyed(c.sq, F, M) /\ (Waiting(c.sq) # {} => c.broadcast_timer)

\* The queues of d, a later record of node n than c, hold what those of c did:
\* the sending queue unless a packet found no slot, the other until it is full.
Keeps(c, d, n) ==
  /\ c.sq.null_write => d.sq.null_write
  /\ d.sq.null_write \/ Waiting(c.sq) \subseteq Waiting(d.sq)
  /\ Len(d.dq) < DupeQueueLength =>
       Len(c.dq) < DupeQueueLength /\ ToSet(c.dq) \subseteq ToSet(d.dq)
  /\ n = Sink => d.seqno = c.seqno

Passes(c, d, n, F, M) == Sound(d, F, M) /\ Keeps(c, d, n)

LEMMA PassesItself ==
  ASSUME NEW n, NEW F, NEW M, NEW c, Sound(c, F, M)
  PROVE  Passes(c, c, n, F, M)
BY DEF Passes, Keeps

LEMMA PassesOn ==
  ASSUME NEW n, NEW F, NEW M, NEW c, NEW d, NEW e,
         Passes(c, d, n, F, M), Passes(d, e, n, F, M)
  PROVE  Passes(c, e, n, F, M)
<1>1. e.sq.null_write \/ Waiting(c.sq) \subseteq Waiting(e.sq)
  BY DEF Passes, Keeps
<1>2. Len(e.dq) < DupeQueueLength =>
        Len(c.dq) < DupeQueueLength /\ ToSet(c.dq) \subseteq ToSet(e.dq)
  <2>1. Len(e.dq) < DupeQueueLength =>
          Len(d.dq) < DupeQueueLength /\ ToSet(d.dq) \subseteq ToSet(e.dq)
    BY DEF Passes, Keeps
  <2>2. Len(d.dq) < DupeQueueLength =>
          Len(c.dq) < DupeQueueLength /\ ToSet(c.dq) \subseteq ToSet(d.dq)
    BY DEF Passes, Keeps
  <2> QED BY <2>1, <2>2, Zenon
<1> QED BY <1>1, <1>2 DEF Passes, Keeps

\* A packet is added.
LEMMA AddWaits ==
  ASSUME NEW n \in Node, NEW h \in Histories, NEW F, NEW M, NEW pb \in Buffers(n, h),
         Keyed(pb, F, M), NEW type, NEW p, NEW ns,
         [type |-> type, p |-> p, unacked_ns |-> ns, times_sent |-> 0] \in GoodEntries(n, h),
         type = BROADCAST_DATA => KeyOf(p) \in F,
         type \in {MULTICAST_UNICAST_DATA, MULTICAST_UNICAST_ACK} => KeyOf(p) \in M,
         NEW pb2, pb2 = AddPacket(pb, type, p, ns)
  PROVE  /\ Keyed(pb2, F, M)
         /\ pb.null_write => pb2.null_write
         /\ Waiting(pb) \subseteq Waiting(pb2)
         /\ type # BROADCAST_DATA => Waiting(pb2) \subseteq Waiting(pb)
         /\ type = BROADCAST_DATA => pb2.null_write \/ KeyOf(p) \in Waiting(pb2)
<1> DEFINE S == GoodEntries(n, h)
           b == [type |-> type, p |-> p, unacked_ns |-> ns, times_sent |-> 0]
<1>1. pb \in BufferOf(S)
  BY DEF Buffers
<1>2. CASE Full(pb)
  <2>1. pb2.queued = pb.queued /\ pb2.null_write
    BY <1>1, <1>2 DEF AddPacket, BufferOf
  <2> QED BY <2>1 DEF Keyed, Waiting, OfType
<1>3. CASE ~Full(pb)
  <2> DEFINE q == pb.queued
             q2 == pb2.queued
  <2>1. /\ Len(q) \in Nat /\ DOMAIN q = 1..Len(q) /\ DOMAIN q2 = 1..(Len(q) + 1)
        /\ q2[Len(q) + 1] = b /\ \A i \in 1..Len(q) : q2[i] = q[i]
        /\ pb2.null_write = pb.null_write
    BY <1>1, <1>3, AddPacketPositions
  <2>2. b.type = type /\ b.p = p
    OBVIOUS
  <2> HIDE DEF q, q2, b
  <2>3. \A i \in DOMAIN q2 : (i \in DOMAIN q /\ q2[i] = q[i]) \/ q2[i] = b
    BY <2>1
  <2>4. \A i \in DOMAIN q : i \in DOMAIN q2 /\ q2[i] = q[i]
    BY <2>1
  <2>5. \E i \in DOMAIN q2 : q2[i] = b
    <3>1. Len(q) + 1 \in DOMAIN q2
      BY <2>1
    <3> QED BY <2>1, <3>1
  <2>6. Keyed(pb2, F, M)
    <3>1. \A i \in DOMAIN q : /\ q[i].type = BROADCAST_DATA => KeyOf(q[i].p) \in F
                              /\ q[i].type \in {MULTICAST_UNICAST_DATA, MULTICAST_UNICAST_ACK}
                                   => KeyOf(q[i].p) \in M
      BY DEF Keyed, q
    <3> QED BY <2>2, <2>3, <3>1 DEF Keyed, q2
  <2>7. Waiting(pb) \subseteq Waiting(pb2)
    BY <2>4 DEF Waiting, OfType, q, q2
  <2>8. ASSUME type # BROADCAST_DATA PROVE Waiting(pb2) \subseteq Waiting(pb)
    BY <2>2, <2>3, <2>8 DEF Waiting, OfType, q, q2
  <2>9. ASSUME type = BROADCAST_DATA PROVE KeyOf(p) \in Waiting(pb2)
    BY <2>2, <2>5, <2>9 DEF Waiting, OfType, q2
  <2> QED BY <2>1, <2>6, <2>7, <2>8, <2>9
<1> QED BY <1>2, <1>3

LEMMA AddUntrackedWaits ==
  ASSUME NEW n \in Node, NEW h \in Histories, NEW F, NEW M, NEW pb \in Buffers(n, h),
         Keyed(pb, F, M), NEW type, NEW p,
         \A ns \in SUBSET Node :
           [type |-> type, p |-> p, unacked_ns |-> ns, times_sent |-> 0] \in GoodEntries(n, h),
         type # BROADCAST_DATA,
         type \in {MULTICAST_UNICAST_DATA, MULTICAST_UNICAST_ACK} => KeyOf(p) \in M,
         NEW pb2, pb2 = AddUntrackedPacket(pb, type, p)
  PROVE  /\ Keyed(pb2, F, M)
         /\ pb.null_write => pb2.null_write
         /\ Waiting(pb) = Waiting(pb2)
<1>1. pb \in BufferOf(GoodEntries(n, h)) /\ pb.leftover \in Seq(SUBSET Node)
  BY DEF Buffers, BufferOf
<1>2. PICK ns \in SUBSET Node : pb2 = AddPacket(pb, type, p, ns)
  <2>1. CASE Full(pb)
    <3>1. PICK ns \in SUBSET Node : ns = {}
      OBVIOUS
    <3>2. pb2 = AddPacket(pb, type, p, ns)
      BY <2>1 DEF AddUntrackedPacket, AddPacket
    <3> QED BY <3>2
  <2>2. CASE ~Full(pb)
    <3>1. Head(pb.leftover) \in SUBSET Node
      BY <1>1, <2>2, HeadTailProperties DEF Full
    <3> QED BY <2>2, <3>1 DEF AddUntrackedPacket
  <2> QED BY <2>1, <2>2
<1>3. [type |-> type, p |-> p, unacked_ns |-> ns, times_sent |-> 0] \in GoodEntries(n, h)
  OBVIOUS
<1>4. /\ Keyed(pb2, F, M) /\ (pb.null_write => pb2.null_write)
      /\ Waiting(pb) \subseteq Waiting(pb2) /\ Waiting(pb2) \subseteq Waiting(pb)
  BY <1>2, <1>3, AddWaits
<1> QED BY <1>4

\* A packet is freed; of the broadcasts only that one stops waiting.
LEMMA FreeWaits ==
  ASSUME NEW n \in Node, NEW h \in Histories, NEW F, NEW M, NEW pb \in Buffers(n, h),
         Keyed(pb, F, M), NEW i \in DOMAIN pb.queued, NEW pb2, pb2 = FreePacket(pb, i)
  PROVE  /\ Keyed(pb2, F, M) /\ (pb2.null_write <=> pb.null_write)
         /\ Waiting(pb2) \subseteq Waiting(pb)
         /\ Waiting(pb) \subseteq Waiting(pb2) \cup {KeyOf(pb.queued[i].p)}
         /\ pb.queued[i].type # BROADCAST_DATA => Waiting(pb) \subseteq Waiting(pb2)
<1> DEFINE q == pb.queued
           q2 == pb2.queued
<1>1. /\ Len(q) \in Nat /\ DOMAIN q = 1..Len(q) /\ i \in 1..Len(q)
      /\ DOMAIN q2 = 1..(Len(q) - 1)
      /\ \A j \in 1..(Len(q) - 1) : q2[j] = IF j < i THEN q[j] ELSE q[j + 1]
      /\ pb2.null_write = pb.null_write
  BY FreePacketPositions DEF Buffers
<1> HIDE DEF q, q2
<1>2. \A j \in DOMAIN q2 : \E k \in DOMAIN q : q2[j] = q[k]
  <2>1. ASSUME NEW j \in DOMAIN q2 PROVE \E k \in DOMAIN q : q2[j] = q[k]
    <3>1. CASE j < i
      BY <1>1, <3>1
    <3>2. CASE ~(j < i)
      <4>1. j + 1 \in DOMAIN q /\ q2[j] = q[j + 1]
        BY <1>1, <3>2
      <4> QED BY <4>1
    <3> QED BY <3>1, <3>2
  <2> QED BY <2>1
<1>3. \A j \in DOMAIN q : j = i \/ \E k \in DOMAIN q2 : q2[k] = q[j]
  <2>1. ASSUME NEW j \in DOMAIN q, j # i PROVE \E k \in DOMAIN q2 : q2[k] = q[j]
    <3>1. CASE j < i
      BY <1>1, <3>1
    <3>2. CASE ~(j < i)
      <4>1. j - 1 \in DOMAIN q2 /\ q2[j - 1] = q[j]
        BY <1>1, <2>1, <3>2
      <4> QED BY <4>1
    <3> QED BY <3>1, <3>2
  <2> QED BY <2>1
<1>4. Keyed(pb2, F, M)
  <2>1. \A k \in DOMAIN q : /\ q[k].type = BROADCAST_DATA => KeyOf(q[k].p) \in F
                            /\ q[k].type \in {MULTICAST_UNICAST_DATA, MULTICAST_UNICAST_ACK}
                                 => KeyOf(q[k].p) \in M
    BY DEF Keyed, q
  <2> QED BY <1>2, <2>1 DEF Keyed, q2
<1>5. Waiting(pb2) \subseteq Waiting(pb)
  BY <1>2 DEF Waiting, OfType, q, q2
<1>6. Waiting(pb) \subseteq Waiting(pb2) \cup {KeyOf(q[i].p)}
  BY <1>3 DEF Waiting, OfType, q, q2
<1>7. ASSUME q[i].type # BROADCAST_DATA PROVE Waiting(pb) \subseteq Waiting(pb2)
  BY <1>3, <1>7 DEF Waiting, OfType, q, q2
<1> QED BY <1>1, <1>4, <1>5, <1>6, <1>7 DEF q

\* A packet is rewritten in place, not its header.
LEMMA RewriteWaits ==
  ASSUME NEW n \in Node, NEW h \in Histories, NEW F, NEW M, NEW pb \in Buffers(n, h),
         Keyed(pb, F, M), NEW i \in DOMAIN pb.queued, NEW b \in GoodEntries(n, h),
         b.p = pb.queued[i].p, b.type = pb.queued[i].type,
         NEW pb2, pb2 = [pb EXCEPT !.queued[i] = b]
  PROVE  /\ Keyed(pb2, F, M) /\ (pb2.null_write <=> pb.null_write)
         /\ Waiting(pb2) = Waiting(pb)
<1> DEFINE q == pb.queued
           q2 == pb2.queued
<1>1. pb \in BufferOf(GoodEntries(n, h))
  BY DEF Buffers
<1>2. DOMAIN q2 = DOMAIN q
  BY <1>1, UpdatePacketProperties
<1>3. q2[i] = b /\ (\A j \in DOMAIN q : j # i => q2[j] = q[j]) /\ pb2.null_write = pb.null_write
  BY <1>1 DEF BufferOf
<1> HIDE DEF q2
<1>4. \A j \in DOMAIN q2 : q2[j].type = q[j].type /\ q2[j].p = q[j].p
  BY <1>2, <1>3
<1>5. OfType(pb2, BROADCAST_DATA) = OfType(pb, BROADCAST_DATA)
  BY <1>2, <1>4 DEF OfType, q2
<1>6. Waiting(pb2) = Waiting(pb)
  BY <1>2, <1>4, <1>5 DEF Waiting, OfType, q2
<1>7. Keyed(pb2, F, M)
  BY <1>2, <1>4 DEF Keyed, q2
<1> QED BY <1>3, <1>6, <1>7

\* Of a record the sending queue, the timers and the neighbours change.
LEMMA QueuePasses ==
  ASSUME NEW n, NEW F, NEW M, NEW c, NEW d, Sound(c, F, M), d.dq = c.dq,
         n = Sink => d.seqno = c.seqno, Keyed(d.sq, F, M),
         c.sq.null_write => d.sq.null_write, Waiting(c.sq) \subseteq Waiting(d.sq),
         d.broadcast_timer \/ (Waiting(d.sq) \subseteq Waiting(c.sq) /\ ~c.broadcast_timer)
  PROVE  Passes(c, d, n, F, M)
<1>1. Sound(d, F, M)
  BY DEF Sound
<1>2. Keeps(c, d, n)
  BY DEF Keeps
<1> QED BY <1>1, <1>2 DEF Passes

LEMMA StorePasses ==
  ASSUME NEW n \in Node, NEW h \in Histories, NEW F, NEW M, NEW c \in Records(n, h),
         Sound(c, F, M), NEW key \in KnownKeys(n, h),
         NEW d, d = StorePacketForDupeChecks(c, key)
  PROVE  /\ Passes(c, d, n, F, M) /\ d.sq = c.sq /\ d.seqno = c.seqno
         /\ Len(d.dq) < DupeQueueLength => key \in ToSet(d.dq)
<1>0. PICK S : S = KnownKeys(n, h)
  OBVIOUS
<1> DEFINE q == c.dq
           kept == IF Len(q) < DupeQueueLength THEN q ELSE Front(q)
<1>1. q \in Seq(S) /\ Len(q) \in Nat /\ DOMAIN q = 1..Len(q)
  BY <1>0, LenProperties DEF Records
<1>2. DupeQueueLength \in 1..255
  BY EmergencyConnAssumption
<1>3. CASE Contains(c.dq, key)
  <2>1. d = c
    BY <1>3 DEF StorePacketForDupeChecks
  <2>2. key \in ToSet(c.dq)
    BY <1>1, <1>3 DEF Contains, ToSet
  <2> QED BY <2>1, <2>2, PassesItself
<1>4. CASE ~Contains(c.dq, key)
  <2>0. q # << >> \/ Len(q) < DupeQueueLength
    BY <1>2, EmptySeq
  <2>1. kept \in Seq(S) /\ Len(kept) \in Nat
        /\ (Len(q) < DupeQueueLength => kept = q)
        /\ (~(Len(q) < DupeQueueLength) => Len(kept) + 1 = Len(q))
    <3>1. CASE Len(q) < DupeQueueLength
      BY <3>1, <1>1
    <3>2. CASE ~(Len(q) < DupeQueueLength)
      <4>1. q # << >>
        BY <2>0, <3>2
      <4>2. Front(q) \in Seq(S) /\ Len(Front(q)) = Len(q) - 1
        <5> HIDE DEF q
        <5> QED BY <4>1, <1>1, FrontProperties
      <4>3. Len(Front(q)) \in Nat
        BY <4>2, LenProperties
      <4> QED BY <1>1, <3>2, <4>2, <4>3
    <3> QED BY <3>1, <3>2
  <2> HIDE DEF kept
  <2>2. key \in S
    BY <1>0
  <2>3. PICK q2 : q2 = Cons(key, kept)
    OBVIOUS
  <2>4. /\ q2 \in Seq(S) /\ Len(q2) = Len(kept) + 1 /\ q2[1] = key
        /\ \A j \in 1..Len(kept) : q2[j + 1] = kept[j]
    <3>0. kept \in Seq(S)
      BY <2>1
    <3>1. q2 \in Seq(S)
      BY <2>2, <2>3, <3>0, ConsProperties
    <3>2. Len(q2) = Len(kept) + 1
      BY <2>2, <2>3, <3>0, ConsProperties
    <3>3. q2[1] = key
      BY <2>2, <2>3, <3>0, ConsProperties
    <3>4. \A j \in 1..Len(kept) : q2[j + 1] = kept[j]
      BY <2>2, <2>3, <3>0, ConsProperties
    <3> QED BY <3>1, <3>2, <3>3, <3>4
  <2>5. DOMAIN q2 = 1..(Len(kept) + 1)
    BY <2>4, LenProperties
  <2>6. d = [c EXCEPT !.dq = q2]
    <3>1. StorePacketForDupeChecks(c, key) =
            [c EXCEPT !.dq = Cons(key, IF Len(c.dq) < DupeQueueLength
                                       THEN c.dq ELSE Front(c.dq))]
      BY <1>4 DEF StorePacketForDupeChecks
    <3> QED BY <2>3, <3>1 DEF kept
  <2>7. /\ d.dq = q2 /\ d.sq = c.sq /\ d.seqno = c.seqno
        /\ d.broadcast_timer = c.broadcast_timer
    BY <2>6 DEF Records
  <2>8. key \in ToSet(q2)
    <3>1. 1 \in DOMAIN q2
      BY <2>1, <2>5
    <3> QED BY <2>4, <3>1 DEF ToSet
  <2>9. Len(q2) < DupeQueueLength => Len(q) < DupeQueueLength /\ ToSet(q) \subseteq ToSet(q2)
    <3>1. SUFFICES ASSUME Len(q2) < DupeQueueLength
                   PROVE  Len(q) < DupeQueueLength /\ ToSet(q) \subseteq ToSet(q2)
      OBVIOUS
    <3>2. Len(q) < DupeQueueLength
      BY <1>1, <2>1, <2>4, <3>1
    <3>3. kept = q
      BY <2>1, <3>2
    <3>4. \A j \in DOMAIN q : j + 1 \in DOMAIN q2 /\ q2[j + 1] = q[j]
      BY <1>1, <2>4, <2>5, <3>3
    <3>5. ToSet(q) \subseteq ToSet(q2)
      BY <3>4 DEF ToSet
    <3> QED BY <3>2, <3>5
  <2>10. Sound(d, F, M)
    BY <2>7 DEF Sound
  <2>11. Keeps(c, d, n)
    BY <2>7, <2>9 DEF Keeps, q
  <2> QED BY <2>7, <2>8, <2>10, <2>11 DEF Passes
<1> QED BY <1>3, <1>4

\* A packet is broadcast: it waits.
LEMMA BroadcastPasses ==
  ASSUME NEW n \in Node, NEW h \in Histories, NEW F, NEW M, NEW c \in Records(n, h),
         Sound(c, F, M), NEW key \in KnownKeys(n, h), key \in F,
         NEW data \in {EMERGENCY_PACKET, EXTRACT_REPORT_PACKET},
         NEW e, e = EcBroadcast(c, n, key, data)
  PROVE  /\ Passes(c, e, n, F, M)
         /\ e.sq.null_write \/ key \in Waiting(e.sq)
         /\ Len(e.dq) < DupeQueueLength => key \in ToSet(e.dq)
<1>1. PICK yes \in BOOLEAN, no \in BOOLEAN : yes = TRUE /\ no = FALSE
  BY Zenon
<1>2. PICK p : p = [ack |-> no, originator |-> key[1], seqno |-> key[2],
                    sender |-> n, to |-> Node, data |-> data]
  OBVIOUS
<1>3. PICK pb : pb = AddPacket(c.sq, BROADCAST_DATA, p, c.ns)
  OBVIOUS
<1>4. PICK d : d = [c EXCEPT !.sq = pb, !.broadcast_timer = yes]
  OBVIOUS
<1>5. e = StorePacketForDupeChecks(d, key)
  BY <1>1, <1>2, <1>3, <1>4, Zenon DEF EcBroadcast
<1>6. /\ c.sq \in Buffers(n, h) /\ c.ns \in SUBSET Node /\ key \in Key
      /\ [type |-> BROADCAST_DATA, p |-> p, unacked_ns |-> c.ns, times_sent |-> 0]
           \in GoodEntries(n, h)
  BY <1>1, <1>2, BroadcastEntry DEF Records, KnownKeys
<1>7. KeyOf(p) = key
  BY <1>2, <1>6 DEF KeyOf, Key
<1>8. pb \in Buffers(n, h)
  <2>1. \A g : pb \in Buffers(n, h) /\ Confirmed(c.sq, pb, g)
    BY <1>3, <1>6, AddGood
  <2> QED BY <2>1
<1>9. /\ Keyed(pb, F, M) /\ (c.sq.null_write => pb.null_write)
      /\ Waiting(c.sq) \subseteq Waiting(pb) /\ (pb.null_write \/ KeyOf(p) \in Waiting(pb))
  BY <1>3, <1>6, <1>7, AddWaits, TypesDiffer DEF Sound
<1>10. /\ d \in Records(n, h) /\ d.sq = pb /\ d.dq = c.dq /\ d.seqno = c.seqno
       /\ d.broadcast_timer
  BY <1>1, <1>4, <1>8 DEF Records
<1>11. Passes(c, d, n, F, M)
  BY <1>9, <1>10, QueuePasses
<1>12. /\ Passes(d, e, n, F, M) /\ e.sq = d.sq
       /\ Len(e.dq) < DupeQueueLength => key \in ToSet(e.dq)
  BY <1>5, <1>10, <1>11, StorePasses DEF Passes
<1>13. Passes(c, e, n, F, M)
  BY <1>11, <1>12, PassesOn
<1> QED BY <1>7, <1>9, <1>10, <1>12, <1>13

LEMMA MulticastPasses ==
  ASSUME NEW n \in Node, NEW h \in Histories, NEW F, NEW M, NEW c \in Records(n, h),
         Sound(c, F, M), NEW key \in KnownKeys(n, h), key[1] = n, key \in M,
         NEW receivers \in SUBSET Node, n \notin receivers,
         NEW e, e = EcReliableMulticast(c, n, receivers, key, IM_YOUR_NEW_NEIGHBOR)
  PROVE  Passes(c, e, n, F, M)
<1>1. PICK yes \in BOOLEAN, no \in BOOLEAN : yes = TRUE /\ no = FALSE
  BY Zenon
<1>2. PICK p : p = [ack |-> no, originator |-> key[1], seqno |-> key[2],
                    sender |-> n, to |-> receivers, data |-> IM_YOUR_NEW_NEIGHBOR]
  OBVIOUS
<1>3. PICK pb : pb = AddPacket(c.sq, MULTICAST_UNICAST_DATA, p, receivers)
  OBVIOUS
<1>4. PICK d : d = [c EXCEPT !.sq = pb, !.data_timer = yes]
  OBVIOUS
<1>5. e = StorePacketForDupeChecks(d, key)
  BY <1>1, <1>2, <1>3, <1>4, Zenon DEF EcReliableMulticast
<1>6. /\ c.sq \in Buffers(n, h) /\ key \in Key
      /\ [type |-> MULTICAST_UNICAST_DATA, p |-> p, unacked_ns |-> receivers, times_sent |-> 0]
           \in GoodEntries(n, h)
  BY <1>1, <1>2, MulticastEntry DEF Records, KnownKeys
<1>7. KeyOf(p) = key
  BY <1>2, <1>6 DEF KeyOf, Key
<1>8. pb \in Buffers(n, h)
  <2>1. \A g : pb \in Buffers(n, h) /\ Confirmed(c.sq, pb, g)
    BY <1>3, <1>6, AddGood
  <2> QED BY <2>1
<1>9. /\ Keyed(pb, F, M) /\ (c.sq.null_write => pb.null_write)
      /\ Waiting(c.sq) \subseteq Waiting(pb) /\ Waiting(pb) \subseteq Waiting(c.sq)
  BY <1>3, <1>6, <1>7, AddWaits, TypesDiffer DEF Sound
<1>10. /\ d \in Records(n, h) /\ d.sq = pb /\ d.dq = c.dq /\ d.seqno = c.seqno
       /\ d.broadcast_timer = c.broadcast_timer
  BY <1>4, <1>8 DEF Records
<1>11. Passes(c, d, n, F, M)
  BY <1>9, <1>10, QueuePasses
<1>12. Passes(d, e, n, F, M)
  BY <1>5, <1>10, <1>11, StorePasses DEF Passes
<1> QED BY <1>11, <1>12, PassesOn

LEMMA MeshPasses ==
  ASSUME NEW n \in Node, NEW h \in Histories, NEW F, NEW M, NEW c \in Records(n, h),
         Sound(c, F, M), NEW to \in Node, NEW seqno \in 0..255
  PROVE  Passes(c, EcMesh(c, to, seqno, NODE_REPORT_PACKET), n, F, M)
<1>0. PICK d : d = EcMesh(c, to, seqno, NODE_REPORT_PACKET)
  OBVIOUS
<1>1. PICK yes \in BOOLEAN, no \in BOOLEAN : yes = TRUE /\ no = FALSE
  BY Zenon
<1>2. PICK p : p = [ack |-> no, originator |-> NoNode, seqno |-> seqno,
                    sender |-> NoNode, to |-> {to}, data |-> NODE_REPORT_PACKET]
  OBVIOUS
<1>3. PICK pb : pb = AddUntrackedPacket(c.sq, MESH_DATA, p)
  OBVIOUS
<1>4. d = [c EXCEPT !.sq = pb, !.mesh_timer = yes]
  BY <1>0, <1>1, <1>2, <1>3, Zenon DEF EcMesh
<1>5. /\ c.sq \in Buffers(n, h)
      /\ \A ns \in SUBSET Node :
           [type |-> MESH_DATA, p |-> p, unacked_ns |-> ns, times_sent |-> 0] \in GoodEntries(n, h)
  BY <1>1, <1>2, MeshEntry DEF Records
<1>6. /\ Keyed(pb, F, M) /\ (c.sq.null_write => pb.null_write) /\ Waiting(c.sq) = Waiting(pb)
  BY <1>3, <1>5, AddUntrackedWaits, TypesDiffer DEF Sound
<1>7. /\ d.sq = pb /\ d.dq = c.dq /\ d.seqno = c.seqno
      /\ d.broadcast_timer = c.broadcast_timer
  BY <1>4 DEF Records
<1>8. Passes(c, d, n, F, M)
  BY <1>6, <1>7, QueuePasses
<1> QED BY <1>0, <1>6, <1>7, <1>8

\* The application forwards what it was handed, unless it is the sink's.
LEMMA CallbackPasses ==
  ASSUME NEW n \in Node, NEW h \in Histories, NEW F, NEW M, NEW c \in Records(n, h),
         Sound(c, F, M), NEW f \in Packet, GoodData(f, n), KeyOf(f) \in KnownKeys(n, h),
         IsBroadcast(f) => KeyOf(f) \in F, NEW d, d = Callback(c, n, f)
  PROVE  /\ Passes(c, d, n, F, M)
         /\ IsBroadcast(f) /\ n # Sink => d.sq.null_write \/ KeyOf(f) \in Waiting(d.sq)
<1>0. /\ EMERGENCY_PACKET # IM_YOUR_NEW_NEIGHBOR /\ EXTRACT_REPORT_PACKET # IM_YOUR_NEW_NEIGHBOR
      /\ EMERGENCY_PACKET # EXTRACT_REPORT_PACKET
  BY DEF EMERGENCY_PACKET, EXTRACT_REPORT_PACKET, IM_YOUR_NEW_NEIGHBOR
<1>1. CASE f.data = IM_YOUR_NEW_NEIGHBOR
  <2>1. f.originator \in Node /\ ~IsBroadcast(f)
    BY <1>0, <1>1 DEF GoodData, GoodBroadcast
  <2>2. PICK e : e = [c EXCEPT !.ns = @ \cup {f.originator}]
    OBVIOUS
  <2>3. d = e
    <3>1. Callback(c, n, f) = CASE f.data = IM_YOUR_NEW_NEIGHBOR -> e
      BY <1>1, <1>0, <2>2 DEF Callback
    <3> QED BY <1>1, <3>1
  <2>4. /\ e.sq = c.sq /\ e.dq = c.dq /\ e.seqno = c.seqno
        /\ e.broadcast_timer = c.broadcast_timer
    BY <2>2 DEF Records
  <2>5. Sound(e, F, M) /\ Keeps(c, e, n)
    BY <2>4 DEF Sound, Keeps
  <2> QED BY <2>1, <2>3, <2>5 DEF Passes
<1>2. CASE f.data # IM_YOUR_NEW_NEIGHBOR /\ n = Sink
  <2>1. d = c
    BY <1>2 DEF Callback, GoodData, GoodBroadcast, IsBroadcast
  <2> QED BY <1>2, <2>1, PassesItself
<1>3. CASE f.data = EMERGENCY_PACKET /\ n # Sink
  <2>1. d = EcBroadcast(c, n, KeyOf(f), f.data)
    BY <1>0, <1>3 DEF Callback
  <2>2. KeyOf(f) \in F
    BY <1>0, <1>3 DEF GoodData, GoodBroadcast, IsBroadcast
  <2> QED BY <1>3, <2>1, <2>2, BroadcastPasses
<1>4. CASE f.data = EXTRACT_REPORT_PACKET /\ n # Sink
  <2>0. KeyOf(f) \in F
    BY <1>0, <1>4 DEF GoodData, GoodBroadcast, IsBroadcast
  <2>1. PICK x : x = EcBroadcast(c, n, KeyOf(f), f.data)
    OBVIOUS
  <2>2. Passes(c, x, n, F, M) /\ (x.sq.null_write \/ KeyOf(f) \in Waiting(x.sq))
    BY <1>4, <2>0, <2>1, BroadcastPasses
  <2>3. x \in Records(n, h)
    <3>1. \A g : Follows(c, x, n, h, g)
      BY <1>4, <2>1, BroadcastFollows
    <3> QED BY <3>1 DEF Follows
  <2>4. PICK k \in 0..255 : k = (x.seqno + 1) % 256
    BY <2>3, SeqnoFits DEF Records
  <2>5. PICK e : e = [x EXCEPT !.seqno = k]
    OBVIOUS
  <2>6. /\ e \in Records(n, h) /\ e.sq = x.sq /\ e.dq = x.dq
        /\ e.broadcast_timer = x.broadcast_timer
    BY <2>3, <2>5 DEF Records
  <2>7. Passes(x, e, n, F, M)
    <3>1. Sound(e, F, M)
      BY <2>2, <2>6 DEF Passes, Sound
    <3>2. Keeps(x, e, n)
      BY <1>4, <2>6 DEF Keeps
    <3> QED BY <3>1, <3>2 DEF Passes
  <2>8. c.seqno \in 0..255 /\ f.originator \in Node
    BY <1>0, <1>4 DEF Records, GoodData
  <2>9. d = EcMesh(e, f.originator, c.seqno, NODE_REPORT_PACKET)
    BY <1>0, <1>4, <2>1, <2>4, <2>5 DEF Callback
  <2>10. Passes(e, d, n, F, M)
    <3>1. PICK to \in Node, s \in 0..255 : to = f.originator /\ s = c.seqno
      BY <2>8
    <3>2. Sound(e, F, M) /\ e \in Records(n, h)
      BY <2>6, <2>7 DEF Passes
    <3>3. d = EcMesh(e, to, s, NODE_REPORT_PACKET)
      BY <2>9, <3>1
    <3>4. Passes(e, EcMesh(e, to, s, NODE_REPORT_PACKET), n, F, M)
      BY <3>2, MeshPasses
    <3> QED BY <3>3, <3>4
  <2>11. Passes(c, d, n, F, M)
    <3>1. Passes(c, e, n, F, M)
      BY <2>2, <2>7, PassesOn
    <3> QED BY <2>10, <3>1, PassesOn
  <2>12. d.sq.null_write \/ KeyOf(f) \in Waiting(d.sq)
    <3>1. /\ x.sq.null_write => d.sq.null_write
          /\ d.sq.null_write \/ Waiting(x.sq) \subseteq Waiting(d.sq)
      BY <2>6, <2>10 DEF Passes, Keeps
    <3> QED BY <2>2, <3>1
  <2> QED BY <2>11, <2>12
<1>5. f.data \in {EMERGENCY_PACKET, EXTRACT_REPORT_PACKET, IM_YOUR_NEW_NEIGHBOR}
  BY DEF GoodData, GoodBroadcast
<1> QED BY <1>1, <1>2, <1>3, <1>4, <1>5

\* An acknowledgement of what is no broadcast.
LEMMA QueueAckPasses ==
  ASSUME NEW n \in Node, NEW h \in Histories, NEW F, NEW M, NEW c \in Records(n, h),
         Sound(c, F, M), NEW f \in Packet,
         IsBroadcast(f) \/ (KeyOf(f) \in h[n] /\ f.originator \in Node /\ f.sender \in Node),
         ~IsBroadcast(f) => KeyOf(f) \in M, NEW d, d = QueueAck(c, n, f)
  PROVE  Passes(c, d, n, F, M) /\ Waiting(d.sq) = Waiting(c.sq) /\ d.dq = c.dq
<1>1. CASE IsBroadcast(f) \/ IsQueued(c.sq, AckPacket(n, f))
  <2>1. d = c
    BY <1>1 DEF QueueAck
  <2> QED BY <2>1, PassesItself
<1>2. CASE ~(IsBroadcast(f) \/ IsQueued(c.sq, AckPacket(n, f)))
  <2>1. PICK yes \in BOOLEAN : yes = TRUE
    BY Zenon
  <2>2. PICK p : p = AckPacket(n, f)
    OBVIOUS
  <2>3. PICK pb : pb = AddUntrackedPacket(c.sq, MULTICAST_UNICAST_ACK, p)
    OBVIOUS
  <2>4. d = [c EXCEPT !.sq = pb, !.ack_timer = yes]
    BY <1>2, <2>1, <2>2, <2>3, Zenon DEF QueueAck
  <2>5. /\ c.sq \in Buffers(n, h)
        /\ \A ns \in SUBSET Node :
             [type |-> MULTICAST_UNICAST_ACK, p |-> p, unacked_ns |-> ns, times_sent |-> 0]
               \in GoodEntries(n, h)
    BY <1>2, <2>2, AckEntry DEF Records
  <2>6. KeyOf(p) \in M
    BY <1>2, <2>2 DEF AckPacket, KeyOf
  <2>7. /\ Keyed(pb, F, M) /\ (c.sq.null_write => pb.null_write) /\ Waiting(c.sq) = Waiting(pb)
    BY <2>3, <2>5, <2>6, AddUntrackedWaits, TypesDiffer DEF Sound
  <2>8. /\ d.sq = pb /\ d.dq = c.dq /\ d.seqno = c.seqno
        /\ d.broadcast_timer = c.broadcast_timer
    BY <2>4 DEF Records
  <2>9. Passes(c, d, n, F, M)
    BY <2>7, <2>8, QueuePasses
  <2> QED BY <2>7, <2>8, <2>9
<1> QED BY <1>1, <1>2

\* An acknowledgement never frees a broadcast.
LEMMA AckReceivedPasses ==
  ASSUME NEW n \in Node, NEW h \in Histories, NEW F, NEW M, F \cap M = {},
         NEW c \in Records(n, h), Sound(c, F, M), NEW f \in Packet,
         f.sender \in Node, KeyOf(f) \in h[f.sender], KeyOf(f) \in M,
         NEW d, d = AckReceived(c, f)
  PROVE  Passes(c, d, n, F, M)
<1> DEFINE found == FindByOriginatorSeqno(c.sq, f)
<1>0. c.sq \in Buffers(n, h)
  BY DEF Records
<1>1. CASE found = {}
  BY <1>1, PassesItself DEF AckReceived
<1>2. CASE found # {}
  <2>1. PICK i \in found : i = CHOOSE j \in found : TRUE
    BY <1>2, Zenon
  <2>2. i \in DOMAIN c.sq.queued /\ KeyOf(c.sq.queued[i].p) = KeyOf(f)
    <3>1. i \in {j \in DOMAIN c.sq.queued : /\ c.sq.queued[j].p.originator = f.originator
                                            /\ c.sq.queued[j].p.seqno = f.seqno}
      BY <2>1, FirstOfPositions DEF FindByOriginatorSeqno
    <3> QED BY <3>1 DEF KeyOf
  <2>3. PICK b : b = c.sq.queued[i]
    OBVIOUS
  <2>4. b.type # BROADCAST_DATA /\ b \in BufferedPacket /\ GoodEntry(n, b, h)
    <3>1. b.type = BROADCAST_DATA => KeyOf(b.p) \in F
      BY <2>2, <2>3 DEF Sound, Keyed
    <3> QED BY <1>0, <2>2, <2>3, <3>1, EntryAt
  <2>5. PICK pb : pb = NeighborAcked(c.sq, i, f.sender)
    OBVIOUS
  <2>6. PICK ns \in SUBSET Node : ns = b.unacked_ns \ {f.sender}
    BY <2>4 DEF BufferedPacket
  <2>7. PICK b2 : b2 = [b EXCEPT !.unacked_ns = ns]
    OBVIOUS
  <2>8. b2.p = b.p /\ b2.type = b.type /\ pb = [c.sq EXCEPT !.queued[i] = b2]
    BY <2>3, <2>4, <2>5, <2>6, <2>7 DEF NeighborAcked, BufferedPacket
  <2>9. pb \in Buffers(n, h) /\ i \in DOMAIN pb.queued
    BY <1>0, <2>2, <2>5, AckedGood
  <2>10. DOMAIN pb.queued = DOMAIN c.sq.queued /\ pb.queued[i] = b2
    <3>1. c.sq \in BufferOf(GoodEntries(n, h))
      BY <1>0 DEF Buffers
    <3> QED BY <2>2, <2>8, <3>1 DEF BufferOf
  <2>11. b2 \in GoodEntries(n, h)
    BY <2>9, <2>10, EntryAt
  <2>12. /\ Keyed(pb, F, M) /\ (pb.null_write <=> c.sq.null_write)
         /\ Waiting(pb) = Waiting(c.sq)
    <3>1. Keyed(c.sq, F, M)
      BY DEF Sound
    <3> QED BY <1>0, <2>2, <2>3, <2>8, <2>11, <3>1, RewriteWaits
  <2>13. CASE AllNeighborsAcked(pb, i)
    <3>1. PICK yes \in BOOLEAN : yes = TRUE
      BY Zenon
    <3>2. PICK pb2 : pb2 = FreePacket(pb, i)
      OBVIOUS
    <3>3. pb.queued[i].type # BROADCAST_DATA
      BY <2>4, <2>8, <2>10
    <3>4. /\ Keyed(pb2, F, M) /\ (pb2.null_write <=> pb.null_write)
          /\ Waiting(pb2) \subseteq Waiting(pb) /\ Waiting(pb) \subseteq Waiting(pb2)
      BY <2>9, <2>12, <3>2, <3>3, FreeWaits
    <3>5. d = [c EXCEPT !.sq = pb2, !.data_timer = yes]
      BY <1>2, <2>1, <2>5, <2>13, <3>1, <3>2, Zenon DEF AckReceived
    <3>6. /\ d.sq = pb2 /\ d.dq = c.dq /\ d.seqno = c.seqno
          /\ d.broadcast_timer = c.broadcast_timer
      BY <3>5 DEF Records
    <3> QED BY <2>12, <3>4, <3>6, QueuePasses
  <2>14. CASE ~AllNeighborsAcked(pb, i)
    <3>1. d = [c EXCEPT !.sq = pb]
      BY <1>2, <2>1, <2>5, <2>14, Zenon DEF AckReceived
    <3>2. /\ d.sq = pb /\ d.dq = c.dq /\ d.seqno = c.seqno
          /\ d.broadcast_timer = c.broadcast_timer
      BY <3>1 DEF Records
    <3> QED BY <2>12, <3>2, QueuePasses
  <2> QED BY <2>13, <2>14
<1> QED BY <1>1, <1>2

\* A frame of a flood or a multicast.
KeyedFrame(f, F, M) == KeyOf(f) \in IF ~f.ack /\ IsBroadcast(f) THEN F ELSE M

\* A frame is handled: a flooded packet that is handed on waits to be sent on.
LEMMA ReceivedPasses ==
  ASSUME NEW n \in Node, NEW h \in Histories, NEW h2 \in Histories, Grows(h, h2),
         NEW F, NEW M, F \cap M = {},
         NEW c \in Records(n, h), Sound(c, F, M), NEW f, GoodFrame(f, n, h), KeyedFrame(f, F, M),
         IsNew(c, f) /\ HasRoom(c) => KeyOf(f) \in h2[n],
         NEW d, d = Received(c, n, f)
  PROVE  /\ Passes(c, d, n, F, M)
         /\ IsNew(c, f) /\ HasRoom(c) =>
              /\ IsBroadcast(f) /\ n # Sink => d.sq.null_write \/ KeyOf(f) \in Waiting(d.sq)
              /\ Len(d.dq) < DupeQueueLength => KeyOf(f) \in ToSet(d.dq)
<1>0. c \in Records(n, h2) /\ f \in Packet
  BY RecordsMonotonic DEF GoodFrame
<1>1. CASE f.ack
  <2>1. f.sender \in Node /\ KeyOf(f) \in h[f.sender] /\ KeyOf(f) \in M
    BY <1>1 DEF GoodFrame, GoodAck, KeyedFrame
  <2>2. d = AckReceived(c, f) /\ ~IsNew(c, f)
    BY <1>1 DEF Received, IsNew
  <2> QED BY <1>0, <2>1, <2>2, AckReceivedPasses
<1>2. CASE ~f.ack /\ ~IsNew(c, f)
  <2>1. Contains(c.dq, KeyOf(f)) /\ c.dq \in Seq(KnownKeys(n, h2))
    BY <1>0, <1>2 DEF IsNew, Records
  <2>2. KeyOf(f) \in KnownKeys(n, h2)
    <3>1. PICK i \in 1..Len(c.dq) : c.dq[i] = KeyOf(f)
      BY <2>1 DEF Contains
    <3> QED BY <2>1, <3>1, ElementOfSeq
  <2>3. GoodData(f, n)
    BY <1>2 DEF GoodFrame
  <2>4. IsBroadcast(f) \/ (KeyOf(f) \in h2[n] /\ f.originator \in Node /\ f.sender \in Node)
    BY <2>2, <2>3 DEF GoodData, GoodBroadcast, IsBroadcast, KnownKeys, KeyOf
  <2>5. ~IsBroadcast(f) => KeyOf(f) \in M
    BY <1>2 DEF KeyedFrame
  <2>6. d = QueueAck(c, n, f)
    BY <1>2 DEF Received
  <2> QED BY <1>0, <1>2, <2>4, <2>5, <2>6, QueueAckPasses
<1>3. CASE IsNew(c, f) /\ HasRoom(c)
  <2>1. ~f.ack /\ GoodData(f, n)
    BY <1>3 DEF IsNew, GoodFrame
  <2>2. KeyOf(f) \in h2[n] /\ KeyOf(f) \in KnownKeys(n, h2)
    BY <1>3 DEF KnownKeys, Histories
  <2>3. (IsBroadcast(f) => KeyOf(f) \in F) /\ (~IsBroadcast(f) => KeyOf(f) \in M)
    BY <2>1 DEF KeyedFrame
  <2>4. PICK x : x = Callback(c, n, f)
    OBVIOUS
  <2>5. x \in Records(n, h2)
    <3>1. \A g : Follows(c, x, n, h2, g)
      BY <1>0, <2>1, <2>2, <2>4, CallbackFollows
    <3> QED BY <3>1 DEF Follows
  <2>6. /\ Passes(c, x, n, F, M)
        /\ IsBroadcast(f) /\ n # Sink => x.sq.null_write \/ KeyOf(f) \in Waiting(x.sq)
    BY <1>0, <2>1, <2>2, <2>3, <2>4, CallbackPasses
  <2>7. PICK e : e = StorePacketForDupeChecks(x, KeyOf(f))
    OBVIOUS
  <2>8. e \in Records(n, h2)
    <3>1. \A g : Follows(x, e, n, h2, g)
      BY <2>2, <2>5, <2>7, StoreFollows
    <3> QED BY <3>1 DEF Follows
  <2>9. /\ Passes(x, e, n, F, M) /\ e.sq = x.sq
        /\ Len(e.dq) < DupeQueueLength => KeyOf(f) \in ToSet(e.dq)
    BY <2>2, <2>5, <2>6, <2>7, StorePasses DEF Passes
  <2>10. d = QueueAck(e, n, f)
    BY <1>3, <2>1, <2>4, <2>7 DEF Received
  <2>11. IsBroadcast(f) \/ (KeyOf(f) \in h2[n] /\ f.originator \in Node /\ f.sender \in Node)
    BY <2>1, <2>2 DEF GoodData, GoodBroadcast, IsBroadcast
  <2>12. Passes(e, d, n, F, M) /\ Waiting(d.sq) = Waiting(e.sq) /\ d.dq = e.dq
    BY <1>0, <2>3, <2>8, <2>9, <2>10, <2>11, QueueAckPasses DEF Passes
  <2>13. Passes(c, d, n, F, M)
    <3>1. Passes(c, e, n, F, M)
      BY <2>6, <2>9, PassesOn
    <3> QED BY <2>12, <3>1, PassesOn
  <2>14. IsBroadcast(f) /\ n # Sink => d.sq.null_write \/ KeyOf(f) \in Waiting(d.sq)
    <3>1. e.sq.null_write => d.sq.null_write
      BY <2>12 DEF Passes, Keeps
    <3> QED BY <2>6, <2>9, <2>12, <3>1
  <2> QED BY <2>9, <2>12, <2>13, <2>14
<1>4. CASE IsNew(c, f) /\ ~HasRoom(c)
  <2>1. d = c
    BY <1>4 DEF Received, IsNew
  <2> QED BY <1>4, <2>1, PassesItself
<1>5. f.ack \/ ~f.ack
  BY DEF IsNew
<1> QED BY <1>1, <1>2, <1>3, <1>4, <1>5

\* A node multicasts once, with its first number, and who senses emergencies
\* does not.
FloodersApart ==
  (\A n \in AlarmedNodes : Receivers[n] = {}) /\ MaxSinkPackets <= 255

MulticastKeys ==
  {key \in Key : /\ key[1] \notin AlarmedNodes /\ key \notin floods
                 /\ key[1] = Sink => key[2] = 0 /\ ec[Sink].seqno > 0}

Own(n) == {key \in floods : key[1] = n}

\* The floods node n has to send on,
Due(n) == {key \in floods : key[1] = n \/ (n # Sink /\ key \in HandedKeys[n])}

\* and the packets that whoever is in range has, missed, or was stopped for.
Reached(n) ==
  {key \in Key : \A m \in InRange[n] :
     key \in HandedKeys[m] \cup missed[m] \/ key[1] = m \/ m \in failed}

FInv ==
  /\ \A key \in floods : key[1] \in AlarmedNodes \/ (key[1] = Sink /\ ec[Sink].seqno > 0)
  /\ \A n \in Node :
       /\ Sound(ec[n], floods, MulticastKeys)
       /\ HandedKeys[n] \subseteq floods \cup MulticastKeys
       /\ ec[n].sq.null_write \/ Due(n) \subseteq Waiting(ec[n].sq) \cup Reached(n)
       /\ Len(ec[n].dq) < DupeQueueLength => HandedKeys[n] \cup Own(n) \subseteq ToSet(ec[n].dq)

\* The invariant after a step: no history shrinks, what waited still waits or
\* was sent to everyone, and what is newly due waits.
LEMMA FlowStep ==
  ASSUME FInv, floods \subseteq floods', MulticastKeys \subseteq MulticastKeys',
         failed \subseteq failed',
         \A m \in Node : HandedKeys[m] \subseteq HandedKeys'[m] /\ missed[m] \subseteq missed'[m],
         \A key \in floods' : key[1] \in AlarmedNodes \/ (key[1] = Sink /\ ec'[Sink].seqno > 0),
         \A m \in Node :
           /\ Sound(ec'[m], floods', MulticastKeys')
           /\ HandedKeys'[m] \subseteq HandedKeys[m] \cup floods' \cup MulticastKeys'
           /\ ec[m].sq.null_write => ec'[m].sq.null_write
           /\ \/ ec'[m].sq.null_write
              \/ /\ Waiting(ec[m].sq) \subseteq Waiting(ec'[m].sq) \cup Reached(m)'
                 /\ Due(m)' \subseteq Due(m) \cup Waiting(ec'[m].sq)
           /\ Len(ec'[m].dq) < DupeQueueLength =>
                /\ Len(ec[m].dq) < DupeQueueLength /\ ToSet(ec[m].dq) \subseteq ToSet(ec'[m].dq)
                /\ HandedKeys'[m] \cup Own(m)'
                     \subseteq HandedKeys[m] \cup Own(m) \cup ToSet(ec'[m].dq)
  PROVE  FInv'
<1>1. ASSUME NEW m \in Node PROVE Reached(m) \subseteq Reached(m)'
  <2>1. InRange[m] \subseteq Node
    BY EmergencyConnAssumption
  <2>2. ASSUME NEW key \in Reached(m), NEW x \in InRange[m]
        PROVE  key \in HandedKeys'[x] \cup missed'[x] \/ key[1] = x \/ x \in failed'
    <3>1. key \in HandedKeys[x] \cup missed[x] \/ key[1] = x \/ x \in failed
      BY <2>2 DEF Reached
    <3> QED BY <2>1, <3>1
  <2> QED BY <2>2 DEF Reached
<1>2. ASSUME NEW m \in Node
      PROVE  HandedKeys'[m] \subseteq floods' \cup MulticastKeys'
  BY DEF FInv
<1>3. ASSUME NEW m \in Node, ~ec'[m].sq.null_write
      PROVE  Due(m)' \subseteq Waiting(ec'[m].sq) \cup Reached(m)'
  <2>1. Due(m) \subseteq Waiting(ec[m].sq) \cup Reached(m)
    BY <1>3 DEF FInv
  <2>2. /\ Waiting(ec[m].sq) \subseteq Waiting(ec'[m].sq) \cup Reached(m)'
        /\ Due(m)' \subseteq Due(m) \cup Waiting(ec'[m].sq)
    BY <1>3
  <2>3. Reached(m) \subseteq Reached(m)'
    BY <1>1
  <2> HIDE DEF FInv
  <2> QED BY <2>1, <2>2, <2>3, Zenon
<1>4. ASSUME NEW m \in Node, Len(ec'[m].dq) < DupeQueueLength
      PROVE  HandedKeys'[m] \cup Own(m)' \subseteq ToSet(ec'[m].dq)
  <2>1. /\ Len(ec[m].dq) < DupeQueueLength /\ ToSet(ec[m].dq) \subseteq ToSet(ec'[m].dq)
        /\ HandedKeys'[m] \cup Own(m)' \subseteq HandedKeys[m] \cup Own(m) \cup ToSet(ec'[m].dq)
    BY <1>4
  <2>2. HandedKeys[m] \cup Own(m) \subseteq ToSet(ec[m].dq)
    BY <2>1 DEF FInv
  <2> QED BY <2>1, <2>2
<1>5. \A m \in Node :
        /\ Sound(ec'[m], floods', MulticastKeys')
        /\ HandedKeys'[m] \subseteq floods' \cup MulticastKeys'
        /\ ec'[m].sq.null_write \/ Due(m)' \subseteq Waiting(ec'[m].sq) \cup Reached(m)'
        /\ Len(ec'[m].dq) < DupeQueueLength => HandedKeys'[m] \cup Own(m)' \subseteq ToSet(ec'[m].dq)
  BY <1>2, <1>3, <1>4
<1> QED BY <1>5 DEF FInv

LEMMA KeysApart == floods \cap MulticastKeys = {}
BY DEF MulticastKeys

\* The keys of multicasts, while nothing is flooded and the sink originates nothing.
LEMMA SameMulticastKeys ==
  ASSUME UNCHANGED floods, ec'[Sink].seqno = ec[Sink].seqno
  PROVE  MulticastKeys' = MulticastKeys
BY DEF MulticastKeys

\* One record changes, and neither a flood nor a packet that is handed on.
LEMMA OneRecordFlows ==
  ASSUME IInv, FInv, UNCHANGED <<floods, handed, missed>>, failed \subseteq failed',
         NEW n \in Node, NEW d, ec' = [ec EXCEPT ![n] = d],
         Passes(ec[n], d, n, floods, MulticastKeys)
  PROVE  FInv'
<1>1. ec'[n] = d /\ \A m \in Node \ {n} : ec'[m] = ec[m]
  BY DEF IInv
<1>2. HandedKeys' = HandedKeys
  BY DEF HandedKeys
<1>3. Sink \in Node
  BY EmergencyConnAssumption
<1>4. ec'[Sink].seqno = ec[Sink].seqno
  <2>1. CASE n = Sink
    BY <1>1, <2>1 DEF Passes, Keeps
  <2>2. CASE n # Sink
    BY <1>1, <1>3, <2>2
  <2> QED BY <2>1, <2>2
<1>5. MulticastKeys' = MulticastKeys
  BY <1>4, SameMulticastKeys
<1>6. ASSUME NEW m \in Node PROVE Passes(ec[m], ec'[m], m, floods, MulticastKeys)
  <2>1. CASE m = n
    BY <1>1, <2>1
  <2>2. CASE m # n
    <3>1. Sound(ec[m], floods, MulticastKeys)
      BY DEF FInv
    <3> QED BY <1>1, <2>2, <3>1, PassesItself
  <2> QED BY <2>1, <2>2
<1>7. \A m \in Node : Due(m)' = Due(m) /\ Own(m)' = Own(m)
  BY <1>2 DEF Due, Own
<1>8. \A key \in floods' : key[1] \in AlarmedNodes \/ (key[1] = Sink /\ ec'[Sink].seqno > 0)
  BY <1>4 DEF FInv
<1>9. ASSUME NEW m \in Node
      PROVE  /\ Sound(ec'[m], floods', MulticastKeys')
             /\ ec[m].sq.null_write => ec'[m].sq.null_write
             /\ ec'[m].sq.null_write \/ Waiting(ec[m].sq) \subseteq Waiting(ec'[m].sq)
             /\ Len(ec'[m].dq) < DupeQueueLength =>
                  Len(ec[m].dq) < DupeQueueLength /\ ToSet(ec[m].dq) \subseteq ToSet(ec'[m].dq)
  BY <1>5, <1>6 DEF Passes, Keeps
<1> QED BY <1>2, <1>5, <1>7, <1>8, <1>9, FlowStep

\* The queues stay, or a report leaves one, or is tried.
LEMMA TimersPass ==
  ASSUME NEW n, NEW F, NEW M, NEW c, NEW d, Sound(c, F, M), d.sq = c.sq, d.dq = c.dq,
         d.seqno = c.seqno, d.broadcast_timer <=> c.broadcast_timer
  PROVE  Passes(c, d, n, F, M)
BY DEF Passes, Keeps, Sound

LEMMA ReportFreedPasses ==
  ASSUME NEW n \in Node, NEW h \in Histories, NEW F, NEW M, NEW c \in Records(n, h),
         Sound(c, F, M), NEW i \in FirstOfType(c.sq, MESH_DATA), NEW d,
         d.sq = FreePacket(c.sq, i), d.dq = c.dq, d.seqno = c.seqno,
         d.broadcast_timer <=> c.broadcast_timer
  PROVE  Passes(c, d, n, F, M)
<1>1. /\ c.sq \in Buffers(n, h) /\ i \in DOMAIN c.sq.queued
      /\ c.sq.queued[i].type = MESH_DATA /\ Keyed(c.sq, F, M)
  BY FirstOfPositions DEF FirstOfType, OfType, Records, Sound
<1>2. PICK pb : pb = FreePacket(c.sq, i)
  OBVIOUS
<1>3. /\ Keyed(pb, F, M) /\ (pb.null_write <=> c.sq.null_write)
      /\ Waiting(pb) \subseteq Waiting(c.sq) /\ Waiting(c.sq) \subseteq Waiting(pb)
  BY <1>1, <1>2, FreeWaits, TypesDiffer
<1> QED BY <1>2, <1>3, QueuePasses

LEMMA ReportTriedPasses ==
  ASSUME NEW n \in Node, NEW h \in Histories, NEW F, NEW M, NEW c \in Records(n, h),
         Sound(c, F, M), NEW i \in FirstOfType(c.sq, MESH_DATA),
         c.sq.queued[i].times_sent < MaxTimesSentMesh, NEW d,
         d.sq = IncrementTimesSent(c.sq, i), d.dq = c.dq, d.seqno = c.seqno,
         d.broadcast_timer <=> c.broadcast_timer
  PROVE  Passes(c, d, n, F, M)
<1>1. /\ c.sq \in Buffers(n, h) /\ i \in DOMAIN c.sq.queued
      /\ c.sq.queued[i].type = MESH_DATA /\ Keyed(c.sq, F, M)
  BY FirstOfPositions DEF FirstOfType, OfType, Records, Sound
<1>2. PICK b : b = c.sq.queued[i]
  OBVIOUS
<1>3. b \in BufferedPacket
  BY <1>1, <1>2, EntryAt
<1>4. PICK k : k = b.times_sent + 1
  OBVIOUS
<1>5. PICK b2 : b2 = [b EXCEPT !.times_sent = k]
  OBVIOUS
<1>6. PICK pb : pb = IncrementTimesSent(c.sq, i)
  OBVIOUS
<1>7. b2.p = b.p /\ b2.type = b.type /\ pb = [c.sq EXCEPT !.queued[i] = b2]
  BY <1>2, <1>3, <1>4, <1>5, <1>6 DEF IncrementTimesSent, BufferedPacket
<1>8. pb \in Buffers(n, h)
  <2>1. \A g : pb \in Buffers(n, h) /\ Confirmed(c.sq, pb, g)
    BY <1>1, <1>6, IncrementGood
  <2> QED BY <2>1
<1>9. i \in DOMAIN pb.queued /\ pb.queued[i] = b2
  <2>1. c.sq \in BufferOf(GoodEntries(n, h))
    BY <1>1 DEF Buffers
  <2> QED BY <1>1, <1>7, <2>1 DEF BufferOf
<1>10. b2 \in GoodEntries(n, h)
  BY <1>8, <1>9, EntryAt
<1>11. /\ Keyed(pb, F, M) /\ (pb.null_write <=> c.sq.null_write)
       /\ Waiting(pb) = Waiting(c.sq)
  BY <1>1, <1>2, <1>7, <1>10, RewriteWaits
<1> QED BY <1>6, <1>11, QueuePasses

\* What the steps have in common that change one record and no history.
LEMMA PassesFlows ==
  ASSUME IInv, FInv, UNCHANGED <<floods, handed, missed>>, failed \subseteq failed',
         NEW n \in Node, NEW c, Passes(ec[n], c, n, floods, MulticastKeys),
         NEW d, ec' = [ec EXCEPT ![n] = d], Passes(c, d, n, floods, MulticastKeys)
  PROVE  FInv'
<1>1. Passes(ec[n], d, n, floods, MulticastKeys)
  BY PassesOn
<1> QED BY <1>1, OneRecordFlows

LEMMA MeshdataSentFlows ==
  ASSUME IInv, FInv, UNCHANGED <<floods, handed, missed>>, NEW n \in Node,
         NEW c \in Records(n, HandedKeys), Passes(ec[n], c, n, floods, MulticastKeys),
         MeshdataSent(n, c)
  PROVE  FInv'
<1>1. Sound(c, floods, MulticastKeys)
  BY DEF Passes
<1>2. CASE FirstOfType(c.sq, MESH_DATA) = {}
  <2>1. ec' = [ec EXCEPT ![n] = c] /\ failed \subseteq failed'
    BY <1>2 DEF MeshdataSent
  <2>2. Passes(c, c, n, floods, MulticastKeys)
    BY <1>1, PassesItself
  <2> QED BY <2>1, <2>2, PassesFlows
<1>3. CASE FirstOfType(c.sq, MESH_DATA) # {}
  <2>1. PICK i \in FirstOfType(c.sq, MESH_DATA) :
          ec' = [ec EXCEPT ![n] = [c EXCEPT !.sq = FreePacket(c.sq, i), !.mesh_timer = TRUE]]
    BY <1>3 DEF MeshdataSent
  <2>2. failed \subseteq failed'
    BY <1>3 DEF MeshdataSent
  <2>3. PICK d : d = [c EXCEPT !.sq = FreePacket(c.sq, i), !.mesh_timer = TRUE]
    OBVIOUS
  <2>4. /\ d.sq = FreePacket(c.sq, i) /\ d.dq = c.dq /\ d.seqno = c.seqno
        /\ (d.broadcast_timer <=> c.broadcast_timer)
    BY <2>3 DEF Records
  <2>5. HandedKeys \in Histories
    BY HandedKeysTyped DEF IInv
  <2>6. Passes(c, d, n, floods, MulticastKeys)
    BY <1>1, <2>4, <2>5, ReportFreedPasses
  <2> QED BY <2>1, <2>2, <2>3, <2>6, PassesFlows
<1> QED BY <1>2, <1>3

LEMMA MeshSendFlows ==
  ASSUME IInv, FInv, UNCHANGED <<floods, handed, missed>>, NEW n \in Node,
         NEW c \in Records(n, HandedKeys), Passes(ec[n], c, n, floods, MulticastKeys),
         NEW j \in FirstOfType(c.sq, MESH_DATA),
         c.sq.queued[j].times_sent < MaxTimesSentMesh, MeshSend(n, c, j)
  PROVE  FInv'
<1>1. PICK h \in Histories : h = HandedKeys
  BY HandedKeysTyped DEF IInv
<1>2. PICK pb : pb = IncrementTimesSent(c.sq, j)
  OBVIOUS
<1>3. PICK no \in BOOLEAN : no = FALSE
  BY Zenon
<1>4. PICK d : d = [c EXCEPT !.sq = pb, !.mesh_timer = no]
  OBVIOUS
<1>5. d = [c EXCEPT !.sq = IncrementTimesSent(@, j), !.mesh_timer = FALSE]
  BY <1>2, <1>3, <1>4, Zenon
<1>6. pb \in Buffers(n, h)
  <2>1. c.sq \in Buffers(n, h)
    BY <1>1 DEF Records
  <2>2. \A g : pb \in Buffers(n, h) /\ Confirmed(c.sq, pb, g)
    BY <1>2, <2>1, IncrementGood
  <2> QED BY <2>2
<1>7. /\ d \in Records(n, h) /\ d.sq = pb /\ d.dq = c.dq /\ d.seqno = c.seqno
      /\ (d.broadcast_timer <=> c.broadcast_timer)
  BY <1>1, <1>4, <1>6 DEF Records
<1>8. Passes(c, d, n, floods, MulticastKeys)
  <2>1. Sound(c, floods, MulticastKeys)
    BY DEF Passes
  <2> QED BY <1>1, <1>2, <1>7, <2>1, ReportTriedPasses
<1>9. CASE MeshdataSent(n, d)
  <2>1. Passes(ec[n], d, n, floods, MulticastKeys)
    BY <1>8, PassesOn
  <2> QED BY <1>1, <1>7, <1>9, <2>1, MeshdataSentFlows
<1>10. CASE ec' = [ec EXCEPT ![n] = d] /\ UNCHANGED failed
  <2>1. failed \subseteq failed'
    BY <1>10
  <2> QED BY <1>8, <1>10, <2>1, PassesFlows
<1>11. MeshSend(n, c, j) <=>
         \/ mesh[n].route /\ MeshdataSent(n, d) /\ UNCHANGED mesh
         \/ /\ ~mesh[n].route
            /\ mesh' = [mesh EXCEPT ![n].queued_data = TRUE]
            /\ ec' = [ec EXCEPT ![n] = d] /\ UNCHANGED failed
  BY <1>5, Zenon DEF MeshSend
<1> QED BY <1>9, <1>10, <1>11

LEMMA SendMeshDataFlows ==
  ASSUME IInv, FInv, NEW n \in Node, SendMeshData(n) PROVE FInv'
<1>1. PICK i \in FirstOfType(ec[n].sq, MESH_DATA) :
        LET c    == NextTried(ec[n], i)
            next == FirstOfType(c.sq, MESH_DATA)
        IN  \/ \E j \in next : MeshSend(n, c, j)
            \/ /\ next = {}
               /\ ec' = [ec EXCEPT ![n] = [c EXCEPT !.mesh_timer = FALSE]]
               /\ UNCHANGED <<mesh, failed>>
  BY DEF SendMeshData, NextTried
<1>2. UNCHANGED <<floods, handed, missed>>
  BY DEF SendMeshData
<1>3. PICK h \in Histories : h = HandedKeys
  BY HandedKeysTyped DEF IInv
<1>4. PICK e : e = ec[n]
  OBVIOUS
<1>5. e \in Records(n, h) /\ Sound(e, floods, MulticastKeys)
  BY <1>3, <1>4 DEF IInv, FInv
<1>6. PICK c : c = NextTried(e, i)
  OBVIOUS
<1>7. Sends(e, c, n, h)
  BY <1>4, <1>5, <1>6, NextReport
<1>8. Passes(e, c, n, floods, MulticastKeys)
  <2>1. CASE e.sq.queued[i].times_sent < MaxTimesSentMesh
    <3>1. c = e
      BY <1>6, <2>1 DEF NextTried
    <3> QED BY <1>5, <3>1, PassesItself
  <2>2. CASE ~(e.sq.queued[i].times_sent < MaxTimesSentMesh)
    <3>1. c = [e EXCEPT !.sq = FreePacket(e.sq, i)]
      BY <1>6, <2>2 DEF NextTried
    <3>2. /\ c.sq = FreePacket(e.sq, i) /\ c.dq = e.dq /\ c.seqno = e.seqno
          /\ (c.broadcast_timer <=> e.broadcast_timer)
      BY <1>5, <3>1 DEF Records
    <3> QED BY <1>4, <1>5, <3>2, ReportFreedPasses
  <2> QED BY <2>1, <2>2
<1>9. CASE \E j \in FirstOfType(c.sq, MESH_DATA) : MeshSend(n, c, j)
  BY <1>2, <1>3, <1>4, <1>7, <1>8, <1>9, MeshSendFlows DEF Sends
<1>10. CASE ec' = [ec EXCEPT ![n] = [c EXCEPT !.mesh_timer = FALSE]] /\ UNCHANGED failed
  <2>1. PICK d : d = [c EXCEPT !.mesh_timer = FALSE]
    OBVIOUS
  <2>2. /\ d.sq = c.sq /\ d.dq = c.dq /\ d.seqno = c.seqno
        /\ (d.broadcast_timer <=> c.broadcast_timer)
    BY <1>7, <2>1 DEF Sends, Records
  <2>3. Passes(c, d, n, floods, MulticastKeys)
    BY <1>8, <2>2, TimersPass DEF Passes
  <2>4. failed \subseteq failed'
    BY <1>10
  <2> QED BY <1>2, <1>4, <1>8, <1>10, <2>1, <2>3, <2>4, PassesFlows
<1> QED BY <1>1, <1>4, <1>6, <1>9, <1>10

\* A timer is set or not, and nothing else.
LEMMA TimerFlows ==
  ASSUME IInv, FInv, UNCHANGED <<floods, handed, missed>>, failed \subseteq failed',
         NEW n \in Node, NEW d, ec' = [ec EXCEPT ![n] = d], d.sq = ec[n].sq, d.dq = ec[n].dq,
         d.seqno = ec[n].seqno, d.broadcast_timer <=> ec[n].broadcast_timer
  PROVE  FInv'
<1>1. Sound(ec[n], floods, MulticastKeys)
  BY DEF FInv
<1>2. Passes(ec[n], d, n, floods, MulticastKeys)
  BY <1>1, TimersPass
<1> QED BY <1>2, OneRecordFlows

LEMMA NothingToSendFlows ==
  ASSUME IInv, FInv, NEW n \in Node, NothingToSend(n) PROVE FInv'
<1>1. PICK c : c = ec[n] /\ c \in Records(n, HandedKeys)
  BY DEF IInv
<1>2. UNCHANGED <<floods, handed, missed>> /\ failed \subseteq failed'
  BY DEF NothingToSend
<1>3. CASE ec' = [ec EXCEPT ![n].data_timer = FALSE]
  <2>1. PICK d : d = [c EXCEPT !.data_timer = FALSE]
    OBVIOUS
  <2>2. /\ d.sq = c.sq /\ d.dq = c.dq /\ d.seqno = c.seqno
        /\ (d.broadcast_timer <=> c.broadcast_timer)
    BY <1>1, <2>1 DEF Records
  <2> QED BY <1>1, <1>2, <1>3, <2>1, <2>2, TimerFlows
<1>4. CASE ec' = [ec EXCEPT ![n].mesh_timer = FALSE]
  <2>1. PICK d : d = [c EXCEPT !.mesh_timer = FALSE]
    OBVIOUS
  <2>2. /\ d.sq = c.sq /\ d.dq = c.dq /\ d.seqno = c.seqno
        /\ (d.broadcast_timer <=> c.broadcast_timer)
    BY <1>1, <2>1 DEF Records
  <2> QED BY <1>1, <1>2, <1>4, <2>1, <2>2, TimerFlows
<1>5. CASE ec' = [ec EXCEPT ![n].ack_timer = FALSE]
  <2>1. PICK d : d = [c EXCEPT !.ack_timer = FALSE]
    OBVIOUS
  <2>2. /\ d.sq = c.sq /\ d.dq = c.dq /\ d.seqno = c.seqno
        /\ (d.broadcast_timer <=> c.broadcast_timer)
    BY <1>1, <2>1 DEF Records
  <2> QED BY <1>1, <1>2, <1>5, <2>1, <2>2, TimerFlows
<1>6. CASE /\ FirstOfType(ec[n].sq, BROADCAST_DATA) = {}
           /\ ec' = [ec EXCEPT ![n].broadcast_timer = FALSE]
  <2>1. PICK d : d = [c EXCEPT !.broadcast_timer = FALSE]
    OBVIOUS
  <2>2. d.sq = c.sq /\ d.dq = c.dq /\ d.seqno = c.seqno
    BY <1>1, <2>1 DEF Records
  <2>3. c.sq \in BufferOf(GoodEntries(n, HandedKeys))
    BY <1>1 DEF Records, Buffers
  <2>4. \A b \in GoodEntries(n, HandedKeys) : b.type \in Nat
    BY TypesDiffer DEF GoodEntries, BufferedPacket
  <2>5. Waiting(c.sq) = {}
    <3>1. OfType(c.sq, BROADCAST_DATA) = {}
      BY <1>1, <1>6, <2>3, <2>4, FirstOfTypeFound
    <3> QED BY <3>1 DEF Waiting
  <2>6. Sound(c, floods, MulticastKeys)
    BY <1>1 DEF FInv
  <2>7. Sound(d, floods, MulticastKeys)
    BY <2>2, <2>5, <2>6 DEF Sound
  <2>8. Passes(c, d, n, floods, MulticastKeys)
    BY <2>2, <2>7 DEF Passes, Keeps
  <2> QED BY <1>1, <1>2, <1>6, <2>1, <2>8, OneRecordFlows
<1> QED BY <1>3, <1>4, <1>5, <1>6 DEF NothingToSend

LEMMA RouteFlows ==
  ASSUME IInv, FInv, NEW n \in Node, FoundRoute(n) \/ RouteTimedOut(n) \/ RouteChanges(n)
  PROVE  FInv'
<1>1. PICK c : c = ec[n] /\ c \in Records(n, HandedKeys)
  BY DEF IInv
<1>2. Passes(c, c, n, floods, MulticastKeys)
  BY <1>1, PassesItself DEF FInv
<1>3. UNCHANGED <<floods, handed, missed>>
  BY DEF FoundRoute, RouteTimedOut, RouteChanges
<1>4. CASE FoundRoute(n)
  BY <1>1, <1>2, <1>3, <1>4, MeshdataSentFlows DEF FoundRoute
<1>5. CASE RouteTimedOut(n)
  <2>1. PICK d : d = [c EXCEPT !.mesh_timer = TRUE]
    OBVIOUS
  <2>2. /\ d.sq = c.sq /\ d.dq = c.dq /\ d.seqno = c.seqno
        /\ (d.broadcast_timer <=> c.broadcast_timer)
    BY <1>1, <2>1 DEF Records
  <2>3. ec' = [ec EXCEPT ![n] = d] /\ failed \subseteq failed'
    BY <1>1, <1>5, <2>1 DEF RouteTimedOut
  <2> QED BY <1>1, <1>3, <2>2, <2>3, TimerFlows
<1>6. CASE RouteChanges(n)
  <2>1. ec' = [ec EXCEPT ![n] = c] /\ failed \subseteq failed'
    BY <1>1, <1>6 DEF RouteChanges, IInv
  <2> QED BY <1>1, <1>2, <1>3, <2>1, OneRecordFlows
<1> QED BY <1>4, <1>5, <1>6

LEMMA SoundMonotonic ==
  ASSUME NEW F, NEW M, NEW F2, NEW M2, F \subseteq F2, M \subseteq M2, NEW c, Sound(c, F, M)
  PROVE  Sound(c, F2, M2)
BY DEF Sound, Keyed

\* The record of a node that has taken a number for a packet of its own.
LEMMA CountedRecord ==
  ASSUME IInv, NEW n \in Node, NEW c, c = Counted(ec[n])
  PROVE  /\ c \in Records(n, HandedKeys) /\ c.sq = ec[n].sq /\ c.dq = ec[n].dq
         /\ (c.broadcast_timer <=> ec[n].broadcast_timer)
         /\ ec[n].seqno \in 0..255 /\ c.seqno = (ec[n].seqno + 1) % 256
<1>1. c \in Records(n, HandedKeys)
  BY OwnKeyKnown DEF Follows
<1>2. PICK e : e = ec[n] /\ e \in Records(n, HandedKeys)
  BY DEF IInv
<1>3. PICK k : k = (e.seqno + 1) % 256
  OBVIOUS
<1>4. c = [e EXCEPT !.seqno = k]
  BY <1>2, <1>3 DEF Counted
<1>5. /\ c.sq = e.sq /\ c.dq = e.dq /\ (c.broadcast_timer <=> e.broadcast_timer)
      /\ e.seqno \in 0..255 /\ c.seqno = k
  BY <1>2, <1>4 DEF Records
<1> QED BY <1>1, <1>2, <1>3, <1>5

\* A flood starts: its key is no multicast's, and it waits.
LEMMA AppBroadcastFlows ==
  ASSUME IInv, FInv, FloodersApart, NEW n \in Node,
         n \in AlarmedNodes \/ (n = Sink /\ ec[Sink].seqno < MaxSinkPackets),
         NEW data \in {EMERGENCY_PACKET, EXTRACT_REPORT_PACKET}, AppBroadcast(n, data)
  PROVE  FInv'
<1>1. PICK h \in Histories : h = HandedKeys
  BY HandedKeysTyped DEF IInv
<1>2. PICK k : k = OwnKey(n)
  OBVIOUS
<1>3. PICK c : c = Counted(ec[n])
  OBVIOUS
<1>4. /\ c \in Records(n, h) /\ c.sq = ec[n].sq /\ c.dq = ec[n].dq
      /\ (c.broadcast_timer <=> ec[n].broadcast_timer)
      /\ ec[n].seqno \in 0..255 /\ c.seqno = (ec[n].seqno + 1) % 256
  BY <1>1, <1>3, CountedRecord
<1>5. PICK d : d = EcBroadcast(c, n, k, data)
  OBVIOUS
<1>6. /\ ec' = [ec EXCEPT ![n] = d] /\ floods' = floods \cup {k}
      /\ UNCHANGED <<failed, handed, missed>>
  BY <1>2, <1>3, <1>5 DEF AppBroadcast
<1>7. ec'[n] = d /\ (\A m \in Node \ {n} : ec'[m] = ec[m]) /\ HandedKeys' = HandedKeys
  BY <1>6 DEF IInv, HandedKeys
<1>8. /\ k \in Key /\ k[1] = n /\ k[2] = ec[n].seqno /\ k \in KnownKeys(n, h)
  BY <1>1, <1>2, OwnKeyKnown DEF OwnKey
<1>9. Sink \in Node /\ Sink \notin AlarmedNodes /\ MaxSinkPackets \in Nat /\ MaxSinkPackets <= 255
  BY EmergencyConnAssumption DEF FloodersApart
<1>10. d.seqno = c.seqno \/ n # Sink
  <2>1. Passes(c, d, n, floods', Key)
    <3>1. Sound(c, floods', Key)
      <4>1. Sound(c, floods, MulticastKeys)
        BY <1>4 DEF FInv, Sound
      <4>2. MulticastKeys \subseteq Key /\ floods \subseteq floods'
        BY <1>6 DEF MulticastKeys
      <4> QED BY <4>1, <4>2, SoundMonotonic
    <3>2. k \in floods'
      BY <1>6
    <3> QED BY <1>4, <1>5, <1>8, <3>1, <3>2, BroadcastPasses
  <2> QED BY <2>1 DEF Passes, Keeps
<1>11. ec[Sink].seqno > 0 \/ n = Sink => ec'[Sink].seqno > 0
  <2>1. CASE n = Sink
    <3>1. ec[n].seqno < 255
      BY <1>4, <1>9, <2>1
    <3>2. c.seqno > 0
      BY <1>4, <3>1
    <3> QED BY <1>7, <1>10, <2>1, <3>2
  <2>2. CASE n # Sink
    BY <1>7, <1>9, <2>2
  <2> QED BY <2>1, <2>2
<1>12. k \notin MulticastKeys /\ MulticastKeys \subseteq MulticastKeys'
  <2>1. k \notin MulticastKeys
    <3>1. CASE n \in AlarmedNodes
      BY <1>8, <3>1 DEF MulticastKeys
    <3>2. CASE n = Sink
      <4>1. ~(k[2] = 0 /\ ec[Sink].seqno > 0)
        BY <1>8, <3>2
      <4> QED BY <1>8, <3>2, <4>1 DEF MulticastKeys
    <3> QED BY <3>1, <3>2
  <2>2. ASSUME NEW key \in MulticastKeys PROVE key \in MulticastKeys'
    <3>1. /\ key \in Key /\ key[1] \notin AlarmedNodes /\ key \notin floods
          /\ key[1] = Sink => key[2] = 0 /\ ec[Sink].seqno > 0
      BY <2>2 DEF MulticastKeys
    <3>2. key \notin floods'
      BY <1>6, <2>1, <2>2, <3>1
    <3> QED BY <1>11, <3>1, <3>2 DEF MulticastKeys
  <2> QED BY <2>1, <2>2
<1>13. floods \subseteq floods' /\ k \in floods'
  BY <1>6
<1>14. PICK M : M = MulticastKeys'
  OBVIOUS
<1>15. \A m \in Node : Sound(ec[m], floods', M)
  BY <1>12, <1>13, <1>14, SoundMonotonic DEF FInv
<1>16. /\ Passes(c, d, n, floods', M) /\ (d.sq.null_write \/ k \in Waiting(d.sq))
       /\ Len(d.dq) < DupeQueueLength => k \in ToSet(d.dq)
  <2>1. Sound(c, floods', M)
    BY <1>4, <1>15 DEF Sound
  <2> QED BY <1>4, <1>5, <1>8, <1>13, <2>1, BroadcastPasses
<1>17. \A m \in Node : k \in HandedKeys[m] => k \in floods
  BY <1>12 DEF FInv
<1>18. ASSUME NEW m \in Node
       PROVE  /\ Sound(ec'[m], floods', M)
              /\ HandedKeys'[m] \subseteq HandedKeys[m] \cup floods' \cup M
              /\ ec[m].sq.null_write => ec'[m].sq.null_write
              /\ \/ ec'[m].sq.null_write
                 \/ /\ Waiting(ec[m].sq) \subseteq Waiting(ec'[m].sq) \cup Reached(m)'
                    /\ Due(m)' \subseteq Due(m) \cup Waiting(ec'[m].sq)
              /\ Len(ec'[m].dq) < DupeQueueLength =>
                   /\ Len(ec[m].dq) < DupeQueueLength /\ ToSet(ec[m].dq) \subseteq ToSet(ec'[m].dq)
                   /\ HandedKeys'[m] \cup Own(m)'
                        \subseteq HandedKeys[m] \cup Own(m) \cup ToSet(ec'[m].dq)
  <2>1. CASE m = n
    <3>1. Due(n)' \subseteq Due(n) \cup {k} /\ Own(n)' \subseteq Own(n) \cup {k}
      BY <1>6, <1>7 DEF Due, Own
    <3>2. /\ Sound(d, floods', M) /\ (ec[n].sq.null_write => d.sq.null_write)
          /\ d.sq.null_write \/ Waiting(ec[n].sq) \subseteq Waiting(d.sq)
          /\ Len(d.dq) < DupeQueueLength =>
               Len(ec[n].dq) < DupeQueueLength /\ ToSet(ec[n].dq) \subseteq ToSet(d.dq)
      BY <1>4, <1>16 DEF Passes, Keeps
    <3> QED BY <1>7, <1>16, <2>1, <3>1, <3>2
  <2>2. CASE m # n
    <3>1. Due(m)' \subseteq Due(m) /\ Own(m)' \subseteq Own(m)
      BY <1>6, <1>7, <1>8, <1>17, <2>2 DEF Due, Own
    <3> QED BY <1>7, <1>15, <2>2, <3>1
  <2> QED BY <2>1, <2>2
<1>19. \A key \in floods' : key[1] \in AlarmedNodes \/ (key[1] = Sink /\ ec'[Sink].seqno > 0)
  BY <1>6, <1>8, <1>11 DEF FInv
<1>20. failed \subseteq failed' /\ \A m \in Node : missed[m] \subseteq missed'[m]
  BY <1>6
<1> QED BY <1>7, <1>12, <1>13, <1>14, <1>18, <1>19, <1>20, FlowStep

\* A multicast starts: its key is no flood's.
LEMMA AppMulticastFlows ==
  ASSUME IInv, FInv, FloodersApart, NEW n \in Node, AppMulticast(n)
  PROVE  FInv'
<1>1. PICK h \in Histories : h = HandedKeys
  BY HandedKeysTyped DEF IInv
<1>2. PICK k : k = OwnKey(n)
  OBVIOUS
<1>3. PICK c : c = Counted(ec[n])
  OBVIOUS
<1>4. /\ c \in Records(n, h) /\ c.sq = ec[n].sq /\ c.dq = ec[n].dq
      /\ (c.broadcast_timer <=> ec[n].broadcast_timer)
      /\ ec[n].seqno = 0 /\ c.seqno = 1
  BY <1>1, <1>3, CountedRecord DEF AppMulticast
<1>5. PICK d : d = EcReliableMulticast(c, n, Receivers[n], k, IM_YOUR_NEW_NEIGHBOR)
  OBVIOUS
<1>6. /\ ec' = [ec EXCEPT ![n] = d] /\ UNCHANGED <<failed, floods, handed, missed>>
      /\ n \notin AlarmedNodes
  BY <1>2, <1>3, <1>5 DEF AppMulticast, FloodersApart
<1>7. ec'[n] = d /\ (\A m \in Node \ {n} : ec'[m] = ec[m]) /\ HandedKeys' = HandedKeys
  BY <1>6 DEF IInv, HandedKeys
<1>8. /\ k \in Key /\ k[1] = n /\ k[2] = 0 /\ k \in KnownKeys(n, h)
  BY <1>1, <1>2, <1>4, OwnKeyKnown DEF OwnKey
<1>9. Sink \in Node /\ Receivers[n] \in SUBSET Node /\ n \notin Receivers[n]
  BY EmergencyConnAssumption
<1>10. ASSUME NEW M, k \in M, MulticastKeys \subseteq M
       PROVE  Passes(c, d, n, floods, M)
  <2>1. Sound(c, floods, M)
    <3>1. Sound(c, floods, MulticastKeys)
      BY <1>4 DEF FInv, Sound
    <3> QED BY <1>10, <3>1, SoundMonotonic
  <2> QED BY <1>4, <1>5, <1>8, <1>9, <1>10, <2>1, MulticastPasses
<1>11. d.seqno = 1 \/ n # Sink
  <2>1. Passes(c, d, n, floods, Key)
    BY <1>8, <1>10 DEF MulticastKeys
  <2> QED BY <1>4, <2>1 DEF Passes, Keeps
<1>12. ec[Sink].seqno > 0 \/ n = Sink => ec'[Sink].seqno > 0
  BY <1>7, <1>9, <1>11
<1>13. MulticastKeys \subseteq MulticastKeys'
  BY <1>6, <1>12 DEF MulticastKeys
<1>14. k \in MulticastKeys'
  <2>1. k \notin floods
    <3>1. k \in floods => n = Sink /\ ec[Sink].seqno > 0
      BY <1>6, <1>8 DEF FInv
    <3> QED BY <1>4, <3>1
  <2> QED BY <1>6, <1>8, <1>12, <2>1 DEF MulticastKeys
<1>15. PICK M : M = MulticastKeys'
  OBVIOUS
<1>16. Passes(c, d, n, floods, M)
  BY <1>10, <1>13, <1>14, <1>15
<1>17. \A m \in Node : Sound(ec[m], floods, M)
  BY <1>13, <1>15, SoundMonotonic DEF FInv
<1>18. \A m \in Node : Due(m)' = Due(m) /\ Own(m)' = Own(m)
  BY <1>6, <1>7 DEF Due, Own
<1>19. ASSUME NEW m \in Node
       PROVE  /\ Sound(ec'[m], floods', M)
              /\ ec[m].sq.null_write => ec'[m].sq.null_write
              /\ ec'[m].sq.null_write \/ Waiting(ec[m].sq) \subseteq Waiting(ec'[m].sq)
              /\ Len(ec'[m].dq) < DupeQueueLength =>
                   Len(ec[m].dq) < DupeQueueLength /\ ToSet(ec[m].dq) \subseteq ToSet(ec'[m].dq)
  <2>1. CASE m = n
    BY <1>4, <1>6, <1>7, <1>16, <2>1 DEF Passes, Keeps
  <2>2. CASE m # n
    BY <1>6, <1>7, <1>17, <2>2
  <2> QED BY <2>1, <2>2
<1>20. \A key \in floods' : key[1] \in AlarmedNodes \/ (key[1] = Sink /\ ec'[Sink].seqno > 0)
  BY <1>6, <1>12 DEF FInv
<1>21. failed \subseteq failed' /\ floods \subseteq floods'
       /\ \A m \in Node : missed[m] \subseteq missed'[m]
  BY <1>6
<1> QED BY <1>7, <1>13, <1>15, <1>18, <1>19, <1>20, <1>21, FlowStep

\* What the frame f of node n does to the histories.
LEMMA TransmitHands ==
  ASSUME IInv, NEW n \in Node, NEW c, NEW f, KeyOf(f) \in Key, Transmit(n, c, f)
  PROVE  /\ UNCHANGED <<failed, floods>>
         /\ HandedKeys' \in Histories /\ Grows(HandedKeys, HandedKeys')
         /\ ec'[n] = c
         /\ \A m \in Node :
              /\ missed[m] \subseteq missed'[m]
              /\ \/ /\ m # n => ec'[m] = Received(ec[m], m, f)
                    /\ m \in InRange[n] \cap f.to
                    /\ IF IsNew(ec[m], f) /\ HasRoom(ec[m])
                       THEN HandedKeys'[m] = HandedKeys[m] \cup {KeyOf(f)}
                       ELSE HandedKeys'[m] = HandedKeys[m]
                    /\ IsNew(ec[m], f) /\ ~HasRoom(ec[m]) => KeyOf(f) \in missed'[m]
                 \/ /\ m # n => ec'[m] = ec[m]
                    /\ HandedKeys'[m] = HandedKeys[m]
                    /\ m \in InRange[n] \cap f.to => KeyOf(f) \in missed'[m] \/ m \in failed
<1> DEFINE hearers == (InRange[n] \cap f.to) \ failed
<1>1. PICK lost \in SUBSET hearers :
        /\ ec' = [m \in Node |->
             IF m = n THEN c
             ELSE IF m \in hearers \ lost THEN Received(ec[m], m, f)
             ELSE ec[m]]
        /\ handed' = [m \in Node |->
             IF m \in hearers \ lost /\ IsNew(ec[m], f) /\ HasRoom(ec[m])
             THEN Append(handed[m], KeyOf(f)) ELSE handed[m]]
        /\ missed' = [m \in Node |->
             IF m \in lost \/ (m \in hearers /\ IsNew(ec[m], f) /\ ~HasRoom(ec[m]))
             THEN missed[m] \cup {KeyOf(f)} ELSE missed[m]]
        /\ UNCHANGED <<mesh, failed, floods>>
  BY DEF Transmit
<1>2. ASSUME NEW m \in Node
      PROVE  /\ handed'[m] \in Seq(Key) /\ HandedKeys'[m] = ToSet(handed'[m])
             /\ HandedKeys[m] = ToSet(handed[m])
             /\ IF m \in hearers \ lost /\ IsNew(ec[m], f) /\ HasRoom(ec[m])
                THEN ToSet(handed'[m]) = ToSet(handed[m]) \cup {KeyOf(f)}
                ELSE ToSet(handed'[m]) = ToSet(handed[m])
  <2>1. handed[m] \in Seq(Key)
    BY DEF IInv
  <2>2. /\ Append(handed[m], KeyOf(f)) \in Seq(Key)
        /\ ToSet(Append(handed[m], KeyOf(f))) = ToSet(handed[m]) \cup {KeyOf(f)}
    BY <2>1, ToSetAppend
  <2>3. handed'[m] = IF m \in hearers \ lost /\ IsNew(ec[m], f) /\ HasRoom(ec[m])
                     THEN Append(handed[m], KeyOf(f)) ELSE handed[m]
    BY <1>1
  <2>4. HandedKeys'[m] = ToSet(handed'[m]) /\ HandedKeys[m] = ToSet(handed[m])
    BY DEF HandedKeys
  <2> QED BY <2>1, <2>2, <2>3, <2>4
<1>3. HandedKeys' \in Histories
  <2>1. \A m \in Node : ToSet(handed'[m]) \subseteq Key
    BY <1>2, ElementOfSeq DEF ToSet
  <2>2. PICK h2 : h2 = [m \in Node |-> ToSet(handed'[m])]
    OBVIOUS
  <2>3. h2 \in Histories
    BY <2>1, <2>2 DEF Histories
  <2>4. h2 = HandedKeys'
    BY <2>2, Zenon DEF HandedKeys
  <2> QED BY <2>3, <2>4
<1>4. Grows(HandedKeys, HandedKeys')
  <2>1. ASSUME NEW m \in Node PROVE HandedKeys[m] \subseteq HandedKeys'[m]
    BY <1>2
  <2> QED BY <2>1 DEF Grows
<1>5. ec'[n] = c
  BY <1>1
<1>6. ASSUME NEW m \in Node
      PROVE  /\ missed[m] \subseteq missed'[m]
             /\ m \in lost => KeyOf(f) \in missed'[m]
             /\ m \in hearers /\ IsNew(ec[m], f) /\ ~HasRoom(ec[m]) => KeyOf(f) \in missed'[m]
             /\ m # n /\ m \in hearers \ lost => ec'[m] = Received(ec[m], m, f)
             /\ m # n /\ m \notin hearers \ lost => ec'[m] = ec[m]
  BY <1>1
<1>7. ASSUME NEW m \in Node, m \in hearers \ lost
      PROVE  /\ m # n => ec'[m] = Received(ec[m], m, f)
             /\ m \in InRange[n] \cap f.to
             /\ IF IsNew(ec[m], f) /\ HasRoom(ec[m])
                THEN HandedKeys'[m] = HandedKeys[m] \cup {KeyOf(f)}
                ELSE HandedKeys'[m] = HandedKeys[m]
             /\ IsNew(ec[m], f) /\ ~HasRoom(ec[m]) => KeyOf(f) \in missed'[m]
  BY <1>2, <1>6, <1>7
<1>8. ASSUME NEW m \in Node, m \notin hearers \ lost
      PROVE  /\ m # n => ec'[m] = ec[m]
             /\ HandedKeys'[m] = HandedKeys[m]
             /\ m \in InRange[n] \cap f.to => KeyOf(f) \in missed'[m] \/ m \in failed
  BY <1>2, <1>6, <1>8
<1>9. \A m \in Node : missed[m] \subseteq missed'[m]
  BY <1>6
<1> HIDE DEF hearers
<1> QED BY <1>1, <1>3, <1>4, <1>5, <1>7, <1>8, <1>9

\* What a node remembers as a duplicate it was handed, or is its own.
LEMMA NotNewIsKnown ==
  ASSUME NEW n \in Node, NEW h \in Histories, NEW c \in Records(n, h), NEW f, ~f.ack, ~IsNew(c, f)
  PROVE  KeyOf(f)[1] = n \/ KeyOf(f) \in h[n]
<1>1. Contains(c.dq, KeyOf(f)) /\ c.dq \in Seq(KnownKeys(n, h))
  BY DEF IsNew, Records
<1>2. PICK i \in 1..Len(c.dq) : c.dq[i] = KeyOf(f)
  BY <1>1 DEF Contains
<1>3. KeyOf(f) \in KnownKeys(n, h)
  BY <1>1, <1>2, ElementOfSeq
<1> QED BY <1>3 DEF KnownKeys

\* A broadcast that goes out reaches whoever is in range.
LEMMA BroadcastReaches ==
  ASSUME IInv, NEW n \in Node, NEW c, NEW f, KeyOf(f) \in Key, ~f.ack, IsBroadcast(f),
         Transmit(n, c, f)
  PROVE  KeyOf(f) \in Reached(n)'
<1>1. HandedKeys \in Histories /\ InRange[n] \subseteq Node /\ f.to = Node
  BY HandedKeysTyped, EmergencyConnAssumption DEF IInv, IsBroadcast
<1>2. ASSUME NEW m \in InRange[n]
      PROVE  KeyOf(f) \in HandedKeys'[m] \cup missed'[m] \/ KeyOf(f)[1] = m \/ m \in failed'
  <2>1. m \in Node /\ m \in InRange[n] \cap f.to
    BY <1>1
  <2>2. ec[m] \in Records(m, HandedKeys)
    BY <2>1 DEF IInv
  <2>3. ~IsNew(ec[m], f) => KeyOf(f)[1] = m \/ KeyOf(f) \in HandedKeys[m]
    BY <1>1, <2>1, <2>2, NotNewIsKnown
  <2>4. failed' = failed /\ Grows(HandedKeys, HandedKeys')
    BY TransmitHands
  <2>5. HandedKeys[m] \subseteq HandedKeys'[m]
    BY <2>1, <2>4 DEF Grows
  <2>6. \/ /\ IF IsNew(ec[m], f) /\ HasRoom(ec[m])
              THEN HandedKeys'[m] = HandedKeys[m] \cup {KeyOf(f)}
              ELSE HandedKeys'[m] = HandedKeys[m]
           /\ IsNew(ec[m], f) /\ ~HasRoom(ec[m]) => KeyOf(f) \in missed'[m]
        \/ KeyOf(f) \in missed'[m] \/ m \in failed
    BY <2>1, TransmitHands
  <2>7. CASE IsNew(ec[m], f) /\ HasRoom(ec[m])
    BY <2>4, <2>6, <2>7
  <2>8. CASE ~(IsNew(ec[m], f) /\ HasRoom(ec[m]))
    BY <2>3, <2>4, <2>5, <2>6, <2>8
  <2> QED BY <2>7, <2>8
<1> QED BY <1>2 DEF Reached

\* Who hears a frame keeps what waits, and lets a flooded packet wait that it
\* is handed.
LEMMA HearerFlows ==
  ASSUME IInv, FInv, NEW n \in Node, NEW c, NEW f, KeyOf(f) \in Key,
         NEW m \in Node \ {n}, m \in InRange[n] \cap f.to => GoodFrame(f, m, HandedKeys),
         KeyedFrame(f, floods, MulticastKeys), Transmit(n, c, f)
  PROVE  /\ Passes(ec[m], ec'[m], m, floods, MulticastKeys)
         /\ \/ HandedKeys'[m] = HandedKeys[m]
            \/ /\ HandedKeys'[m] = HandedKeys[m] \cup {KeyOf(f)} /\ ~f.ack
               /\ IsBroadcast(f) /\ m # Sink
                    => ec'[m].sq.null_write \/ KeyOf(f) \in Waiting(ec'[m].sq)
               /\ Len(ec'[m].dq) < DupeQueueLength => KeyOf(f) \in ToSet(ec'[m].dq)
<1>1. PICK h \in Histories : h = HandedKeys
  BY HandedKeysTyped DEF IInv
<1>2. PICK h2 \in Histories : h2 = HandedKeys'
  BY TransmitHands
<1>3. PICK d : d = ec'[m]
  OBVIOUS
<1>4. PICK b : b = ec[m]
  OBVIOUS
<1>5. Grows(h, h2) /\ b \in Records(m, h) /\ Sound(b, floods, MulticastKeys)
  BY <1>1, <1>2, <1>4, TransmitHands DEF IInv, FInv
<1>6. \/ /\ d = Received(b, m, f) /\ m \in InRange[n] \cap f.to
         /\ IF IsNew(b, f) /\ HasRoom(b)
            THEN h2[m] = h[m] \cup {KeyOf(f)} ELSE h2[m] = h[m]
      \/ d = b /\ h2[m] = h[m]
  BY <1>1, <1>2, <1>3, <1>4, TransmitHands
<1>7. CASE d = b /\ h2[m] = h[m]
  BY <1>1, <1>2, <1>3, <1>4, <1>5, <1>7, PassesItself
<1>8. CASE /\ d = Received(b, m, f) /\ m \in InRange[n] \cap f.to
           /\ IF IsNew(b, f) /\ HasRoom(b)
              THEN h2[m] = h[m] \cup {KeyOf(f)} ELSE h2[m] = h[m]
  <2>1. GoodFrame(f, m, h) /\ floods \cap MulticastKeys = {}
    BY <1>1, <1>8, KeysApart
  <2>2. IsNew(b, f) /\ HasRoom(b) => KeyOf(f) \in h2[m]
    BY <1>8
  <2>3. /\ Passes(b, d, m, floods, MulticastKeys)
        /\ IsNew(b, f) /\ HasRoom(b) =>
              /\ IsBroadcast(f) /\ m # Sink => d.sq.null_write \/ KeyOf(f) \in Waiting(d.sq)
              /\ Len(d.dq) < DupeQueueLength => KeyOf(f) \in ToSet(d.dq)
    BY <1>5, <1>8, <2>1, <2>2, ReceivedPasses
  <2>4. IsNew(b, f) => ~f.ack
    BY DEF IsNew
  <2> QED BY <1>1, <1>2, <1>3, <1>4, <1>8, <2>3, <2>4
<1> QED BY <1>6, <1>7, <1>8

\* A frame goes out: a broadcast that waits no longer has reached everyone.
LEMMA TransmitFlows ==
  ASSUME IInv, FInv, NEW n \in Node, NEW c, NEW f, KeyOf(f) \in Key,
         \A m \in Node \ {n} : m \in InRange[n] \cap f.to => GoodFrame(f, m, HandedKeys),
         KeyedFrame(f, floods, MulticastKeys), Sound(c, floods, MulticastKeys),
         c.dq = ec[n].dq, c.seqno = ec[n].seqno, ec[n].sq.null_write => c.sq.null_write,
         \A key \in Waiting(ec[n].sq) :
           key \in Waiting(c.sq) \/ (~f.ack /\ IsBroadcast(f) /\ key = KeyOf(f)),
         Transmit(n, c, f)
  PROVE  FInv'
<1>1. UNCHANGED <<failed, floods>> /\ ec'[n] = c
  BY TransmitHands
<1>2. n \notin InRange[n] /\ Sink \in Node
  BY EmergencyConnAssumption
<1>3. HandedKeys'[n] = HandedKeys[n]
  BY <1>2, TransmitHands
<1>4. ASSUME NEW m \in Node \ {n}
      PROVE  /\ Passes(ec[m], ec'[m], m, floods, MulticastKeys)
             /\ \/ HandedKeys'[m] = HandedKeys[m]
                \/ /\ HandedKeys'[m] = HandedKeys[m] \cup {KeyOf(f)} /\ ~f.ack
                   /\ IsBroadcast(f) /\ m # Sink
                        => ec'[m].sq.null_write \/ KeyOf(f) \in Waiting(ec'[m].sq)
                   /\ Len(ec'[m].dq) < DupeQueueLength => KeyOf(f) \in ToSet(ec'[m].dq)
  BY HearerFlows
<1>5. ec'[Sink].seqno = ec[Sink].seqno
  <2>1. CASE n = Sink
    BY <1>1, <2>1
  <2>2. CASE n # Sink
    BY <1>2, <1>4, <2>2 DEF Passes, Keeps
  <2> QED BY <2>1, <2>2
<1>6. MulticastKeys' = MulticastKeys
  BY <1>1, <1>5, SameMulticastKeys
<1>7. ~f.ack /\ IsBroadcast(f) => KeyOf(f) \in Reached(n)'
  BY BroadcastReaches
<1>8. /\ ~f.ack /\ ~IsBroadcast(f) => KeyOf(f) \notin floods
      /\ KeyOf(f) \in floods \cup MulticastKeys
  BY KeysApart DEF KeyedFrame
<1>9. ASSUME NEW m \in Node
      PROVE  /\ Sound(ec'[m], floods, MulticastKeys)
             /\ HandedKeys'[m] \subseteq HandedKeys[m] \cup floods \cup MulticastKeys
             /\ ec[m].sq.null_write => ec'[m].sq.null_write
             /\ \/ ec'[m].sq.null_write
                \/ /\ Waiting(ec[m].sq) \subseteq Waiting(ec'[m].sq) \cup Reached(m)'
                   /\ Due(m)' \subseteq Due(m) \cup Waiting(ec'[m].sq)
             /\ Len(ec'[m].dq) < DupeQueueLength =>
                  /\ Len(ec[m].dq) < DupeQueueLength /\ ToSet(ec[m].dq) \subseteq ToSet(ec'[m].dq)
                  /\ HandedKeys'[m] \cup Own(m)'
                       \subseteq HandedKeys[m] \cup Own(m) \cup ToSet(ec'[m].dq)
  <2>1. Own(m)' = Own(m)
    BY <1>1 DEF Own
  <2>2. CASE m = n
    <3>1. Due(n)' = Due(n)
      BY <1>1, <1>3 DEF Due
    <3>2. Waiting(ec[n].sq) \subseteq Waiting(c.sq) \cup Reached(n)'
      BY <1>7
    <3> QED BY <1>1, <1>3, <2>1, <2>2, <3>1, <3>2
  <2>3. CASE m # n
    <3>1. /\ Sound(ec'[m], floods, MulticastKeys)
          /\ ec[m].sq.null_write => ec'[m].sq.null_write
          /\ ec'[m].sq.null_write \/ Waiting(ec[m].sq) \subseteq Waiting(ec'[m].sq)
          /\ Len(ec'[m].dq) < DupeQueueLength =>
               Len(ec[m].dq) < DupeQueueLength /\ ToSet(ec[m].dq) \subseteq ToSet(ec'[m].dq)
      BY <1>4, <2>3 DEF Passes, Keeps
    <3>2. HandedKeys'[m] \subseteq HandedKeys[m] \cup floods \cup MulticastKeys
      BY <1>4, <1>8, <2>3
    <3>3. ec'[m].sq.null_write \/ Due(m)' \subseteq Due(m) \cup Waiting(ec'[m].sq)
      <4>1. CASE HandedKeys'[m] = HandedKeys[m]
        BY <1>1, <4>1 DEF Due
      <4>2. CASE /\ HandedKeys'[m] = HandedKeys[m] \cup {KeyOf(f)} /\ ~f.ack
                 /\ IsBroadcast(f) /\ m # Sink
                      => ec'[m].sq.null_write \/ KeyOf(f) \in Waiting(ec'[m].sq)
        <5>1. ASSUME NEW key \in Due(m)', ~ec'[m].sq.null_write
              PROVE  key \in Due(m) \cup Waiting(ec'[m].sq)
          <6>1. /\ key \in floods
                /\ key[1] = m \/ (m # Sink /\ (key \in HandedKeys[m] \/ key = KeyOf(f)))
            BY <1>1, <4>2, <5>1 DEF Due
          <6>2. CASE key[1] = m \/ (m # Sink /\ key \in HandedKeys[m])
            BY <6>1, <6>2 DEF Due
          <6>3. CASE m # Sink /\ key = KeyOf(f)
            BY <1>8, <4>2, <5>1, <6>1, <6>3
          <6> QED BY <6>1, <6>2, <6>3
        <5> QED BY <5>1
      <4> QED BY <1>4, <2>3, <4>1, <4>2
    <3>4. Len(ec'[m].dq) < DupeQueueLength =>
            HandedKeys'[m] \cup Own(m)' \subseteq HandedKeys[m] \cup Own(m) \cup ToSet(ec'[m].dq)
      BY <1>4, <2>1, <2>3
    <3> QED BY <3>1, <3>2, <3>3, <3>4
  <2> QED BY <2>2, <2>3
<1>10. \A m \in Node : HandedKeys[m] \subseteq HandedKeys'[m] /\ missed[m] \subseteq missed'[m]
  BY TransmitHands DEF Grows
<1>11. \A key \in floods' : key[1] \in AlarmedNodes \/ (key[1] = Sink /\ ec'[Sink].seqno > 0)
  BY <1>1, <1>5 DEF FInv
<1> QED BY <1>1, <1>6, <1>9, <1>10, <1>11, FlowStep

LEMMA SendBroadcastDataFlows ==
  ASSUME IInv, FInv, NEW n \in Node, SendBroadcastData(n) PROVE FInv'
<1>1. PICK i \in FirstOfType(ec[n].sq, BROADCAST_DATA) :
        Transmit(n, [ec[n] EXCEPT !.sq = FreePacket(ec[n].sq, i),
                       !.broadcast_timer = OfType(FreePacket(ec[n].sq, i), BROADCAST_DATA) # {}],
                 ec[n].sq.queued[i].p)
  BY DEF SendBroadcastData
<1>2. PICK h \in Histories : h = HandedKeys
  BY HandedKeysTyped DEF IInv
<1>3. PICK c : c = ec[n]
  OBVIOUS
<1>4. PICK b : b = c.sq.queued[i]
  OBVIOUS
<1>5. PICK pb : pb = FreePacket(c.sq, i)
  OBVIOUS
<1>6. PICK t \in BOOLEAN : t = (OfType(pb, BROADCAST_DATA) # {})
  OBVIOUS
<1>7. PICK d : d = [c EXCEPT !.sq = pb, !.broadcast_timer = t]
  OBVIOUS
<1>8. Transmit(n, d, b.p)
  BY <1>1, <1>3, <1>4, <1>5, <1>6, <1>7
<1>9. /\ c \in Records(n, h) /\ c.sq \in Buffers(n, h) /\ i \in DOMAIN c.sq.queued
      /\ b.type = BROADCAST_DATA /\ b.p \in Packet /\ GoodEntry(n, b, h)
  BY <1>2, <1>3, <1>4, FirstIsThere, TypesDiffer
<1>10. Keyed(c.sq, floods, MulticastKeys)
  BY <1>3 DEF FInv, Sound
<1>11. /\ Keyed(pb, floods, MulticastKeys) /\ (pb.null_write <=> c.sq.null_write)
       /\ Waiting(c.sq) \subseteq Waiting(pb) \cup {KeyOf(b.p)}
  BY <1>4, <1>5, <1>9, <1>10, FreeWaits
<1>12. d.sq = pb /\ d.dq = c.dq /\ d.seqno = c.seqno /\ d.broadcast_timer = t
  BY <1>7, <1>9 DEF Records
<1>13. Sound(d, floods, MulticastKeys)
  <2>1. Waiting(pb) # {} => t
    BY <1>6 DEF Waiting
  <2> QED BY <1>11, <1>12, <2>1 DEF Sound
<1>14. ~b.p.ack /\ b.p.originator \in Node /\ GoodBroadcast(b.p) /\ b.p.seqno \in 0..255
  BY <1>9, TypesDiffer DEF GoodEntry, Packet
<1>15. KeyOf(b.p) \in Key /\ \A m \in Node \ {n} : GoodFrame(b.p, m, h)
  BY <1>9, <1>14 DEF GoodFrame, GoodData, KeyOf, Key
<1>16. KeyOf(b.p) \in floods /\ IsBroadcast(b.p)
  BY <1>4, <1>9, <1>10, <1>14 DEF Keyed, GoodBroadcast, IsBroadcast
<1>17. KeyedFrame(b.p, floods, MulticastKeys)
  BY <1>14, <1>16 DEF KeyedFrame
<1>18. \A key \in Waiting(ec[n].sq) :
         key \in Waiting(d.sq) \/ (~b.p.ack /\ IsBroadcast(b.p) /\ key = KeyOf(b.p))
  BY <1>3, <1>11, <1>12, <1>14, <1>16
<1>19. d.dq = ec[n].dq /\ d.seqno = ec[n].seqno /\ (ec[n].sq.null_write => d.sq.null_write)
  BY <1>3, <1>11, <1>12
<1> QED BY <1>2, <1>8, <1>13, <1>15, <1>17, <1>18, <1>19, TransmitFlows

LEMMA SendMulticastUnicastDataFlows ==
  ASSUME IInv, FInv, NEW n \in Node, SendMulticastUnicastData(n) PROVE FInv'
<1>1. PICK i \in FirstOfType(ec[n].sq, MULTICAST_UNICAST_DATA) :
        Transmit(n, ec[n],
                 [ec[n].sq.queued[i].p EXCEPT !.to = ec[n].sq.queued[i].unacked_ns])
  BY DEF SendMulticastUnicastData
<1>2. PICK h \in Histories : h = HandedKeys
  BY HandedKeysTyped DEF IInv
<1>3. PICK c : c = ec[n]
  OBVIOUS
<1>4. PICK b : b = c.sq.queued[i]
  OBVIOUS
<1>5. PICK f : f = [b.p EXCEPT !.to = b.unacked_ns]
  OBVIOUS
<1>6. Transmit(n, c, f)
  BY <1>1, <1>3, <1>4, <1>5
<1>7. /\ c \in Records(n, h) /\ b.type = MULTICAST_UNICAST_DATA /\ b \in BufferedPacket
      /\ b.p \in Packet /\ GoodEntry(n, b, h) /\ i \in DOMAIN c.sq.queued
  BY <1>2, <1>3, <1>4, FirstIsThere, TypesDiffer
<1>8. ~b.p.ack /\ GoodMulticast(n, b.p) /\ b.unacked_ns \subseteq b.p.to
  BY <1>7, TypesDiffer DEF GoodEntry
<1>9. b.unacked_ns \in SUBSET Node
  BY <1>7 DEF BufferedPacket
<1>10. /\ f \in Packet /\ ~f.ack /\ f.originator = n /\ f.sender = n /\ n \notin f.to
       /\ f.data = IM_YOUR_NEW_NEIGHBOR /\ f.seqno \in 0..255 /\ f.seqno = b.p.seqno
       /\ f.originator = b.p.originator
  BY <1>5, <1>7, <1>8, <1>9 DEF Packet, GoodMulticast
<1>11. ~IsBroadcast(f)
  BY <1>10 DEF IsBroadcast
<1>12. KeyOf(f) \in Key /\ \A m \in Node \ {n} : GoodFrame(f, m, h)
  BY <1>10, <1>11 DEF GoodFrame, GoodData, KeyOf, Key
<1>13. Sound(c, floods, MulticastKeys)
  BY <1>3 DEF FInv
<1>14. KeyedFrame(f, floods, MulticastKeys)
  <2>1. KeyOf(b.p) \in MulticastKeys
    BY <1>4, <1>7, <1>13 DEF Sound, Keyed
  <2>2. KeyOf(f) = KeyOf(b.p)
    BY <1>10 DEF KeyOf
  <2> QED BY <1>11, <2>1, <2>2 DEF KeyedFrame
<1> QED BY <1>2, <1>3, <1>6, <1>12, <1>13, <1>14, TransmitFlows

LEMMA SendMulticastUnicastAckFlows ==
  ASSUME IInv, FInv, NEW n \in Node, SendMulticastUnicastAck(n) PROVE FInv'
<1>1. PICK i \in FirstOfType(ec[n].sq, MULTICAST_UNICAST_ACK) :
        Transmit(n, [ec[n] EXCEPT !.sq = FreePacket(ec[n].sq, i),
                       !.ack_timer = OfType(FreePacket(ec[n].sq, i), MULTICAST_UNICAST_ACK) # {}],
                 ec[n].sq.queued[i].p)
  BY DEF SendMulticastUnicastAck
<1>2. PICK h \in Histories : h = HandedKeys
  BY HandedKeysTyped DEF IInv
<1>3. PICK c : c = ec[n]
  OBVIOUS
<1>4. PICK b : b = c.sq.queued[i]
  OBVIOUS
<1>5. PICK pb : pb = FreePacket(c.sq, i)
  OBVIOUS
<1>6. PICK t \in BOOLEAN : t = (OfType(pb, MULTICAST_UNICAST_ACK) # {})
  OBVIOUS
<1>7. PICK d : d = [c EXCEPT !.sq = pb, !.ack_timer = t]
  OBVIOUS
<1>8. Transmit(n, d, b.p)
  BY <1>1, <1>3, <1>4, <1>5, <1>6, <1>7
<1>9. /\ c \in Records(n, h) /\ c.sq \in Buffers(n, h) /\ i \in DOMAIN c.sq.queued
      /\ b.type = MULTICAST_UNICAST_ACK /\ b.p \in Packet /\ GoodEntry(n, b, h)
  BY <1>2, <1>3, <1>4, FirstIsThere, TypesDiffer
<1>10. Sound(c, floods, MulticastKeys) /\ Keyed(c.sq, floods, MulticastKeys)
  BY <1>3 DEF FInv, Sound
<1>11. /\ Keyed(pb, floods, MulticastKeys) /\ (pb.null_write <=> c.sq.null_write)
       /\ Waiting(c.sq) \subseteq Waiting(pb) /\ Waiting(pb) \subseteq Waiting(c.sq)
  BY <1>4, <1>5, <1>9, <1>10, FreeWaits, TypesDiffer
<1>12. /\ d.sq = pb /\ d.dq = c.dq /\ d.seqno = c.seqno
       /\ (d.broadcast_timer <=> c.broadcast_timer)
  BY <1>7, <1>9 DEF Records
<1>13. Sound(d, floods, MulticastKeys)
  BY <1>10, <1>11, <1>12 DEF Sound
<1>14. b.p.ack /\ b.p.originator \in Node /\ GoodAck(n, b.p, h) /\ b.p.seqno \in 0..255
  BY <1>9, TypesDiffer DEF GoodEntry, Packet
<1>15. KeyOf(b.p) \in Key /\ \A m \in Node \ {n} : GoodFrame(b.p, m, h)
  BY <1>9, <1>14 DEF GoodFrame, GoodAck, KeyOf, Key
<1>16. KeyedFrame(b.p, floods, MulticastKeys)
  BY <1>4, <1>9, <1>10, <1>14 DEF Keyed, KeyedFrame
<1>17. /\ Waiting(ec[n].sq) \subseteq Waiting(d.sq) /\ d.dq = ec[n].dq /\ d.seqno = ec[n].seqno
       /\ ec[n].sq.null_write => d.sq.null_write
  BY <1>3, <1>11, <1>12
<1> QED BY <1>2, <1>8, <1>13, <1>15, <1>16, <1>17, TransmitFlows

LEMMA InitFInv == Init => FInv
<1> SUFFICES ASSUME Init PROVE FInv
  OBVIOUS
<1>1. floods = {}
  BY DEF Init
<1>2. ASSUME NEW n \in Node
      PROVE  /\ Sound(ec[n], floods, MulticastKeys) /\ HandedKeys[n] = {}
             /\ Due(n) = {} /\ Own(n) = {}
  <2>1. ec[n] = [sq |-> EmptyBuffer, dq |-> << >>, ns |-> Neighbors[n], seqno |-> 0,
                 broadcast_timer |-> FALSE, data_timer |-> FALSE,
                 ack_timer |-> FALSE, mesh_timer |-> FALSE]
    BY DEF Init
  <2>2. ec[n].sq = EmptyBuffer
    BY <2>1
  <2>3. DOMAIN EmptyBuffer.queued = {}
    BY DEF EmptyBuffer
  <2>4. Waiting(ec[n].sq) = {} /\ Keyed(ec[n].sq, floods, MulticastKeys)
    BY <2>2, <2>3 DEF Waiting, OfType, Keyed
  <2>5. HandedKeys[n] = {}
    BY DEF Init, HandedKeys, ToSet
  <2> QED BY <1>1, <2>4, <2>5 DEF Sound, Due, Own
<1> QED BY <1>1, <1>2 DEF FInv

LEMMA NextFInv ==
  ASSUME FloodersApart, IInv, FInv, [Next]_vars PROVE FInv'
<1>1. CASE UNCHANGED vars
  <2>1. UNCHANGED <<ec, failed, floods, handed, missed>>
    BY <1>1 DEF vars
  <2>2. HandedKeys' = HandedKeys
    BY <2>1 DEF HandedKeys
  <2>3. MulticastKeys' = MulticastKeys
    BY <2>1 DEF MulticastKeys
  <2>4. \A m \in Node : Due(m)' = Due(m) /\ Own(m)' = Own(m) /\ Reached(m)' = Reached(m)
    BY <2>1, <2>2 DEF Due, Own, Reached
  <2> QED BY <2>1, <2>2, <2>3, <2>4 DEF FInv
<1>2. ASSUME NEW n \in Node, SenseEmergency(n) PROVE FInv'
  BY <1>2, AppBroadcastFlows DEF SenseEmergency
<1>3. CASE ExtractReports
  BY <1>3, AppBroadcastFlows, EmergencyConnAssumption DEF ExtractReports
<1> QED
  BY <1>1, <1>2, <1>3, NothingToSendFlows, SendBroadcastDataFlows,
     SendMulticastUnicastDataFlows, SendMulticastUnicastAckFlows, SendMeshDataFlows,
     RouteFlows, AppMulticastFlows DEF Next

LEMMA AlwaysFInv ==
  ASSUME FloodersApart PROVE Spec => []FInv
<1>1. Init => FInv
  BY InitFInv
<1>2. IInv /\ FInv /\ [Next]_vars => FInv'
  BY NextFInv
<1>3. Spec => []IInv
  BY AlwaysIInv
<1> QED BY <1>1, <1>2, <1>3, PTL DEF Spec

\* No packet was ever given to a sending queue that had no slot for it;
NothingOverflowed == \A n \in Node : ~ec[n].sq.null_write

\* no duplicate queue is full, so that none has dropped a key.
NothingForgotten == \A n \in Node : Len(ec[n].dq) < DupeQueueLength

LEMMA FloodsOverSent ==
  FInv /\ NothingOverflowed /\ FloodsOver => \A n \in Node : Due(n) \subseteq Reached(n)
<1> SUFFICES ASSUME FInv, NothingOverflowed, FloodsOver, NEW n \in Node
             PROVE  Due(n) \subseteq Reached(n)
  OBVIOUS
<1>1. Waiting(ec[n].sq) = {}
  BY DEF FInv, Sound, FloodsOver
<1>2. ec[n].sq.null_write \/ Due(n) \subseteq Waiting(ec[n].sq) \cup Reached(n)
  BY DEF FInv
<1> QED BY <1>1, <1>2 DEF NothingOverflowed

\* The floods of emergency_conn.h:65, without what any node remembers: as long
\* as no sending queue overflowed, whenever no node has its broadcast timer set,
\* every flooded packet that a node started, or was handed and has to forward, was
\* handed to each node in its range, or missed by it, or that node started it
\* itself or was stopped.
THEOREM FloodsAreSent ==
  ASSUME FloodersApart
  PROVE  Spec => [](NothingOverflowed /\ FloodsOver
                      => \A n \in Node : Due(n) \subseteq Reached(n))
BY AlwaysFInv, FloodsOverSent, PTL

\* FloodReaches, as long as no sending queue overflowed (a packet without a slot is
\* lost, packet_buffer.c:88) and no duplicate queue is full (a key it dropped is
\* not there to be compared).
THEOREM FloodsReach ==
  ASSUME FloodersApart
  PROVE  Spec => [](NothingOverflowed /\ NothingForgotten => FloodReaches)
<1>1. ASSUME IInv, FInv, NothingOverflowed, NothingForgotten, FloodsOver,
             NEW m \in Node, NEW n \in InRange[m], NEW key \in SendsOn(m)
      PROVE  key \in ToSet(ec[n].dq) \cup missed[n] \/ n \in failed
  <2>1. n \in Node
    BY EmergencyConnAssumption
  <2>2. key \in ToSet(ec[m].dq) /\ key \in floods /\ (m # Sink \/ key[1] = Sink)
    BY <1>1 DEF SendsOn
  <2>3. key[1] = m \/ key \in HandedKeys[m]
    <3>1. ec[m].dq \in Seq(KnownKeys(m, HandedKeys))
      BY <1>1 DEF IInv, Records
    <3>2. PICK i \in 1..Len(ec[m].dq) : ec[m].dq[i] = key
      BY <2>2, <3>1 DEF ToSet
    <3>3. key \in KnownKeys(m, HandedKeys)
      BY <3>1, <3>2, ElementOfSeq
    <3> QED BY <3>3 DEF KnownKeys
  <2>4. key \in Due(m)
    BY <2>2, <2>3 DEF Due
  <2>5. key \in Reached(m)
    BY <1>1, <2>4, FloodsOverSent
  <2>6. key \in HandedKeys[n] \cup missed[n] \/ key[1] = n \/ n \in failed
    BY <1>1, <2>5 DEF Reached
  <2>7. HandedKeys[n] \cup Own(n) \subseteq ToSet(ec[n].dq)
    BY <1>1, <2>1 DEF FInv, NothingForgotten
  <2>8. key[1] = n => key \in Own(n)
    BY <2>2 DEF Own
  <2> QED BY <2>6, <2>7, <2>8
<1>2. IInv /\ FInv => (NothingOverflowed /\ NothingForgotten => FloodReaches)
  BY <1>1 DEF FloodReaches
<1> QED BY <1>2, AlwaysIInv, AlwaysFInv, PTL

=============================================================================
