------------------------- MODULE PacketBufferProofs -------------------------
(***************************************************************************)
(* What the operations of PacketBuffer preserve: if every queued packet is *)
(* in a set S before, and what is put in is in S, every queued packet is   *)
(* in S afterwards, and no slot was lost; and where the packets are then.  *)
(***************************************************************************)
EXTENDS PacketBuffer, SequenceLemmas

\* The buffers whose queued packets all are in S and whose slots are all there.
BufferOf(S) ==
  {pb \in [queued : Seq(S), leftover : Seq(SUBSET Node), null_write : BOOLEAN] :
     Len(pb.queued) + Len(pb.leftover) = SendingQueueLength}

\* The initial buffer has all its slots.
LEMMA EmptyBufferOf == ASSUME NEW S PROVE EmptyBuffer \in BufferOf(S)
<1> DEFINE f == [i \in 1..SendingQueueLength |-> {}]
<1>1. /\ f \in Seq(SUBSET Node)
      /\ Len(f) = SendingQueueLength
  BY BufferAssumption
<1> HIDE DEF f
<1>2. << >> \in Seq(S) /\ Len(<< >>) = 0  BY EmptySeq
<1>3. EmptyBuffer = [queued |-> << >>, leftover |-> f, null_write |-> FALSE]
  BY DEF EmptyBuffer, f
<1> QED  BY <1>1, <1>2, <1>3, BufferAssumption DEF BufferOf

\* A larger set of packets has more buffers.
LEMMA BufferOfMonotonic ==
  ASSUME NEW S, NEW T, S \subseteq T, NEW pb \in BufferOf(S)
  PROVE  pb \in BufferOf(T)
<1>1. pb.queued \in Seq(T)
  <2>1. pb.queued \in Seq(S)  BY DEF BufferOf
  <2> QED  BY <2>1, SeqMonotonic
<1> QED  BY <1>1 DEF BufferOf

\* Each queued packet is in the set.
LEMMA BufferElement ==
  ASSUME NEW S, NEW pb \in BufferOf(S), NEW i \in DOMAIN pb.queued
  PROVE  pb.queued[i] \in S
<1>1. pb.queued \in Seq(S)  BY DEF BufferOf
<1> QED  BY <1>1, ElementOfSeq, LenProperties

\* Adding a packet, to a full buffer or not.
LEMMA AddPacketProperties ==
  ASSUME NEW S, NEW pb \in BufferOf(S), NEW type, NEW p, NEW ns,
         [type |-> type, p |-> p, unacked_ns |-> ns, times_sent |-> 0] \in S
  PROVE  AddPacket(pb, type, p, ns) \in BufferOf(S)
<1> DEFINE q == pb.queued
           f == pb.leftover
           b == [type |-> type, p |-> p, unacked_ns |-> ns, times_sent |-> 0]
           q2 == Append(q, b)
           f2 == Tail(f)
<1>1. /\ q \in Seq(S) /\ f \in Seq(SUBSET Node)
      /\ Len(q) + Len(f) = SendingQueueLength
      /\ pb \in [queued : Seq(S), leftover : Seq(SUBSET Node), null_write : BOOLEAN]
  BY DEF BufferOf
<1>2. CASE Full(pb)
  <2>1. AddPacket(pb, type, p, ns) = [pb EXCEPT !.null_write = TRUE]
    BY <1>2 DEF AddPacket
  <2> QED  BY <2>1, <1>1 DEF BufferOf
<1>3. CASE ~Full(pb)
  <2>1. f # << >>  BY <1>3 DEF Full
  <2>2. q2 \in Seq(S) /\ Len(q2) = Len(q) + 1  BY <1>1, AppendProperties
  <2>3. f2 \in Seq(SUBSET Node) /\ Len(f2) = Len(f) - 1
    BY <1>1, <2>1, HeadTailProperties
  <2>4. AddPacket(pb, type, p, ns) = [pb EXCEPT !.queued = q2, !.leftover = f2]
    BY <1>3 DEF AddPacket
  <2>5. Len(q) \in Nat /\ Len(f) \in Nat  BY <1>1, LenProperties
  <2> HIDE DEF q2, f2
  <2>6. Len(q2) + Len(f2) = SendingQueueLength
    BY <1>1, <2>2, <2>3, <2>5
  <2> QED  BY <2>2, <2>3, <2>4, <2>6, <1>1 DEF BufferOf
<1> QED  BY <1>2, <1>3

\* An ACK takes whatever its slot was left with.
LEMMA AddUntrackedPacketProperties ==
  ASSUME NEW S, NEW pb \in BufferOf(S), NEW type, NEW p,
         \A ns \in SUBSET Node :
           [type |-> type, p |-> p, unacked_ns |-> ns, times_sent |-> 0] \in S
  PROVE  AddUntrackedPacket(pb, type, p) \in BufferOf(S)
<1>1. /\ pb.leftover \in Seq(SUBSET Node)
      /\ pb \in [queued : Seq(S), leftover : Seq(SUBSET Node), null_write : BOOLEAN]
  BY DEF BufferOf
<1>2. CASE Full(pb)
  <2>1. AddUntrackedPacket(pb, type, p) = [pb EXCEPT !.null_write = TRUE]
    BY <1>2 DEF AddUntrackedPacket
  <2> QED  BY <2>1, <1>1 DEF BufferOf
<1>3. CASE ~Full(pb)
  <2>1. Head(pb.leftover) \in SUBSET Node
    BY <1>1, <1>3, HeadTailProperties DEF Full
  <2>2. AddUntrackedPacket(pb, type, p) = AddPacket(pb, type, p, Head(pb.leftover))
    BY <1>3 DEF AddUntrackedPacket
  <2> QED  BY <2>1, <2>2, AddPacketProperties
<1> QED  BY <1>2, <1>3

\* Freeing a packet returns its slot.
LEMMA FreePacketProperties ==
  ASSUME NEW S, NEW pb \in BufferOf(S), NEW i \in DOMAIN pb.queued,
         \A b \in S : b.unacked_ns \in SUBSET Node
  PROVE  FreePacket(pb, i) \in BufferOf(S)
<1> DEFINE q == pb.queued
           f == pb.leftover
           u == q[i].unacked_ns
           q2 == RemoveAt(q, i)
           f2 == Cons(u, f)
<1>1. /\ q \in Seq(S) /\ f \in Seq(SUBSET Node)
      /\ Len(q) + Len(f) = SendingQueueLength
      /\ pb \in [queued : Seq(S), leftover : Seq(SUBSET Node), null_write : BOOLEAN]
  BY DEF BufferOf
<1>2. /\ Len(q) \in Nat /\ Len(f) \in Nat
      /\ i \in 1..Len(q)
      /\ u \in SUBSET Node
  BY <1>1, LenProperties, BufferElement
<1>3. q2 \in Seq(S) /\ Len(q2) = Len(q) - 1  BY <1>1, <1>2, RemoveAtProperties
<1>4. f2 \in Seq(SUBSET Node) /\ Len(f2) = Len(f) + 1
  <2> DEFINE N == SUBSET Node
  <2>1. f \in Seq(N) /\ u \in N  BY <1>1, <1>2
  <2> HIDE DEF u, f, N
  <2>2. Cons(u, f) \in Seq(N) /\ Len(Cons(u, f)) = Len(f) + 1
    BY <2>1, ConsProperties
  <2> QED  BY <2>2 DEF N
<1>5. FreePacket(pb, i) = [pb EXCEPT !.queued = q2, !.leftover = f2]
  BY DEF FreePacket
<1> HIDE DEF q2, f2
<1>6. Len(q2) + Len(f2) = SendingQueueLength  BY <1>1, <1>2, <1>3, <1>4
<1> QED  BY <1>1, <1>3, <1>4, <1>5, <1>6 DEF BufferOf

\* Rewriting one queued packet in place.
LEMMA UpdatePacketProperties ==
  ASSUME NEW S, NEW pb \in BufferOf(S), NEW i \in DOMAIN pb.queued, NEW b \in S
  PROVE  /\ [pb EXCEPT !.queued[i] = b] \in BufferOf(S)
         /\ DOMAIN [pb EXCEPT !.queued[i] = b].queued = DOMAIN pb.queued
<1> DEFINE q == pb.queued
           q2 == [q EXCEPT ![i] = b]
<1>1. /\ q \in Seq(S)
      /\ Len(q) + Len(pb.leftover) = SendingQueueLength
      /\ pb \in [queued : Seq(S), leftover : Seq(SUBSET Node), null_write : BOOLEAN]
  BY DEF BufferOf
<1>2. i \in 1..Len(q)  BY <1>1, LenProperties
<1>3. q2 \in Seq(S) /\ Len(q2) = Len(q)  BY <1>1, <1>2, ExceptSeq
<1>4. [pb EXCEPT !.queued[i] = b] = [pb EXCEPT !.queued = q2]
  OBVIOUS
<1>5. DOMAIN q2 = DOMAIN q  OBVIOUS
<1> HIDE DEF q2
<1> QED  BY <1>1, <1>3, <1>4, <1>5 DEF BufferOf

\* Whatever a search finds is a position of the queue.
LEMMA FirstOfPositions ==
  ASSUME NEW pb, NEW M PROVE FirstOf(pb, M) \subseteq M
BY DEF FirstOf

\* A search in a queue that has something to find finds it.
LEMMA FirstOfFound ==
  ASSUME NEW S, NEW pb \in BufferOf(S), \A b \in S : b.type \in Nat,
         NEW M \in SUBSET DOMAIN pb.queued, M # {}
  PROVE  FirstOf(pb, M) # {}
<1> DEFINE q == pb.queued
           Types == {q[i].type : i \in M}
<1>1. DOMAIN q = 1..Len(q) /\ Len(q) \in Nat
  <2>1. q \in Seq(S)  BY DEF BufferOf
  <2> QED  BY <2>1, LenProperties
<1>2. Types \in SUBSET Nat /\ Types # {}
  <2>1. \A i \in M : q[i] \in S  BY BufferElement
  <2> QED  BY <2>1
<1>3. PICK t \in Types : \A u \in Types : t <= u
  <2> HIDE DEF Types
  <2> QED  BY <1>2, LeastNatural
<1> DEFINE L == {i \in M : q[i].type = t}
<1>4. L \in SUBSET Nat /\ L # {}  BY <1>1, <1>3
<1>5. PICK i \in L : \A j \in L : i <= j
  <2> HIDE DEF L
  <2> QED  BY <1>4, LeastNatural
<1>6. ASSUME NEW j \in M
      PROVE  \/ q[i].type < q[j].type
             \/ q[i].type = q[j].type /\ i <= j
  <2>1. q[j].type \in Types  OBVIOUS
  <2>2. t <= q[j].type /\ q[j].type \in Nat /\ t \in Nat  BY <2>1, <1>2, <1>3
  <2>3. q[i].type = t  BY <1>5
  <2>4. CASE q[j].type = t  BY <2>3, <2>4, <1>5
  <2>5. CASE q[j].type # t  BY <2>2, <2>3, <2>5
  <2> QED  BY <2>4, <2>5
<1> QED  BY <1>5, <1>6 DEF FirstOf

\* A search for a type fails only if there is no packet of the type.
LEMMA FirstOfTypeFound ==
  ASSUME NEW S, NEW pb \in BufferOf(S), \A b \in S : b.type \in Nat,
         NEW type, FirstOfType(pb, type) = {}
  PROVE  OfType(pb, type) = {}
<1>1. OfType(pb, type) \in SUBSET DOMAIN pb.queued  BY DEF OfType
<1> QED  BY <1>1, FirstOfFound DEF FirstOfType

\* What a search for a type finds is the first of the type.
LEMMA FirstOfTypeLeast ==
  ASSUME NEW pb, NEW type \in Nat, NEW i \in FirstOfType(pb, type)
  PROVE  i \in OfType(pb, type) /\ \A j \in OfType(pb, type) : i <= j
BY DEF FirstOfType, FirstOf, OfType

\* Where the packets are after a packet was added.
LEMMA AddPacketPositions ==
  ASSUME NEW S, NEW pb \in BufferOf(S), NEW type, NEW p, NEW ns,
         [type |-> type, p |-> p, unacked_ns |-> ns, times_sent |-> 0] \in S,
         ~Full(pb)
  PROVE  LET b  == [type |-> type, p |-> p, unacked_ns |-> ns, times_sent |-> 0]
             q  == pb.queued
             q2 == AddPacket(pb, type, p, ns).queued
         IN  /\ Len(q) \in Nat /\ DOMAIN q = 1..Len(q)
             /\ DOMAIN q2 = 1..(Len(q) + 1) /\ Len(q2) = Len(q) + 1
             /\ q2[Len(q) + 1] = b
             /\ \A i \in 1..Len(q) : q2[i] = q[i]
             /\ AddPacket(pb, type, p, ns).null_write = pb.null_write
<1> DEFINE b == [type |-> type, p |-> p, unacked_ns |-> ns, times_sent |-> 0]
           q == pb.queued
           q2 == Append(q, b)
<1>1. q \in Seq(S) /\ pb \in [queued : Seq(S), leftover : Seq(SUBSET Node), null_write : BOOLEAN]
  BY DEF BufferOf
<1>2. Len(q) \in Nat /\ DOMAIN q = 1..Len(q)  BY <1>1, LenProperties
<1>3. AddPacket(pb, type, p, ns) = [pb EXCEPT !.queued = q2, !.leftover = Tail(@)]
  BY DEF AddPacket
<1>4. /\ q2 \in Seq(S) /\ Len(q2) = Len(q) + 1
      /\ \A i \in 1..Len(q) : q2[i] = q[i]
      /\ q2[Len(q) + 1] = b
  BY <1>1, AppendProperties
<1>5. DOMAIN q2 = 1..(Len(q) + 1)  BY <1>4, LenProperties
<1> HIDE DEF q2
<1>6. /\ AddPacket(pb, type, p, ns).queued = q2
      /\ AddPacket(pb, type, p, ns).null_write = pb.null_write
  BY <1>1, <1>3
<1> QED  BY <1>2, <1>4, <1>5, <1>6

\* A buffer with room is not full.
LEMMA RoomIsNotFull ==
  ASSUME NEW S, NEW pb \in BufferOf(S), NEW k \in Nat, k > 0,
         HasRoomForPackets(pb, k)
  PROVE  ~Full(pb)
<1>1. /\ pb.queued \in Seq(S) /\ pb.leftover \in Seq(SUBSET Node)
      /\ Len(pb.queued) + Len(pb.leftover) = SendingQueueLength
  BY DEF BufferOf
<1>2. Len(pb.queued) \in Nat /\ Len(pb.leftover) \in Nat  BY <1>1, LenProperties
<1>3. Len(pb.leftover) # 0
  <2> DEFINE a == Len(pb.queued)
             z == Len(pb.leftover)
  <2>1. a \in Nat /\ z \in Nat /\ a + z = SendingQueueLength  BY <1>1, <1>2
  <2>2. a + k <= SendingQueueLength  BY DEF HasRoomForPackets
  <2> HIDE DEF a, z
  <2>3. z # 0  BY <2>1, <2>2
  <2> QED  BY <2>3 DEF z
<1> QED  BY <1>1, <1>3, EmptySeq DEF Full

\* Where the packets are after one was freed.
LEMMA FreePacketPositions ==
  ASSUME NEW S, NEW pb \in BufferOf(S), NEW i \in DOMAIN pb.queued
  PROVE  LET q  == pb.queued
             q2 == FreePacket(pb, i).queued
         IN  /\ Len(q) \in Nat /\ DOMAIN q = 1..Len(q) /\ i \in 1..Len(q)
             /\ q2 = RemoveAt(q, i)
             /\ DOMAIN q2 = 1..(Len(q) - 1)
             /\ \A j \in 1..(Len(q) - 1) : q2[j] = IF j < i THEN q[j] ELSE q[j + 1]
             /\ FreePacket(pb, i).null_write = pb.null_write
<1> DEFINE q == pb.queued
           q2 == RemoveAt(q, i)
<1>1. q \in Seq(S) /\ pb \in [queued : Seq(S), leftover : Seq(SUBSET Node), null_write : BOOLEAN]
  BY DEF BufferOf
<1>2. Len(q) \in Nat /\ DOMAIN q = 1..Len(q)  BY <1>1, LenProperties
<1>3. /\ q2 \in Seq(S) /\ Len(q2) = Len(q) - 1
      /\ \A j \in 1..(Len(q) - 1) : q2[j] = IF j < i THEN q[j] ELSE q[j + 1]
  BY <1>1, <1>2, RemoveAtProperties
<1>4. DOMAIN q2 = 1..(Len(q) - 1)  BY <1>3, LenProperties
<1>5. FreePacket(pb, i) = [pb EXCEPT !.queued = q2, !.leftover = Cons(pb.queued[i].unacked_ns, @)]
  BY DEF FreePacket
<1> HIDE DEF q2
<1>6. /\ FreePacket(pb, i).queued = q2
      /\ FreePacket(pb, i).null_write = pb.null_write
  BY <1>1, <1>5
<1>7. q2 = RemoveAt(pb.queued, i)  BY DEF q2
<1> QED  BY <1>2, <1>3, <1>4, <1>6, <1>7

=============================================================================
