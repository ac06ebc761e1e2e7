-------------------------- MODULE QueueBufferProofs -------------------------
(***************************************************************************)
(* For every capacity and every set of items: the slots of a queue_buffer  *)
(* stay partitioned between its two lists, and its counter agrees with     *)
(* them.                                                                   *)
(***************************************************************************)
EXTENDS QueueBuffer, SequenceLemmas

-----------------------------------------------------------------------------
(* What each operation on a list does to the slots that occur in it. *)

\* Taking the head off a list.
LEMMA TailMembers ==
  ASSUME NEW f \in Seq(Slot), f # << >>, NoDuplicates(f)
  PROVE  /\ Head(f) \in Slot
         /\ Occurs(Head(f), f)
         /\ Tail(f) \in Seq(Slot)
         /\ Len(Tail(f)) = Len(f) - 1
         /\ NoDuplicates(Tail(f))
         /\ \A slot \in Slot :
              Occurs(slot, Tail(f)) <=> Occurs(slot, f) /\ slot # Head(f)
<1> DEFINE h == Head(f)
           f2 == Tail(f)
<1>1. /\ h \in Slot
      /\ f2 \in Seq(Slot)
      /\ Len(f2) = Len(f) - 1
      /\ \A i \in 1..Len(f2) : f2[i] = f[i + 1]
  BY HeadTailProperties
<1>2. Len(f) \in Nat /\ Len(f) # 0
  BY LenProperties, EmptySeq
<1>3. h = f[1] /\ 1 \in 1..Len(f)  BY <1>2
<1> HIDE DEF h, f2
<1>4. Occurs(h, f)  BY <1>3 DEF Occurs
<1>5. NoDuplicates(f2)  BY <1>1, <1>2 DEF NoDuplicates
<1>6. ASSUME NEW slot \in Slot, Occurs(slot, f2)
      PROVE  Occurs(slot, f) /\ slot # h
  <2> PICK i \in 1..Len(f2) : f2[i] = slot  BY <1>6 DEF Occurs
  <2>1. i + 1 \in 1..Len(f) /\ f[i + 1] = slot /\ i + 1 # 1  BY <1>1, <1>2
  <2> QED  BY <2>1, <1>3 DEF Occurs, NoDuplicates
<1>7. ASSUME NEW slot \in Slot, Occurs(slot, f), slot # h
      PROVE  Occurs(slot, f2)
  <2> PICK i \in 1..Len(f) : f[i] = slot  BY <1>7 DEF Occurs
  <2>1. i # 1  BY <1>7, <1>3
  <2>2. i - 1 \in 1..Len(f2) /\ f2[i - 1] = f[i]  BY <2>1, <1>1, <1>2
  <2> QED  BY <2>2 DEF Occurs
<1> QED  BY <1>1, <1>4, <1>5, <1>6, <1>7 DEF h, f2

\* Adding a slot at the back of a list.
LEMMA AppendMembers ==
  ASSUME NEW u \in Seq(Slot), NEW s \in Slot, NoDuplicates(u), ~Occurs(s, u)
  PROVE  /\ Append(u, s) \in Seq(Slot)
         /\ Len(Append(u, s)) = Len(u) + 1
         /\ NoDuplicates(Append(u, s))
         /\ \A slot \in Slot : Occurs(slot, Append(u, s)) <=> Occurs(slot, u) \/ slot = s
<1> DEFINE u2 == Append(u, s)
<1>1. /\ u2 \in Seq(Slot)
      /\ Len(u2) = Len(u) + 1
      /\ \A i \in 1..Len(u) : u2[i] = u[i]
      /\ u2[Len(u) + 1] = s
  BY AppendProperties
<1>2. Len(u) \in Nat  BY LenProperties
<1> HIDE DEF u2
<1>3. \A i \in 1..Len(u) : u[i] # s  BY DEF Occurs
<1>4. NoDuplicates(u2)  BY <1>1, <1>2, <1>3 DEF NoDuplicates
<1>5. \A slot \in Slot : Occurs(slot, u2) <=> Occurs(slot, u) \/ slot = s
  BY <1>1, <1>2 DEF Occurs
<1> QED  BY <1>1, <1>4, <1>5 DEF u2

\* Adding a slot at the front of a list.
LEMMA ConsMembers ==
  ASSUME NEW u \in Seq(Slot), NEW s \in Slot, NoDuplicates(u), ~Occurs(s, u)
  PROVE  /\ Cons(s, u) \in Seq(Slot)
         /\ Len(Cons(s, u)) = Len(u) + 1
         /\ NoDuplicates(Cons(s, u))
         /\ \A slot \in Slot : Occurs(slot, Cons(s, u)) <=> Occurs(slot, u) \/ slot = s
<1> DEFINE u2 == Cons(s, u)
<1>1. /\ u2 \in Seq(Slot)
      /\ Len(u2) = Len(u) + 1
      /\ u2[1] = s
      /\ \A i \in 1..Len(u) : u2[i + 1] = u[i]
  BY ConsProperties
<1>2. Len(u) \in Nat  BY LenProperties
<1> HIDE DEF u2
<1>3. \A i \in 1..Len(u) : u[i] # s  BY DEF Occurs
<1>4. \A i \in 2..Len(u2) : i - 1 \in 1..Len(u) /\ u2[i] = u[i - 1]
  <2> TAKE i \in 2..Len(u2)
  <2>1. i - 1 \in 1..Len(u) /\ (i - 1) + 1 = i  BY <1>1, <1>2
  <2> QED  BY <2>1, <1>1
<1>5. ASSUME NEW i \in 1..Len(u2), NEW j \in 1..Len(u2), u2[i] = u2[j]
      PROVE  i = j
  <2>1. CASE i = 1 /\ j = 1  BY <2>1
  <2>2. CASE i = 1 /\ j # 1
    <3>1. j \in 2..Len(u2)  BY <2>2, <1>1, <1>2
    <3> QED  BY <3>1, <2>2, <1>1, <1>3, <1>4, <1>5
  <2>3. CASE i # 1 /\ j = 1
    <3>1. i \in 2..Len(u2)  BY <2>3, <1>1, <1>2
    <3> QED  BY <3>1, <2>3, <1>1, <1>3, <1>4, <1>5
  <2>4. CASE i # 1 /\ j # 1
    <3>1. i \in 2..Len(u2) /\ j \in 2..Len(u2)  BY <2>4, <1>1, <1>2
    <3>2. u[i - 1] = u[j - 1] /\ i - 1 \in 1..Len(u) /\ j - 1 \in 1..Len(u)
      BY <3>1, <1>4, <1>5
    <3>3. i - 1 = j - 1  BY <3>2 DEF NoDuplicates
    <3> QED  BY <3>1, <3>3, <1>1, <1>2
  <2> QED  BY <2>1, <2>2, <2>3, <2>4
<1>6. NoDuplicates(u2)  BY <1>5 DEF NoDuplicates
<1>7. ASSUME NEW slot \in Slot, Occurs(slot, u2)
      PROVE  Occurs(slot, u) \/ slot = s
  <2> PICK i \in 1..Len(u2) : u2[i] = slot  BY <1>7 DEF Occurs
  <2>1. CASE i = 1  BY <2>1, <1>1
  <2>2. CASE i # 1
    <3>1. i \in 2..Len(u2)  BY <2>2, <1>1, <1>2
    <3> QED  BY <3>1, <1>4 DEF Occurs
  <2> QED  BY <2>1, <2>2
<1>8. ASSUME NEW slot \in Slot, Occurs(slot, u) \/ slot = s
      PROVE  Occurs(slot, u2)
  <2>1. CASE slot = s
    <3>1. 1 \in 1..Len(u2)  BY <1>1, <1>2
    <3> QED  BY <3>1, <2>1, <1>1 DEF Occurs
  <2>2. CASE Occurs(slot, u)
    <3> PICK i \in 1..Len(u) : u[i] = slot  BY <2>2 DEF Occurs
    <3>1. i + 1 \in 1..Len(u2) /\ u2[i + 1] = slot  BY <1>1, <1>2
    <3> QED  BY <3>1 DEF Occurs
  <2> QED  BY <2>1, <2>2, <1>8
<1> QED  BY <1>1, <1>6, <1>7, <1>8 DEF u2

\* Unlinking the slot at one place of a list.
LEMMA RemoveAtMembers ==
  ASSUME NEW u \in Seq(Slot), NEW i \in 1..Len(u), NoDuplicates(u)
  PROVE  /\ u[i] \in Slot
         /\ Occurs(u[i], u)
         /\ RemoveAt(u, i) \in Seq(Slot)
         /\ Len(RemoveAt(u, i)) = Len(u) - 1
         /\ NoDuplicates(RemoveAt(u, i))
         /\ \A slot \in Slot :
              Occurs(slot, RemoveAt(u, i)) <=> Occurs(slot, u) /\ slot # u[i]
<1> DEFINE u2 == RemoveAt(u, i)
<1>1. /\ u2 \in Seq(Slot)
      /\ Len(u2) = Len(u) - 1
      /\ \A j \in 1..(Len(u) - 1) : u2[j] = IF j < i THEN u[j] ELSE u[j + 1]
  BY RemoveAtProperties
<1>2. Len(u) \in Nat /\ u[i] \in Slot  BY LenProperties, ElementOfSeq
<1> HIDE DEF u2
<1>3. Occurs(u[i], u)  BY DEF Occurs
<1> DEFINE back(j) == IF j < i THEN j ELSE j + 1
<1>4. \A j \in 1..Len(u2) : back(j) \in 1..Len(u) /\ back(j) # i /\ u2[j] = u[back(j)]
  BY <1>1, <1>2
<1>5. \A j, k \in 1..Len(u2) : back(j) = back(k) => j = k
  BY <1>1, <1>2
<1>6. \A j \in 1..Len(u) : j # i => \E k \in 1..Len(u2) : back(k) = j
  <2> TAKE j \in 1..Len(u)
  <2> HAVE j # i
  <2>1. CASE j < i
    <3>1. j \in 1..Len(u2) /\ back(j) = j  BY <2>1, <1>1, <1>2
    <3> QED  BY <3>1
  <2>2. CASE j > i
    <3>1. j - 1 \in 1..Len(u2) /\ back(j - 1) = j  BY <2>2, <1>1, <1>2
    <3> QED  BY <3>1
  <2> QED  BY <2>1, <2>2, <1>2
<1> HIDE DEF back
<1>7. NoDuplicates(u2)  BY <1>4, <1>5 DEF NoDuplicates
<1>8. ASSUME NEW slot \in Slot
      PROVE  Occurs(slot, u2) <=> Occurs(slot, u) /\ slot # u[i]
  <2>1. ASSUME Occurs(slot, u2)  PROVE Occurs(slot, u) /\ slot # u[i]
    <3> PICK j \in 1..Len(u2) : u2[j] = slot  BY <2>1 DEF Occurs
    <3> QED  BY <1>4 DEF Occurs, NoDuplicates
  <2>2. ASSUME Occurs(slot, u), slot # u[i]  PROVE Occurs(slot, u2)
    <3> PICK j \in 1..Len(u) : u[j] = slot  BY <2>2 DEF Occurs
    <3> PICK k \in 1..Len(u2) : back(k) = j  BY <2>2, <1>6
    <3> QED  BY <1>4 DEF Occurs
  <2> QED  BY <2>1, <2>2
<1> QED  BY <1>1, <1>2, <1>3, <1>7, <1>8 DEF u2

\* Hanging one list after another.
LEMMA ConcatMembers ==
  ASSUME NEW f \in Seq(Slot), NEW u \in Seq(Slot),
         NoDuplicates(f), NoDuplicates(u),
         \A slot \in Slot : ~(Occurs(slot, f) /\ Occurs(slot, u))
  PROVE  /\ f \o u \in Seq(Slot)
         /\ Len(f \o u) = Len(f) + Len(u)
         /\ NoDuplicates(f \o u)
         /\ \A slot \in Slot : Occurs(slot, f \o u) <=> Occurs(slot, f) \/ Occurs(slot, u)
<1> DEFINE c == f \o u
<1>1. /\ c \in Seq(Slot)
      /\ Len(c) = Len(f) + Len(u)
      /\ \A i \in 1..(Len(f) + Len(u)) :
           c[i] = IF i <= Len(f) THEN f[i] ELSE u[i - Len(f)]
  BY ConcatProperties
<1>2. /\ Len(f) \in Nat /\ Len(u) \in Nat
      /\ \A i \in 1..Len(f) : f[i] \in Slot
  BY LenProperties, ElementOfSeq
<1> HIDE DEF c
<1>3. \A i \in 1..Len(f) : i \in 1..Len(c) /\ c[i] = f[i]  BY <1>1, <1>2
<1>4. \A i \in 1..Len(u) : i + Len(f) \in 1..Len(c) /\ c[i + Len(f)] = u[i]
  BY <1>1, <1>2
<1>5. \A i \in 1..Len(c) : \/ i \in 1..Len(f) /\ c[i] = f[i]
                           \/ i - Len(f) \in 1..Len(u) /\ c[i] = u[i - Len(f)]
  BY <1>1, <1>2
<1>6. \A i \in 1..Len(f), j \in 1..Len(u) : f[i] # u[j]
  BY <1>2 DEF Occurs
<1>7. ASSUME NEW i \in 1..Len(c), NEW j \in 1..Len(c), c[i] = c[j]
      PROVE  i = j
  <2>1. CASE i \in 1..Len(f) /\ c[i] = f[i] /\ j \in 1..Len(f) /\ c[j] = f[j]
    BY <2>1, <1>7 DEF NoDuplicates
  <2>2. CASE /\ i - Len(f) \in 1..Len(u) /\ c[i] = u[i - Len(f)]
             /\ j - Len(f) \in 1..Len(u) /\ c[j] = u[j - Len(f)]
    <3>1. i - Len(f) = j - Len(f)  BY <2>2, <1>7 DEF NoDuplicates
    <3> QED  BY <3>1, <1>1, <1>2
  <2> QED  BY <2>1, <2>2, <1>5, <1>6, <1>7
<1>8. NoDuplicates(c)  BY <1>7 DEF NoDuplicates
<1>9. \A slot \in Slot : Occurs(slot, c) <=> Occurs(slot, f) \/ Occurs(slot, u)
  BY <1>3, <1>4, <1>5 DEF Occurs
<1> QED  BY <1>1, <1>8, <1>9 DEF c

-----------------------------------------------------------------------------
(* The inductive invariant: the types, the partition and the counter.  The *)
(* partition alone is not inductive (taking the head of the unused list    *)
(* needs its type) and neither is the range of the counter.                *)

IInv == TypeOK /\ SlotsPartitioned /\ SizeAgrees

\* A queue just initialised satisfies the inductive invariant: all slots are
\* free (queue_buffer_init).
LEMMA InitIInv == Init => IInv
<1> SUFFICES ASSUME Init PROVE IInv
  OBVIOUS
<1> USE SizeAssumption
<1>1. /\ unused \in Seq(Slot)
      /\ Len(unused) = MaxSize
      /\ \A i \in 1..MaxSize : unused[i] = i
  BY DEF Init, Slot
<1>2. used \in Seq(Slot) /\ Len(used) = 0  BY DEF Init
<1>3. TypeOK  BY <1>1, <1>2 DEF Init, TypeOK
<1>4. NoDuplicates(used) /\ NoDuplicates(unused)  BY <1>1, <1>2 DEF NoDuplicates
<1>5. \A slot \in Slot : Occurs(slot, unused) /\ ~Occurs(slot, used)
  BY <1>1, <1>2 DEF Occurs, Slot
<1>6. SlotsPartitioned  BY <1>4, <1>5 DEF SlotsPartitioned, Partition
<1>7. SizeAgrees  BY <1>1, <1>2 DEF Init, SizeAgrees
<1> QED  BY <1>3, <1>6, <1>7 DEF IInv

\* Both allocators keep the lists and the counter right.
LEMMA AllocIInv ==
  ASSUME IInv, AllocBack \/ AllocFront, bytes' \in [Slot -> Item]
  PROVE  IInv' /\ Head(unused) \in Slot
<1> DEFINE h == Head(unused)
<1>1. /\ used \in Seq(Slot) /\ unused \in Seq(Slot) /\ unused # << >>
      /\ NoDuplicates(used) /\ NoDuplicates(unused)
      /\ \A slot \in Slot : Occurs(slot, used) <=> ~Occurs(slot, unused)
  BY DEF IInv, TypeOK, SlotsPartitioned, Partition, AllocBack, AllocFront
<1>2. /\ h \in Slot
      /\ Occurs(h, unused)
      /\ Tail(unused) \in Seq(Slot)
      /\ Len(Tail(unused)) = Len(unused) - 1
      /\ NoDuplicates(Tail(unused))
      /\ \A slot \in Slot :
           Occurs(slot, Tail(unused)) <=> Occurs(slot, unused) /\ slot # h
  BY <1>1, TailMembers
<1>3. ~Occurs(h, used)  BY <1>1, <1>2
<1>4. /\ used' \in Seq(Slot)
      /\ Len(used') = Len(used) + 1
      /\ NoDuplicates(used')
      /\ \A slot \in Slot : Occurs(slot, used') <=> Occurs(slot, used) \/ slot = h
  <2>1. CASE AllocBack
    <3>1. used' = Append(used, h)  BY <2>1 DEF AllocBack
    <3> QED  BY <3>1, <1>1, <1>2, <1>3, AppendMembers
  <2>2. CASE AllocFront
    <3>1. used' = Cons(h, used)  BY <2>2 DEF AllocFront
    <3> QED  BY <3>1, <1>1, <1>2, <1>3, ConsMembers
  <2> QED  BY <2>1, <2>2
<1>5. unused' = Tail(unused) /\ queue_size' = queue_size + 1
  BY DEF AllocBack, AllocFront
<1>6. /\ Len(used) \in Nat /\ Len(unused) \in Nat /\ Len(used') \in Nat
      /\ Len(Tail(unused)) \in Nat
  BY <1>1, <1>2, <1>4, LenProperties
<1>7. queue_size' = Len(used') /\ queue_size' + Len(unused') = MaxSize
  BY <1>2, <1>4, <1>5, <1>6, SizeAssumption DEF IInv, SizeAgrees
<1>8. queue_size' \in 0..MaxSize
  BY <1>2, <1>5, <1>6, <1>7, SizeAssumption
<1>9. TypeOK'  BY <1>2, <1>4, <1>5, <1>8 DEF TypeOK
<1>10. SlotsPartitioned'
  BY <1>1, <1>2, <1>4, <1>5 DEF SlotsPartitioned, Partition
<1> QED  BY <1>2, <1>7, <1>9, <1>10 DEF IInv, SizeAgrees

\* Releasing a slot, from either end or from the middle, does too.
LEMMA ReleaseIInv ==
  ASSUME IInv, NEW i \in 1..Len(used), Release(i)
  PROVE  IInv'
<1>1. /\ used \in Seq(Slot) /\ unused \in Seq(Slot)
      /\ NoDuplicates(used) /\ NoDuplicates(unused)
      /\ \A slot \in Slot : Occurs(slot, used) <=> ~Occurs(slot, unused)
  BY DEF IInv, TypeOK, SlotsPartitioned, Partition
<1>2. /\ used[i] \in Slot
      /\ Occurs(used[i], used)
      /\ used' \in Seq(Slot)
      /\ Len(used') = Len(used) - 1
      /\ NoDuplicates(used')
      /\ \A slot \in Slot :
           Occurs(slot, used') <=> Occurs(slot, used) /\ slot # used[i]
  BY <1>1, RemoveAtMembers DEF Release
<1>3. ~Occurs(used[i], unused)  BY <1>1, <1>2
<1>4. /\ unused' \in Seq(Slot)
      /\ Len(unused') = Len(unused) + 1
      /\ NoDuplicates(unused')
      /\ \A slot \in Slot :
           Occurs(slot, unused') <=> Occurs(slot, unused) \/ slot = used[i]
  BY <1>1, <1>2, <1>3, ConsMembers DEF Release
<1>5. queue_size' = queue_size - 1 /\ bytes' = bytes  BY DEF Release
<1>6. /\ Len(used) \in Nat /\ Len(unused) \in Nat /\ Len(used') \in Nat
      /\ Len(unused') \in Nat
  BY <1>1, <1>2, <1>4, LenProperties
<1>7. queue_size' = Len(used') /\ queue_size' + Len(unused') = MaxSize
  BY <1>2, <1>4, <1>5, <1>6, SizeAssumption DEF IInv, SizeAgrees
<1>8. queue_size' \in 0..MaxSize  BY <1>6, <1>7, SizeAssumption
<1>9. TypeOK'  BY <1>2, <1>4, <1>5, <1>8 DEF IInv, TypeOK
<1>10. SlotsPartitioned'
  BY <1>1, <1>2, <1>4 DEF SlotsPartitioned, Partition
<1> QED  BY <1>7, <1>9, <1>10 DEF IInv, SizeAgrees

\* And so does emptying the queue.
LEMMA ClearIInv ==
  ASSUME IInv, Clear
  PROVE  IInv'
<1>1. /\ used \in Seq(Slot) /\ unused \in Seq(Slot)
      /\ NoDuplicates(used) /\ NoDuplicates(unused)
      /\ \A slot \in Slot : Occurs(slot, used) <=> ~Occurs(slot, unused)
  BY DEF IInv, TypeOK, SlotsPartitioned, Partition
<1>2. /\ unused' \in Seq(Slot)
      /\ Len(unused') = Len(unused) + Len(used)
      /\ NoDuplicates(unused')
      /\ \A slot \in Slot :
           Occurs(slot, unused') <=> Occurs(slot, unused) \/ Occurs(slot, used)
  BY <1>1, ConcatMembers DEF Clear
<1>3. used' \in Seq(Slot) /\ Len(used') = 0 /\ queue_size' = 0 /\ bytes' = bytes
  BY DEF Clear
<1>4. NoDuplicates(used') /\ \A slot \in Slot : ~Occurs(slot, used')
  BY <1>3 DEF NoDuplicates, Occurs
<1>5. Len(used) \in Nat /\ Len(unused) \in Nat  BY <1>1, LenProperties
<1>6. queue_size' + Len(unused') = MaxSize
  BY <1>2, <1>3, <1>5, SizeAssumption DEF IInv, SizeAgrees
<1>7. TypeOK'  BY <1>2, <1>3, SizeAssumption DEF IInv, TypeOK
<1>8. SlotsPartitioned'  BY <1>1, <1>2, <1>4 DEF SlotsPartitioned, Partition
<1> QED  BY <1>3, <1>6, <1>7, <1>8 DEF IInv, SizeAgrees

\* Every operation of the queue keeps the inductive invariant.
LEMMA NextIInv == IInv /\ [Next]_vars => IInv'
<1> SUFFICES ASSUME IInv, [Next]_vars PROVE IInv'
  OBVIOUS
<1>0. used \in Seq(Slot) /\ Len(used) \in Nat /\ DOMAIN used = 1..Len(used)
  BY LenProperties DEF IInv, TypeOK
<1>b. bytes \in [Slot -> Item]  BY DEF IInv, TypeOK
<1>1. CASE AllocBack /\ UNCHANGED bytes  BY <1>1, <1>b, AllocIInv
<1>2. CASE AllocFront /\ UNCHANGED bytes  BY <1>2, <1>b, AllocIInv
<1>3. ASSUME NEW x \in Item, PushBack(x) \/ PushFront(x)  PROVE IInv'
  <2>1. bytes' \in [Slot -> Item]  BY <1>3, <1>b DEF PushBack, PushFront
  <2>2. AllocBack \/ AllocFront  BY <1>3 DEF PushBack, PushFront
  <2> QED  BY <2>1, <2>2, AllocIInv
<1>4. ASSUME NEW i \in DOMAIN used, NEW x \in Item, Write(i, x)  PROVE IInv'
  <2>1. bytes' \in [Slot -> Item]  BY <1>4, <1>b DEF Write
  <2> QED
    BY <2>1, <1>4 DEF Write, IInv, TypeOK, SlotsPartitioned, SizeAgrees
<1>5. CASE PopFront
  <2>1. 1 \in 1..Len(used)  BY <1>0, <1>5, EmptySeq DEF PopFront
  <2> QED  BY <2>1, <1>5, ReleaseIInv DEF PopFront
<1>6. CASE PopBack
  <2>1. Len(used) \in 1..Len(used)  BY <1>0, <1>6, EmptySeq DEF PopBack
  <2> QED  BY <2>1, <1>6, ReleaseIInv DEF PopBack
<1>7. ASSUME NEW i \in Slot, Free(i)  PROVE IInv'
  <2>1. i \in 1..Len(used)  BY <1>0, <1>7 DEF Free
  <2> QED  BY <2>1, <1>7, ReleaseIInv DEF Free
<1>8. CASE Clear  BY <1>8, ClearIInv
<1>9. CASE UNCHANGED vars
  BY <1>9 DEF vars, IInv, TypeOK, SlotsPartitioned, SizeAgrees
<1> QED
  BY <1>1, <1>2, <1>3, <1>4, <1>5, <1>6, <1>7, <1>8, <1>9 DEF Next

LEMMA Invariance == Spec => []IInv
BY InitIInv, NextIInv, PTL DEF Spec

\* Every slot of queue_buffer.c is used or free, once, and what
\* queue_buffer_size returns is the length of the list, in every reachable
\* state and for every capacity a uint8_t can hold.
THEOREM QueueBufferCorrect == Spec => []RingIsSound
<1>1. IInv => RingIsSound  BY DEF IInv, RingIsSound
<1> QED  BY Invariance, <1>1, PTL

\* Every variable has its type in every reachable state; the counter stays
\* within the capacity, so it never wraps.
THEOREM QueueBufferTyped == Spec => []TypeOK
<1>1. IInv => TypeOK  BY DEF IInv
<1> QED  BY Invariance, <1>1, PTL

-----------------------------------------------------------------------------
(* The refinement.  The queue the callers see is the bytes of the used     *)
(* slots; that a slot occurs once in the used list and never in both lists *)
(* is what keeps an operation on one slot away from the others.            *)

View(u, b) == [i \in 1..Len(u) |-> b[u[i]]]

\* The view is a sequence of items as long as the list.
LEMMA ViewProperties ==
  ASSUME NEW u \in Seq(Slot), NEW b \in [Slot -> Item]
  PROVE  /\ View(u, b) \in Seq(Item)
         /\ Len(View(u, b)) = Len(u)
         /\ DOMAIN View(u, b) = 1..Len(u)
         /\ \A i \in 1..Len(u) : View(u, b)[i] = b[u[i]]
<1> DEFINE n == Len(u)
           v == [i \in 1..n |-> b[u[i]]]
<1>1. n \in Nat /\ \A i \in 1..n : u[i] \in Slot  BY LenProperties, ElementOfSeq
<1>2. View(u, b) = v  BY DEF View
<1>3. v \in [1..n -> Item] /\ \A i \in 1..n : v[i] = b[u[i]]
  <2> HIDE DEF n
  <2> QED  BY <1>1
<1> HIDE DEF v, n
<1>4. v \in Seq(Item) /\ Len(v) = n  BY <1>1, <1>3, SeqDef, LenProperties
<1> QED  BY <1>2, <1>3, <1>4 DEF n

\* Writing into a slot that is not queued does not change the view.
LEMMA ViewKept ==
  ASSUME NEW u \in Seq(Slot), NEW b \in [Slot -> Item], NEW s \in Slot, ~Occurs(s, u),
         NEW c \in [Slot -> Item], \A r \in Slot : r # s => c[r] = b[r]
  PROVE  View(u, c) = View(u, b)
<1>1. \A i \in 1..Len(u) : u[i] \in Slot /\ u[i] # s
  BY ElementOfSeq DEF Occurs
<1> QED  BY <1>1 DEF View

\* The view of a list with one slot more at the back, or at the front.
LEMMA ViewExtended ==
  ASSUME NEW u \in Seq(Slot), NEW b \in [Slot -> Item], NEW s \in Slot
  PROVE  /\ View(Append(u, s), b) = Append(View(u, b), b[s])
         /\ View(Cons(s, u), b) = Cons(b[s], View(u, b))
<1> DEFINE n == Len(u)
           v == View(u, b)
           x == b[s]
           a == Append(u, s)
           c == Cons(s, u)
           va == View(a, b)
           vc == View(c, b)
           av == Append(v, x)
           cv == Cons(x, v)
<1>0. n \in Nat  BY LenProperties
<1>1. /\ v \in Seq(Item) /\ Len(v) = n
      /\ \A i \in 1..n : v[i] = b[u[i]]
      /\ x \in Item
  BY ViewProperties
<1>2. /\ a \in Seq(Slot) /\ Len(a) = n + 1
      /\ \A i \in 1..n : a[i] = u[i]
      /\ a[n + 1] = s
  BY AppendProperties
<1>3. /\ c \in Seq(Slot) /\ Len(c) = n + 1
      /\ c[1] = s
      /\ \A i \in 1..n : c[i + 1] = u[i]
  BY ConsProperties
<1> HIDE DEF v, a, c, x, n
<1>4. /\ va \in Seq(Item) /\ Len(va) = n + 1
      /\ \A i \in 1..(n + 1) : va[i] = b[a[i]]
  BY <1>2, ViewProperties
<1>5. /\ vc \in Seq(Item) /\ Len(vc) = n + 1
      /\ \A i \in 1..(n + 1) : vc[i] = b[c[i]]
  BY <1>3, ViewProperties
<1>6. /\ av \in Seq(Item) /\ Len(av) = n + 1
      /\ \A i \in 1..n : av[i] = v[i]
      /\ av[n + 1] = x
  BY <1>1, AppendProperties
<1>7. /\ cv \in Seq(Item) /\ Len(cv) = n + 1
      /\ cv[1] = x
      /\ \A i \in 1..n : cv[i + 1] = v[i]
  <2>1. /\ cv \in Seq(Item) /\ Len(cv) = Len(v) + 1
        /\ cv[1] = x
        /\ \A i \in 1..Len(v) : cv[i + 1] = v[i]
    <3>1. v \in Seq(Item) /\ x \in Item  BY <1>1
    <3> QED  BY <3>1, ConsProperties
  <2> HIDE DEF cv
  <2> QED  BY <2>1, <1>1
<1> HIDE DEF va, vc, av, cv
<1>8. x = b[s]  BY DEF x
<1>9. ASSUME NEW i \in 1..(n + 1) PROVE va[i] = av[i]
  <2>1. CASE i = n + 1  BY <2>1, <1>2, <1>4, <1>6, <1>8
  <2>2. CASE i \in 1..n  BY <2>2, <1>1, <1>2, <1>4, <1>6
  <2> QED  BY <2>1, <2>2, <1>0
<1>10. ASSUME NEW i \in 1..(n + 1) PROVE vc[i] = cv[i]
  <2>1. CASE i = 1  BY <2>1, <1>3, <1>5, <1>7, <1>8
  <2>2. CASE i # 1
    <3>1. PICK j \in 1..n : i = j + 1
      <4>1. i - 1 \in 1..n /\ i = (i - 1) + 1  BY <2>2, <1>0
      <4> QED  BY <4>1
    <3> QED  BY <3>1, <1>1, <1>3, <1>5, <1>7
  <2> QED  BY <2>1, <2>2
<1>11. va = av  BY <1>4, <1>6, <1>9, SeqEqual
<1>12. vc = cv  BY <1>5, <1>7, <1>10, SeqEqual
<1> QED  BY <1>11, <1>12 DEF va, av, vc, cv, a, c, v, x

\* The view of a list without one of its slots.
LEMMA ViewRemoved ==
  ASSUME NEW u \in Seq(Slot), NEW b \in [Slot -> Item], NEW i \in 1..Len(u)
  PROVE  View(RemoveAt(u, i), b) = RemoveAt(View(u, b), i)
<1> DEFINE n == Len(u)
           v == View(u, b)
           r == RemoveAt(u, i)
           vr == View(r, b)
           rv == RemoveAt(v, i)
<1>0. n \in Nat /\ i \in 1..n  BY LenProperties
<1>1. v \in Seq(Item) /\ Len(v) = n /\ \A j \in 1..n : v[j] = b[u[j]]
  BY ViewProperties
<1>2. /\ r \in Seq(Slot) /\ Len(r) = n - 1
      /\ \A j \in 1..(n - 1) : r[j] = IF j < i THEN u[j] ELSE u[j + 1]
  BY RemoveAtProperties
<1> HIDE DEF v, r, n
<1>3. /\ vr \in Seq(Item) /\ Len(vr) = n - 1
      /\ \A j \in 1..(n - 1) : vr[j] = b[r[j]]
  BY <1>2, ViewProperties
<1>4. /\ rv \in Seq(Item) /\ Len(rv) = n - 1
      /\ \A j \in 1..(n - 1) : rv[j] = IF j < i THEN v[j] ELSE v[j + 1]
  BY <1>0, <1>1, RemoveAtProperties
<1> HIDE DEF vr, rv
<1>5. ASSUME NEW j \in 1..(n - 1) PROVE vr[j] = rv[j]
  <2>1. j \in 1..n /\ j + 1 \in 1..n  BY <1>0
  <2>2. CASE j < i
    <3>1. r[j] = u[j] /\ rv[j] = v[j]  BY <2>2, <1>2, <1>4
    <3>2. vr[j] = b[u[j]] /\ v[j] = b[u[j]]  BY <3>1, <2>1, <1>1, <1>3
    <3> QED  BY <3>1, <3>2
  <2>3. CASE ~(j < i)
    <3>1. r[j] = u[j + 1] /\ rv[j] = v[j + 1]  BY <2>3, <1>2, <1>4
    <3>2. vr[j] = b[u[j + 1]] /\ v[j + 1] = b[u[j + 1]]
      BY <3>1, <2>1, <1>1, <1>3
    <3> QED  BY <3>1, <3>2
  <2> QED  BY <2>2, <2>3
<1>6. vr = rv  BY <1>3, <1>4, <1>5, SeqEqual
<1> QED  BY <1>6 DEF vr, rv, v, r

\* Writing into a queued slot changes that place of the view and no other.
LEMMA ViewWritten ==
  ASSUME NEW u \in Seq(Slot), NEW b \in [Slot -> Item], NoDuplicates(u),
         NEW i \in 1..Len(u), NEW x \in Item,
         NEW c \in [Slot -> Item], c[u[i]] = x,
         \A r \in Slot : r # u[i] => c[r] = b[r]
  PROVE  View(u, c) = [View(u, b) EXCEPT ![i] = x]
<1>1. \A j \in 1..Len(u) : u[j] \in Slot  BY ElementOfSeq
<1>2. \A j \in 1..Len(u) : u[j] = u[i] => j = i  BY DEF NoDuplicates
<1>3. \A j \in 1..Len(u) : c[u[j]] = IF j = i THEN x ELSE b[u[j]]
  BY <1>1, <1>2
<1> QED  BY <1>3 DEF View

\* An allocation, with whatever bytes the slot is given or held before.
LEMMA AllocRefines ==
  ASSUME IInv, AllocBack \/ AllocFront, bytes' \in [Slot -> Item],
         \A r \in Slot : r # Head(unused) => bytes'[r] = bytes[r]
  PROVE  Deque!Next
<1> DEFINE s == Head(unused)
           x == bytes'[s]
           b == bytes'
<1>1. /\ used \in Seq(Slot) /\ unused \in Seq(Slot) /\ bytes \in [Slot -> Item]
      /\ unused # << >> /\ NoDuplicates(unused)
  BY DEF IInv, TypeOK, AllocBack, AllocFront, SlotsPartitioned, Partition
<1>2. s \in Slot /\ Occurs(s, unused)  BY <1>1, TailMembers
<1>3. ~Occurs(s, used)  BY <1>2 DEF IInv, SlotsPartitioned, Partition
<1>4. View(used, b) = View(used, bytes)
  <2> HIDE DEF b
  <2>1. \A r \in Slot : r # s => b[r] = bytes[r]  BY DEF b
  <2>2. b \in [Slot -> Item]  BY DEF b
  <2> HIDE DEF s
  <2> QED  BY <1>1, <1>2, <1>3, <2>1, <2>2, ViewKept
<1>5. Queued = View(used, bytes) /\ Queued' = View(used', b)
  BY DEF Queued, View
<1>6. Len(Queued) < MaxSize
  <2>1. Len(Queued) = Len(used)  BY <1>1, <1>5, ViewProperties
  <2>2. Len(used) \in Nat /\ Len(unused) \in Nat /\ Len(unused) # 0
    BY <1>1, LenProperties, EmptySeq
  <2>3. Len(used) + Len(unused) = MaxSize  BY DEF IInv, SizeAgrees
  <2> HIDE DEF Queued
  <2> QED  BY <2>1, <2>2, <2>3
<1>7. x \in Item /\ b \in [Slot -> Item]  BY <1>2
<1>8. CASE AllocBack
  <2>1. used' = Append(used, s)  BY <1>8 DEF AllocBack
  <2> HIDE DEF s, b
  <2>2. View(used', b) = Append(View(used, b), b[s])
    BY <2>1, <1>1, <1>2, <1>7, ViewExtended
  <2>3. Queued' = Append(Queued, b[s])  BY <2>2, <1>4, <1>5
  <2> HIDE DEF Queued
  <2>4. b[s] \in Item  BY <1>2, <1>7
  <2> QED  BY <2>3, <2>4, <1>6 DEF Deque!Next, Deque!InsertBack
<1>9. CASE AllocFront
  <2>1. used' = Cons(s, used)  BY <1>9 DEF AllocFront
  <2> HIDE DEF s, b
  <2>2. View(used', b) = Cons(b[s], View(used, b))
    BY <2>1, <1>1, <1>2, <1>7, ViewExtended
  <2>3. Queued' = Cons(b[s], Queued)  BY <2>2, <1>4, <1>5
  <2> HIDE DEF Queued
  <2>4. b[s] \in Item  BY <1>2, <1>7
  <2>5. Deque!Cons(b[s], Queued) = Cons(b[s], Queued)  BY DEF Deque!Cons, Cons
  <2> QED  BY <2>3, <2>4, <2>5, <1>6 DEF Deque!Next, Deque!InsertFront
<1> QED  BY <1>8, <1>9

\* A slot is freed.
LEMMA ReleaseRefines ==
  ASSUME IInv, NEW i \in 1..Len(used), Release(i)
  PROVE  Deque!Next
<1>1. /\ used \in Seq(Slot) /\ bytes \in [Slot -> Item]
      /\ used' = RemoveAt(used, i) /\ bytes' = bytes
  BY DEF IInv, TypeOK, Release
<1>2. Queued = View(used, bytes) /\ Queued' = View(used', bytes')
  BY DEF Queued, View
<1>3. View(RemoveAt(used, i), bytes) = RemoveAt(View(used, bytes), i)
  BY <1>1, ViewRemoved
<1>4. i \in DOMAIN Queued  BY <1>1, <1>2, ViewProperties
<1>5. Deque!RemoveAt(Queued, i) = RemoveAt(Queued, i)
  BY DEF Deque!RemoveAt, RemoveAt
<1> HIDE DEF Queued
<1>6. Queued' = Deque!RemoveAt(Queued, i)  BY <1>1, <1>2, <1>3, <1>5
<1> QED  BY <1>4, <1>6 DEF Deque!Next, Deque!Delete

\* Every operation of the queue is one of the deque, or is not seen.
LEMMA NextRefines == IInv /\ [Next]_vars => [Deque!Next]_Queued
<1> SUFFICES ASSUME IInv, [Next]_vars PROVE Deque!Next \/ UNCHANGED Queued
  OBVIOUS
<1>0. /\ used \in Seq(Slot) /\ Len(used) \in Nat /\ DOMAIN used = 1..Len(used)
      /\ bytes \in [Slot -> Item] /\ unused \in Seq(Slot)
  BY LenProperties DEF IInv, TypeOK
<1>1. CASE (AllocBack \/ AllocFront) /\ UNCHANGED bytes
  BY <1>1, <1>0, AllocRefines
<1>2. ASSUME NEW x \in Item, PushBack(x) \/ PushFront(x)  PROVE Deque!Next
  <2> DEFINE s == Head(unused)
  <2>1. AllocBack \/ AllocFront  BY <1>2 DEF PushBack, PushFront
  <2>2. bytes' = [bytes EXCEPT ![s] = x]  BY <1>2 DEF PushBack, PushFront
  <2>3. bytes' \in [Slot -> Item]  BY <2>2, <1>0
  <2>4. \A r \in Slot : r # s => bytes'[r] = bytes[r]
    <3> HIDE DEF s
    <3> QED  BY <2>2, <1>0
  <2> QED  BY <2>1, <2>3, <2>4, AllocRefines
<1>3. ASSUME NEW i \in DOMAIN used, NEW x \in Item, Write(i, x)  PROVE Deque!Next
  <2>1. used' = used /\ bytes' = [bytes EXCEPT ![used[i]] = x]  BY <1>3 DEF Write
  <2>2. Queued = View(used, bytes) /\ Queued' = View(used', bytes')
    BY DEF Queued, View
  <2>3. NoDuplicates(used)  BY DEF IInv, SlotsPartitioned, Partition
  <2>4. Queued' = [Queued EXCEPT ![i] = x]
    <3> DEFINE c == bytes'
    <3>1. i \in 1..Len(used) /\ used[i] \in Slot  BY <1>0, ElementOfSeq
    <3>2. /\ c \in [Slot -> Item] /\ c[used[i]] = x
          /\ \A r \in Slot : r # used[i] => c[r] = bytes[r]
      BY <1>0, <2>1, <3>1
    <3> HIDE DEF c
    <3>3. View(used, c) = [View(used, bytes) EXCEPT ![i] = x]
      BY <1>0, <2>3, <3>1, <3>2, ViewWritten
    <3> HIDE DEF Queued
    <3> QED  BY <3>3, <2>1, <2>2 DEF c
  <2>5. i \in DOMAIN Queued  BY <1>0, <2>2, ViewProperties
  <2> HIDE DEF Queued
  <2> QED  BY <2>4, <2>5 DEF Deque!Next, Deque!Overwrite
<1>4. CASE PopFront
  <2>1. 1 \in 1..Len(used)  BY <1>0, <1>4, EmptySeq DEF PopFront
  <2> QED  BY <2>1, <1>4, ReleaseRefines DEF PopFront
<1>5. CASE PopBack
  <2>1. Len(used) \in 1..Len(used)  BY <1>0, <1>5, EmptySeq DEF PopBack
  <2> QED  BY <2>1, <1>5, ReleaseRefines DEF PopBack
<1>6. ASSUME NEW i \in Slot, Free(i)  PROVE Deque!Next
  <2>1. i \in 1..Len(used)  BY <1>0, <1>6 DEF Free
  <2> QED  BY <2>1, <1>6, ReleaseRefines DEF Free
<1>7. CASE Clear
  <2>1. used' = << >>  BY <1>7 DEF Clear
  <2>2. Queued' = << >>  BY <2>1 DEF Queued
  <2> QED  BY <2>2 DEF Deque!Next, Deque!Empty
<1>8. CASE UNCHANGED vars  BY <1>8 DEF vars, Queued
<1> QED  BY <1>1, <1>2, <1>3, <1>4, <1>5, <1>6, <1>7, <1>8 DEF Next

\* queue_buffer.c implements the double-ended queue of its header, for every
\* capacity: no operation on one slot disturbs the contents or the order of
\* the others.
THEOREM IsADeque == Spec => ImplementsDeque
<1>1. Init => Deque!Init
  <2> SUFFICES ASSUME Init PROVE Deque!Init
    OBVIOUS
  <2>1. used = << >>  BY DEF Init
  <2>2. Queued = << >>  BY <2>1 DEF Queued
  <2> QED  BY <2>2 DEF Deque!Init
<1>2. Spec => Deque!Init /\ [][Deque!Next]_Queued
  BY <1>1, InitIInv, NextIInv, NextRefines, PTL DEF Spec
<1> QED  BY <1>2 DEF ImplementsDeque, Deque!Spec

=============================================================================
