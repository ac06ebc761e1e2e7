---------------------------- MODULE QueueBuffer -----------------------------
(***************************************************************************)
(* The fixed-slot queue of src/src/base/queue_buffer.c, on which the       *)
(* neighbour table, the sending queue, the duplicate queue and the list of *)
(* burning coordinates are all built.                                      *)
(*                                                                         *)
(* A slot is in exactly one of two singly linked lists, the used list (the *)
(* queue itself, front first) and the unused list (a stack, most recently  *)
(* freed first).  A list is modelled as the sequence of its slots, its     *)
(* head pointer as the head of that sequence.  Freeing a slot leaves its   *)
(* bytes alone, so an allocated but not yet written slot still shows what  *)
(* it held before.                                                         *)
(*                                                                         *)
(* Callers never pop an empty queue nor free an item that is not queued    *)
(* (queue_buffer.h:48, the ASSERTs at queue_buffer.c:124, 139 and 179):    *)
(* those are the guards of PopFront, PopBack and Free.                     *)
(***************************************************************************)
EXTENDS SequencesExt

CONSTANTS MaxSize,   \* num_items
          Item       \* the values the bytes of one item can take

ASSUME SizeAssumption == MaxSize \in 1..255     \* queue_max_size is a uint8_t

Slot == 1..MaxSize

VARIABLES used,        \* used_head: the queued slots, front first
          unused,      \* unused_head: the free slots, next to be taken first
          bytes,       \* data[] of every slot
          queue_size

vars == <<used, unused, bytes, queue_size>>

Init ==
  /\ used = << >>
  /\ unused = [i \in Slot |-> i]
  /\ bytes \in [Slot -> Item]
  /\ queue_size = 0

\* The two allocators: the head of the unused list joins the used list.
AllocBack ==
  /\ unused # << >>
  /\ used' = Append(used, Head(unused))
  /\ unused' = Tail(unused)
  /\ queue_size' = queue_size + 1

AllocFront ==
  /\ unused # << >>
  /\ used' = Cons(Head(unused), used)
  /\ unused' = Tail(unused)
  /\ queue_size' = queue_size + 1

PushBack(x) ==
  /\ AllocBack
  /\ bytes' = [bytes EXCEPT ![Head(unused)] = x]

PushFront(x) ==
  /\ AllocFront
  /\ bytes' = [bytes EXCEPT ![Head(unused)] = x]

\* The caller fills in, or changes, an item through the pointer it was given.
Write(i, x) ==
  /\ bytes' = [bytes EXCEPT ![used[i]] = x]
  /\ UNCHANGED <<used, unused, queue_size>>

\* Mutants of Release: the counter is forgotten; the rest of the list goes too.
ReleaseKeepsSize(i) ==
  /\ used' = RemoveAt(used, i)
  /\ unused' = Cons(used[i], unused)
  /\ UNCHANGED <<bytes, queue_size>>

ReleaseTruncates(i) ==
  /\ used' = SubSeq(used, 1, i - 1)
  /\ unused' = Cons(used[i], unused)
  /\ queue_size' = queue_size - 1
  /\ UNCHANGED bytes

\* A slot leaves the used list, wherever it is, and becomes the next to be taken.
Release(i) ==
  /\ used' = RemoveAt(used, i)
  /\ unused' = Cons(used[i], unused)
  /\ queue_size' = queue_size - 1
  /\ UNCHANGED bytes

PopFront == used # << >> /\ Release(1)

PopBack == used # << >> /\ Release(Len(used))

Free(i) == i \in DOMAIN used /\ Release(i)

\* Mutant of Clear: the used list is dropped.
ClearDropsSlots ==
  /\ queue_size' = 0
  /\ used' = << >>
  /\ UNCHANGED <<bytes, unused>>

\* The whole used list is hung after the last unused slot.
Clear ==
  /\ queue_size' = 0
  /\ unused' = unused \o used
  /\ used' = << >>
  /\ UNCHANGED bytes

Next ==
  \/ AllocBack /\ UNCHANGED bytes
  \/ AllocFront /\ UNCHANGED bytes
  \/ \E x \in Item : PushBack(x) \/ PushFront(x)
  \/ \E i \in DOMAIN used, x \in Item : Write(i, x)
  \/ PopFront
  \/ PopBack
  \/ \E i \in Slot : Free(i)
  \/ Clear

Spec == Init /\ [][Next]_vars

-----------------------------------------------------------------------------
\* Every variable has its type; queue_size stays within the uint8_t.
TypeOK ==
  /\ used \in Seq(Slot)
  /\ unused \in Seq(Slot)
  /\ bytes \in [Slot -> Item]
  /\ queue_size \in 0..MaxSize

NoDuplicates(s) == \A i, j \in 1..Len(s) : s[i] = s[j] => i = j

Occurs(slot, s) == \E i \in 1..Len(s) : s[i] = slot

Partition(u, f) ==
  /\ NoDuplicates(u)
  /\ NoDuplicates(f)
  /\ \A slot \in Slot : Occurs(slot, u) <=> ~Occurs(slot, f)

SlotsPartitioned == Partition(used, unused)

SizeAgrees ==
  /\ queue_size = Len(used)
  /\ queue_size + Len(unused) = MaxSize

\* No slot is leaked, linked twice, or linked in both lists, whatever the
\* order of allocations, frees in the middle and clears; and the counter the
\* callers ask for room (queue_buffer_size) is the length of the list, and the
\* rest of the capacity is what can still be allocated.
RingIsSound == SlotsPartitioned /\ SizeAgrees

\* The bytes of the used slots, in order, are the queue the callers see.
Queued == [i \in 1..Len(used) |-> bytes[used[i]]]

Deque == INSTANCE BoundedDeque WITH items <- Queued

\* queue_buffer.c implements the double-ended queue of its header: no
\* operation on one slot disturbs the contents or the order of the others.
ImplementsDeque == Deque!Spec

=============================================================================
