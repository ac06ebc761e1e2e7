---------------------------- MODULE BoundedDeque ----------------------------
(***************************************************************************)
(* What src/src/base/queue_buffer.h promises its callers: a double-ended   *)
(* queue of at most MaxSize items from which any item may also be removed  *)
(* or overwritten in place.  There are no slots and no pointers here; the  *)
(* module QueueBuffer adds them and is shown to implement this one.        *)
(***************************************************************************)
EXTENDS SequencesExt

CONSTANTS MaxSize,   \* capacity of the queue
          Item       \* what an item can hold

VARIABLE items       \* the queued items, front first

Init == items = << >>

InsertFront(x) ==
  /\ Len(items) < MaxSize
  /\ items' = Cons(x, items)

InsertBack(x) ==
  /\ Len(items) < MaxSize
  /\ items' = Append(items, x)

Overwrite(i, x) == items' = [items EXCEPT ![i] = x]

Delete(i) == items' = RemoveAt(items, i)

Empty == items' = << >>

Next ==
  \/ \E x \in Item : InsertFront(x) \/ InsertBack(x)
  \/ \E i \in DOMAIN items, x \in Item : Overwrite(i, x)
  \/ \E i \in DOMAIN items : Delete(i)
  \/ Empty

Spec == Init /\ [][Next]_items

=============================================================================
