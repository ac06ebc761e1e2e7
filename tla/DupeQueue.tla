------------------------------ MODULE DupeQueue ------------------------------
(***************************************************************************)
(* The duplicate queue of src/src/emergency_net/emergency_conn.c, shared   *)
(* by all connections of a node: dq of the record c holds the keys         *)
(* (originator and sequence number) of the packets seen last.              *)
(***************************************************************************)
EXTENDS SequencesExt

CONSTANT DupeQueueLength    \* keys remembered to recognise duplicates

\* Mutants of StorePacketForDupeChecks: nothing is stored; nothing makes room.
ForgetPacket(c, key) == c

StoreWithoutEviction(c, key) ==
  IF Contains(c.dq, key) THEN c ELSE [c EXCEPT !.dq = Cons(key, @)]

\* store_packet_for_dupe_checks: newest first, the oldest makes room.
StorePacketForDupeChecks(c, key) ==
  IF Contains(c.dq, key)
  THEN c
  ELSE [c EXCEPT !.dq = Cons(key, IF Len(@) < DupeQueueLength
                                  THEN @ ELSE Front(@))]

=============================================================================
