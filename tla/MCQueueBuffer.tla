--------------------------- MODULE MCQueueBuffer ----------------------------
(* Instance of QueueBuffer for TLC. *)
EXTENDS QueueBuffer

CONSTANTS a, b

MCItem == {a, b}
=============================================================================
