---------------------------- MODULE MCFireStatus ----------------------------
(***************************************************************************)
(* An instance of FireStatus for TLC: two nodes.                           *)
(***************************************************************************)
EXTENDS FireStatus

CONSTANTS a, b

TwoNodes == {a, b}
=============================================================================
