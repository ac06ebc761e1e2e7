-------------------------- MODULE MCNodeLifecycle --------------------------
(***************************************************************************)
(* Instances of NodeLifecycle for TLC: three nodes, each the neighbour of  *)
(* the others.                                                             *)
(***************************************************************************)
EXTENDS NodeLifecycle, TLC

CONSTANTS n1, n2, n3

Three == {n1, n2, n3}
Triangle == [n \in Three |-> Three \ {n}]

First == {n1}
Ends == {n1, n3}
Second == {n2}
Third == {n3}
NoOne == {}
=============================================================================
