--------------------------- MODULE MCNeighborConn ---------------------------
(***************************************************************************)
(* Instances of NeighborConn for TLC: the pair, the line of three nodes of *)
(* cooja_simulation1.impl.                                                 *)
(***************************************************************************)
EXTENDS NeighborConn

CONSTANTS n1, n2, n3, n4

Pair == {n1, n2}
Four == {n1, n2, n3, n4}

PairNeighbors == (n1 :> {n2}) @@ (n2 :> {n1})
PairRange == PairNeighbors @@ (Sink :> {n1})

\* A line, and n4 that hears n2 although it does not have n2 in its table.
LineNeighbors == (n1 :> {n2}) @@ (n2 :> {n1, n3}) @@ (n3 :> {n2}) @@ (n4 :> {})
LineRange == (n1 :> {n2}) @@ (n2 :> {n1, n3, n4}) @@ (n3 :> {n2}) @@ (n4 :> {n2})
             @@ (Sink :> {n1})

First == {n1}
Second == {n2}
NoNode == {}
=============================================================================
