--------------------------- MODULE MCEscapePaths ----------------------------
(***************************************************************************)
(* Instances of EscapePaths for TLC: the line of cooja_simulation1.impl    *)
(* with the exit at one end, a square whose diagonal is missing, where a   *)
(* node has two ways out, and a triangle, where two neighbours share one.  *)
(***************************************************************************)
EXTENDS EscapePaths

CONSTANTS n1, n2, n3, n4

Line == {n1, n2, n3}
LineTable == (n1 :> <<n2>>) @@ (n2 :> <<n1, n3>>) @@ (n3 :> <<n2>>)

Square == {n1, n2, n3, n4}
SquareTable ==
  (n1 :> <<n2, n3>>) @@ (n2 :> <<n1, n4>>) @@ (n3 :> <<n1, n4>>) @@ (n4 :> <<n2, n3>>)

Triangle == {n1, n2, n3}
TriangleTable == (n1 :> <<n2, n3>>) @@ (n2 :> <<n1, n3>>) @@ (n3 :> <<n1, n2>>)

\* Where the nodes are; n1 is the exit.  From n4 the way over n2 is the shorter
\* one although n3 is nearer to the exit than n2.
Near == (n1 :> <<20, 0>>) @@ (n2 :> <<60, 0>>) @@ (n3 :> <<0, 0>>) @@ (n4 :> <<60, 10>>)

Along(a, b) == IF a < b THEN b - a ELSE a - b

Distances(place) ==
  [link \in Node \X Node |-> Along(place[link[1]][1], place[link[2]][1])
                           + Along(place[link[1]][2], place[link[2]][2])]

NearDistances == Distances(Near)

FirstExit == {n1}
Second == {n2}
Third == {n3}
ExceptFirst == {n2, n3}
NoOne == {}

Fire == {500}
LightAndFires == {0, 500, 800}

\* Keep-alive checks.
Never == [n \in Node |-> 0]
Twice == [n \in Node |-> 2]
TwiceButFirst == [n \in Node |-> IF n = n1 THEN 0 ELSE 2]
=============================================================================
