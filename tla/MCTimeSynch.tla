----------------------------- MODULE MCTimeSynch -----------------------------
(* Instance of TimeSynch for TLC: the line of cooja_simulation1.impl. *)
EXTENDS TimeSynch, TLC

CONSTANTS n1, n2, n3

Line == {n1, n2, n3}
LineRange == (n1 :> {n2}) @@ (n2 :> {n1, n3}) @@ (n3 :> {n2})

\* The best address is at one end of the line.
LineAuthority == (n1 :> 1) @@ (n2 :> 3) @@ (n3 :> 2)

\* Clocks differ, and the clock of a node that starts again does once more.
Clocks == [w \in Line \X (0..MaxLives) |-> 1000 * LineAuthority[w[1]] + 100 * w[2]]

Once == [n \in Line |-> 1]
BestTwice == [n \in Line |-> IF n = n1 THEN 2 ELSE 1]

Ends == {n1, n3}
Best == {n1}
NoOne == {}
=============================================================================
