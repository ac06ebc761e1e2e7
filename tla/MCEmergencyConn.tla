-------------------------- MODULE MCEmergencyConn --------------------------
(***************************************************************************)
(* Instances of EmergencyConn for TLC: a sink, the node it hears, and one  *)
(* behind that node.                                                       *)
(***************************************************************************)
EXTENDS EmergencyConn

CONSTANTS n1, n2

Line == {Sink, n1, n2}
LineRange == (Sink :> {n1}) @@ (n1 :> {Sink, n2}) @@ (n2 :> {n1})
LineTables == (Sink :> {}) @@ (n1 :> {n2}) @@ (n2 :> {n1})

NobodyCalls == (Sink :> {}) @@ (n1 :> {}) @@ (n2 :> {})
SinkCallsFirst == (Sink :> {n1}) @@ (n1 :> {}) @@ (n2 :> {})

First == {n1}
Second == {n2}
NoOne == {}
=============================================================================
