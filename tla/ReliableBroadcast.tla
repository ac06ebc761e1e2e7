------------------------- MODULE ReliableBroadcast --------------------------
(***************************************************************************)
(* What the neighbour connection promises its users (emergency_conn.h:71): *)
(* a node hands over packets that each of its peers is to learn of.  There *)
(* are no frames, timers, acknowledgements or buffers here; the module     *)
(* NeighborConn has them and is shown to implement this one.               *)
(*                                                                         *)
(* A packet stays outstanding at its sender until every peer knows it, or  *)
(* it is the oldest and is given up after Attempts transmissions, or the   *)
(* sender loses power.  A node learns only of packets that somebody        *)
(* originated.                                                             *)
(***************************************************************************)
EXTENDS SequencesExt

CONSTANTS Node, Sink, Peers, Number, Attempts, Crashers

Key == (Node \cup {Sink}) \X Number

VARIABLES outstanding,   \* per node, oldest first: [key, waiting, sent]
          known          \* per node: the packets it learnt of or originated

vars == <<outstanding, known>>

Init ==
  /\ outstanding = [n \in Node |-> << >>]
  /\ known = [n \in Node |-> {}]

Message(n, key) == [key |-> key, waiting |-> Peers[n], sent |-> 0]

Genuine == {key \in Key : key[1] = Sink \/ key \in known[key[1]]}

AtMostOne(S) == {{}} \cup {{x} : x \in S}

\* Node n learns of a packet, or originates one, or both, and hands any of the
\* two over to its peers.  A message may be refused for lack of room.
Learn(n) ==
  \E heard \in AtMostOne(Genuine), made \in AtMostOne({n} \X Number) :
    /\ known' = [known EXCEPT ![n] = @ \cup heard \cup made]
    /\ \E order \in SeqOf(heard \cup made, 2) :
         /\ IsInjective(order)
         /\ order # << >> => Peers[n] # {}
         /\ outstanding' = [outstanding EXCEPT ![n] =
              @ \o [i \in DOMAIN order |-> Message(n, order[i])]]

\* A peer that knows the packet is struck off; the last one completes it.
Struck(queue, i, m) ==
  IF queue[i].waiting = {m}
  THEN RemoveAt(queue, i)
  ELSE [queue EXCEPT ![i].waiting = @ \ {m}]

Strike(n) ==
  \E i \in DOMAIN outstanding[n] : \E m \in outstanding[n][i].waiting :
    /\ outstanding[n][i].key \in known[m]
    /\ outstanding' = [outstanding EXCEPT ![n] = Struck(@, i, m)]
    /\ UNCHANGED known

\* The oldest message is transmitted; the others wait their turn.
Sent(queue) == [queue EXCEPT ![1].sent = @ + 1]

Send(n) ==
  /\ outstanding[n] # << >>
  /\ outstanding' = [outstanding EXCEPT ![n] = Sent(@)]
  /\ UNCHANGED known

\* The oldest message is given up, and the next one may be sent at once.
GiveUp(n) ==
  /\ outstanding[n] # << >>
  /\ Head(outstanding[n]).sent >= Attempts
  /\ LET rest == Tail(outstanding[n])
     IN  outstanding' \in
           {[outstanding EXCEPT ![n] = q] :
              q \in {rest} \cup {Sent(r) : r \in {rest} \ {<< >>}}}
  /\ UNCHANGED known

LosePower(n) ==
  /\ n \in Crashers
  /\ outstanding' = [outstanding EXCEPT ![n] = << >>]
  /\ UNCHANGED known

Next == \E n \in Node : Learn(n) \/ Strike(n) \/ Send(n) \/ GiveUp(n) \/ LosePower(n)

Spec == Init /\ [][Next]_vars

=============================================================================
