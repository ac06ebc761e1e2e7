---------------------------- MODULE NodeLifecycle ----------------------------
(***************************************************************************)
(* The life of a sensor node (src/src/main_reg_sensor.c): it is set up by  *)
(* a packet of the sink once its button was pushed, keeps what it was told *)
(* in flash (src/src/base/node_properties.c), starts up when the flood of  *)
(* INITIALIZE reaches it, is reset by the flood of RESET, may lose power,  *)
(* and hears of emergencies in any of these states.                        *)
(*                                                                         *)
(* The sink sends what the graphical interface orders: an INITIALIZE after *)
(* every set-up and every reset (src/GUI/SetupSensorGUI.java,              *)
(* src/GUI/SensorNetworkGUI.java).  Its packets are broadcasts; the nodes  *)
(* pass INITIALIZE and RESET on to their neighbours by the connection of   *)
(* NeighborConn, here reduced to what ReliableBroadcast says of it, with a *)
(* packet that may be given up.  Which paths the nodes choose and announce *)
(* is in EscapePaths.  An ASSERT that fails stops its node for good.       *)
(***************************************************************************)
EXTENDS Integers, FiniteSets, Sequences

CONSTANTS
  Node,           \* the sensor nodes
  Sink,
  Table,          \* the neighbours each node is set up with; also its range
  SinkRange,      \* the nodes that hear the sink
  Exits,          \* the nodes that are set up as exits
  Fresh,          \* the nodes that have not been set up
  Alarmed,        \* the nodes that may sense an emergency
  MaxCommands,    \* bound: packets the sink sends
  MaxAlarms,      \* bound: emergencies sensed
  MaxFaults       \* bound: frames lost, receivers given up and power failures

ASSUME NodeLifecycleAssumption ==
  /\ IsFiniteSet(Node) /\ Sink \notin Node
  /\ Table \in [Node -> SUBSET Node] /\ \A n \in Node : n \notin Table[n]
  /\ SinkRange \subseteq Node /\ Exits \subseteq Node
  /\ Fresh \subseteq Node /\ Alarmed \subseteq Node
  /\ MaxCommands \in Nat /\ MaxAlarms \in Nat /\ MaxFaults \in Nat

VARIABLES
  np,      \* g_np of each node, its sending queue and duplicate queue included
  flash,   \* what is in flash: nothing, a tag over erased data, or a set-up
  sink,    \* the sink's sequence number and what the interface has ordered
  alarms,
  faults

vars == <<np, flash, sink, alarms, faults>>

Packet == [type : {"INITIALIZE_BEST_PATHS", "RESET_SYSTEM", "NODE_INFO"},
           key : (Node \cup {Sink}) \X Nat]

-----------------------------------------------------------------------------
(* setup_parse, and what it is called from.                                  *)

\* The record c of node n after a set-up packet, or the flash, was parsed.  The
\* neighbour table is cleared, but a best neighbour still points into it; an
\* exit's points to exit_node.  Flash with a tag over erased data reads as zeros:
\* no neighbours, not an exit.
SetupParse(c, n, whole) ==
  LET exit == whole /\ n \in Exits
  IN  [c EXCEPT !.ns = IF whole THEN Table[n] ELSE {}, !.known = {},
                !.is_exit_node = exit,
                !.bpn = IF @ = "path" /\ ~exit THEN "stale" ELSE @,
                !.is_awaiting_setup_packet = FALSE, !.is_reset_mode = FALSE,
                !.has_sent_node_info = FALSE,
                !.is_blinking = FALSE, !.is_burning = FALSE]

\* node_properties_restore: the tag decides.
Restored(c, n) ==
  IF flash[n] = "blank" THEN c ELSE SetupParse(c, n, flash[n] = "whole")

\* reset_node_properties, at boot: everything is cleared, queues and sequence
\* numbers included, and the flash is read.
ResetNodeProperties(n) ==
  Restored([ns |-> {}, known |-> {}, is_exit_node |-> FALSE, bpn |-> "null",
            is_awaiting_setup_packet |-> FALSE, is_reset_mode |-> FALSE,
            has_sent_node_info |-> FALSE, is_blinking |-> FALSE,
            is_burning |-> FALSE, seqno |-> 0, sq |-> << >>, seen |-> {},
            floods |-> {}, stopped |-> "no"], n)

Init ==
  /\ flash = [n \in Node |-> IF n \in Fresh THEN "blank" ELSE "whole"]
  /\ np = [n \in Node |-> ResetNodeProperties(n)]
  /\ sink \in [seqno : {0}, owes_init : BOOLEAN, initialized : {FALSE},
               repeated : {FALSE}, hasty : {FALSE}]
  /\ alarms = 0 /\ faults = 0

-----------------------------------------------------------------------------
(* The handlers, on the record c of node n.                                  *)

\* Mutant of ReliableBroadcastNs: packets to nobody are queued, too.
ReliableBroadcastToNobody(c, p) ==
  [c EXCEPT !.sq = Append(@, [p |-> p, unacked_ns |-> c.ns]), !.seen = @ \cup {p.key}]

\* ec_reliable_broadcast_ns
ReliableBroadcastNs(c, p) ==
  IF c.ns = {} THEN c
  ELSE [c EXCEPT !.sq = Append(@, [p |-> p, unacked_ns |-> c.ns]), !.seen = @ \cup {p.key}]

UpdateBpnAndSendNodeInfo(c, n) ==
  ReliableBroadcastNs([c EXCEPT !.bpn = "path", !.has_sent_node_info = TRUE,
                                !.seqno = @ + 1],
                      [type |-> "NODE_INFO", key |-> <<n, c.seqno>>])

\* initialize_best_path_packet_handler: a second NODE_INFO fails an ASSERT.
InitializeBestPath(c, n) ==
  LET started == [c EXCEPT !.is_reset_mode = FALSE]
  IN  CASE ~c.is_exit_node -> started
        [] c.is_exit_node /\ c.has_sent_node_info ->
             [started EXCEPT !.stopped = "second NODE_INFO"]
        [] c.is_exit_node /\ ~c.has_sent_node_info ->
             UpdateBpnAndSendNodeInfo(started, n)

\* Mutant of ResetSystem: the set-up is not read again.
ResetSystemModeOnly(c, n) == [c EXCEPT !.is_reset_mode = TRUE]

\* reset_system_packet_handler
ResetSystem(c, n) == [Restored(c, n) EXCEPT !.is_reset_mode = TRUE]

\* Mutant of Flooded: the packet is handled before it is passed on.
FloodedLast(c, n, p) ==
  ReliableBroadcastNs(IF p.type = "RESET_SYSTEM" THEN ResetSystem(c, n)
                      ELSE InitializeBestPath(c, n), p)

\* INITIALIZE and RESET, by whichever connection: passed on first.
Flooded(c, n, p) ==
  IF p.type = "RESET_SYSTEM"
  THEN ResetSystem(ReliableBroadcastNs(c, p), n)
  ELSE InitializeBestPath(ReliableBroadcastNs(c, p), n)

\* NODE_INFO of neighbour m: the first makes a node tell its own.  What a later
\* one changes is in EscapePaths.
NodeInfo(c, n, m) ==
  LET told == [c EXCEPT !.known = @ \cup {m}]
  IN  IF c.has_sent_node_info THEN told ELSE UpdateBpnAndSendNodeInfo(told, n)

\* ec_broadcasts_recv and ec_neighbors_recv of a packet from m, which is new or
\* else goes no further than the connection.  In reset mode all but INITIALIZE
\* is ignored, and counts as seen.
Received(c, n, m, p) ==
  LET seen == [c EXCEPT !.seen = @ \cup {p.key}]
  IN  CASE p.key \in c.seen -> c
        [] p.key \notin c.seen /\ c.is_reset_mode /\ p.type # "INITIALIZE_BEST_PATHS" -> seen
        [] p.key \notin c.seen /\ p.type = "NODE_INFO" /\ ~c.is_reset_mode ->
             NodeInfo(seen, n, m)
        [] p.key \notin c.seen /\ p.type = "INITIALIZE_BEST_PATHS" -> Flooded(c, n, p)
        [] p.key \notin c.seen /\ p.type = "RESET_SYSTEM" /\ ~c.is_reset_mode ->
             Flooded(c, n, p)

\* blinking_init: blinking needs a best neighbour, unless the node burns.
BlinkingInit(c) ==
  IF c.is_blinking THEN c
  ELSE [c EXCEPT !.is_blinking = TRUE,
                 !.stopped = IF c.bpn = "null" /\ ~c.is_burning THEN "no path" ELSE @]

\* EMERGENCY_PACKET, in ec_broadcasts_recv
EmergencyReceived(c, key) ==
  CASE key \in c.seen -> c
    [] key \notin c.seen /\ c.is_reset_mode -> [c EXCEPT !.seen = @ \cup {key}]
    [] key \notin c.seen /\ ~c.is_reset_mode ->
         BlinkingInit([c EXCEPT !.seen = @ \cup {key}, !.floods = @ \cup {key}])

-----------------------------------------------------------------------------
Running(n) == np[n].stopped = "no"

\* As many faults more.
Faults(n) == faults' = faults + n /\ faults' <= MaxFaults

\* The sink broadcasts INITIALIZE or RESET.
SinkBroadcasts(type) ==
  LET p       == [type |-> type, key |-> <<Sink, sink.seqno>>]
      hearers == {n \in SinkRange : Running(n)}
  IN  /\ sink.seqno < MaxCommands
      /\ \E lost \in SUBSET hearers :
           /\ Faults(Cardinality(lost))
           /\ np' = [n \in Node |-> IF n \in hearers \ lost
                                    THEN Received(np[n], n, Sink, p) ELSE np[n]]
      /\ UNCHANGED <<flash, alarms>>

\* "send_init_packet", after a set-up or a reset
SendInitPacket ==
  /\ sink.owes_init
  /\ SinkBroadcasts("INITIALIZE_BEST_PATHS")
  /\ sink' = [sink EXCEPT !.seqno = @ + 1, !.owes_init = FALSE, !.initialized = TRUE,
                          !.repeated = @ \/ sink.initialized]

\* "reset_system_packet"
SendResetPacket ==
  /\ ~sink.owes_init
  /\ SinkBroadcasts("RESET_SYSTEM")
  /\ sink' = [sink EXCEPT !.seqno = @ + 1, !.owes_init = TRUE, !.initialized = FALSE]

\* The button: one node at a time is made to wait for its set-up.
PushButton(n) ==
  /\ Running(n) /\ n \in Fresh
  /\ \A m \in Node : ~np[m].is_awaiting_setup_packet
  /\ np' = [np EXCEPT ![n].is_awaiting_setup_packet = TRUE]
  /\ UNCHANGED <<flash, sink, alarms, faults>>

\* "send_setup_packet" for the node that waits, which takes it unless it is
\* in reset mode or the frame is lost, and burns it to flash; power may fail
\* after the erasure or after the tag.
SendSetupPacket(n) ==
  /\ Running(n) /\ n \in SinkRange /\ np[n].is_awaiting_setup_packet
  /\ ~sink.owes_init /\ sink.seqno < MaxCommands
  /\ sink' = [sink EXCEPT !.seqno = @ + 1, !.owes_init = TRUE,
                          !.hasty = @ \/ \E m \in Node : np[m].sq # << >>]
  /\ \/ /\ ~np[n].is_reset_mode
        /\ flash' = [flash EXCEPT ![n] = "whole"]
        /\ np' = [np EXCEPT ![n] = SetupParse(@, n, TRUE)]
        /\ Faults(0)
     \/ /\ ~np[n].is_reset_mode
        /\ \E torn \in {"blank", "torn"} : flash' = [flash EXCEPT ![n] = torn]
        /\ np' = [np EXCEPT ![n] = ResetNodeProperties(n)']
        /\ Faults(1)
     \/ /\ Faults(IF np[n].is_reset_mode THEN 0 ELSE 1)
        /\ UNCHANGED <<np, flash>>
  /\ UNCHANGED alarms

\* The first packet of m's queue reaches its neighbour n, which acknowledges
\* it if m is in its own table.
Deliver(m, n) ==
  /\ Running(m) /\ Running(n)
  /\ np[m].sq # << >> /\ n \in Head(np[m].sq).unacked_ns
  /\ m \in np[n].ns
  /\ LET unacked == Head(np[m].sq).unacked_ns \ {n}
         sq      == IF unacked = {} THEN Tail(np[m].sq)
                    ELSE [np[m].sq EXCEPT ![1].unacked_ns = unacked]
         acked   == [np EXCEPT ![m].sq = sq]
     IN  np' = [acked EXCEPT ![n] = Received(acked[n], n, m, Head(np[m].sq).p)]
  /\ UNCHANGED <<flash, sink, alarms, faults>>

\* m gives its first packet up: it was lost to nodes that would have taken it,
\* or the nodes it waits for are stopped or do not know m.
GiveUp(m) ==
  /\ Running(m) /\ np[m].sq # << >>
  /\ Faults(Cardinality({n \in Head(np[m].sq).unacked_ns :
                          Running(n) /\ m \in np[n].ns}))
  /\ np' = [np EXCEPT ![m].sq = Tail(@)]
  /\ UNCHANGED <<flash, sink, alarms>>

\* emergency_check_timer: a node with a best neighbour, reset or not, burns,
\* blinks and floods the emergency.
SenseEmergency(n) ==
  /\ Running(n) /\ n \in Alarmed /\ alarms < MaxAlarms
  /\ np[n].bpn # "null" /\ ~np[n].is_burning
  /\ LET key == <<n, np[n].seqno>>
         c   == BlinkingInit([np[n] EXCEPT !.is_burning = TRUE])
     IN  np' = [np EXCEPT ![n] = [c EXCEPT !.floods = @ \cup {key},
                                           !.seen = @ \cup {key}, !.seqno = @ + 1]]
  /\ alarms' = alarms + 1
  /\ UNCHANGED <<flash, sink, faults>>

\* A broadcast of the emergency leaves the queue of n.
SendFlood(n) ==
  /\ Running(n)
  /\ \E key \in np[n].floods :
     LET hearers == {m \in Table[n] : Running(m)}
     IN  \E lost \in SUBSET hearers :
           /\ Faults(Cardinality(lost))
           /\ np' = [m \in Node |->
                CASE m = n -> [np[n] EXCEPT !.floods = @ \ {key}]
                  [] m \in hearers \ lost -> EmergencyReceived(np[m], key)
                  [] m \notin hearers \ lost /\ m # n -> np[m]]
  /\ UNCHANGED <<flash, sink, alarms>>

\* A node loses power and boots again.
PowerLoss(n) ==
  /\ Faults(1)
  /\ np' = [np EXCEPT ![n] = ResetNodeProperties(n)]
  /\ UNCHANGED <<flash, sink, alarms>>

Next ==
  \/ SendInitPacket
  \/ SendResetPacket
  \/ \E n \in Node : \/ PushButton(n)
                     \/ SendSetupPacket(n)
                     \/ \E m \in Node : Deliver(m, n)
                     \/ GiveUp(n)
                     \/ SenseEmergency(n)
                     \/ SendFlood(n)
                     \/ PowerLoss(n)

Spec == Init /\ [][Next]_vars

-----------------------------------------------------------------------------
Key == (Node \cup {Sink}) \X Nat

QueuedPacket == [p : Packet, unacked_ns : (SUBSET Node) \ {{}}]

NodeProperties ==
  [ns : SUBSET Node, known : SUBSET Node, is_exit_node : BOOLEAN,
   bpn : {"null", "stale", "path"}, is_awaiting_setup_packet : BOOLEAN,
   is_reset_mode : BOOLEAN, has_sent_node_info : BOOLEAN, is_blinking : BOOLEAN,
   is_burning : BOOLEAN, seqno : Nat, sq : Seq(QueuedPacket), seen : SUBSET Key,
   floods : SUBSET (Node \X Nat), stopped : {"no", "second NODE_INFO", "no path"}]

\* Every variable has its type, and every queued packet waits for somebody.
TypeOK ==
  /\ np \in [Node -> NodeProperties]
  /\ flash \in [Node -> {"blank", "torn", "whole"}]
  /\ sink \in [seqno : 0..MaxCommands, owes_init : BOOLEAN,
               initialized : BOOLEAN, repeated : BOOLEAN, hasty : BOOLEAN]
  /\ alarms \in 0..MaxAlarms
  /\ faults \in 0..MaxFaults

-----------------------------------------------------------------------------
\* Nothing is on its way, and what the interface ordered is done.
Quiet ==
  /\ ~sink.owes_init
  /\ \A n \in Node : np[n].sq = << >> /\ np[n].floods = {}

\* No failed ASSERT, no node set up while a flood was on its way, and no fault
\* but one that left a tag over erased flash, still there.
NothingWentWrong ==
  /\ faults = Cardinality({n \in Node : flash[n] = "torn"})
  /\ ~sink.hasty
  /\ \A n \in Node : Running(n)

IsSetUp(n) == flash[n] = "whole"

\* The start-up completes (initialize_best_path_packet_handler): however the
\* floods of INITIALIZE and RESET and the node information of one round and the
\* next overtake each other, in the end no node is left in reset mode, each has
\* told its neighbours and has heard of all of them, and none chose its path
\* from a table that is gone.
StartUpCompletes ==
  sink.initialized /\ Quiet /\ NothingWentWrong =>
    \A n \in Node : IsSetUp(n) =>
      /\ ~np[n].is_reset_mode
      /\ np[n].has_sent_node_info
      /\ np[n].bpn = "path"
      /\ np[n].known = {m \in np[n].ns : IsSetUp(m)}

\* "This packet is only sent once to the node's neighbors": the ASSERT at
\* main_reg_sensor.c:536 stops an exit only if the sink initialized the network
\* twice without a reset in between, a frame or power was lost, or a node was
\* set up while a flood was on its way.  Such a node has not passed INITIALIZE
\* on, and what it tells of itself may reach an exit before INITIALIZE does.
ResetAllowsInit ==
  (\E n \in Node : np[n].stopped = "second NODE_INFO") =>
    sink.repeated \/ sink.hasty \/ faults > 0

\* A node that blinks has a best neighbour to read its place in the sequence
\* from: ASSERT(g_np.bpn != NULL), main_reg_sensor.c:263.
BlinkingHasPath == \A n \in Node : np[n].stopped # "no path"

=============================================================================
