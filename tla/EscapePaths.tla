----------------------------- MODULE EscapePaths -----------------------------
(***************************************************************************)
(* The application of src/src/main_reg_sensor.c as far as it computes the  *)
(* ways out: every node keeps, for each neighbour, the best path that the  *)
(* neighbour announced, takes one neighbour as its best path neighbour bpn *)
(* and announces the path through it; fire makes the paths through a node  *)
(* dearer, and neighbours that no longer send keep-alives are removed.     *)
(*                                                                         *)
(* Handlers run to completion (one Contiki process).  The packets of       *)
(* ec_reliable_broadcast_ns reach each neighbour in the order sent, once,  *)
(* or are given up (NeighborConn).  EMERGENCY is flooded by ec_broadcast   *)
(* and may reach a node at any time after it was sent, or never, and so    *)
(* may INITIALIZE reach the nodes that hear the sink; from them on it is   *)
(* one of the reliable packets.                                            *)
(*                                                                         *)
(* Left out: setup and reset of the system, the sink, and the list of      *)
(* burning coordinates, which is kept but never used.                      *)
(***************************************************************************)
EXTENDS SequencesExt

CONSTANTS
  Node,
  ExitNodes,     \* nodes set up with is_exit_node
  NearSink,      \* nodes that hear the sink
  Table,         \* each node's neighbours in the order of its queue_buffer
  Distance,      \* coordinate_distance of two nodes
  Readings,      \* values the light sensor can show
  Exposed,       \* nodes whose sensor may change
  MaxInits,      \* bound: times INITIALIZE is flooded
  MaxChanges,    \* bound: abrupt changes of one node's sensor
  MaxChecks,     \* bound: keep-alive checks of each node
  Lively,        \* bound: nodes whose keep-alives are in time
  Alarmed,       \* bound: nodes that the flood of EMERGENCY may reach
  MaxLosses,     \* bound: packets given up
  Crashers,      \* nodes that may lose power
  NoNode, MaxNode, ExitNode    \* bpn == NULL, &max_node, &exit_node

\* metric_t, in which a sum wraps.
METRIC_T_MAX == 65535
Metrics == 0..METRIC_T_MAX
AsMetric(sum) == sum % (METRIC_T_MAX + 1)

ASSUME EscapePathsAssumption ==
  /\ ExitNodes \subseteq Node /\ NearSink \subseteq Node
  /\ Exposed \subseteq Node /\ Crashers \subseteq Node
  /\ Lively \subseteq Node /\ Alarmed \subseteq Node
  /\ Table \in [Node -> Seq(Node)]
  /\ \A n \in Node : IsInjective(Table[n]) /\ Len(Table[n]) <= 8
  /\ Distance \in [Node \X Node -> Metrics]
  /\ Readings \subseteq 0..4095
  /\ {MaxInits, MaxChanges, MaxLosses} \subseteq Nat
  /\ MaxChecks \in [Node -> Nat]
  /\ \A special \in {NoNode, MaxNode, ExitNode} : special \notin Node
  /\ NoNode # MaxNode /\ MaxNode # ExitNode /\ ExitNode # NoNode

MAX_NUMBER_OF_HOPS_TO_EXIT == 7
LIGHT_EMERGENCY_THRESHOLD == 400
ABRUPT_METRIC_CHANGE_THRESHOLD == 200

\* struct neighbor_node_best_path; the null address is NoNode.
BestPath == [metric : Metrics, points_to : Node \cup {NoNode}, hops : 0..255]

neighbor_node_best_path_max ==
  [metric |-> METRIC_T_MAX, points_to |-> NoNode, hops |-> 0]

\* setup_parse for an exit node: hops is -1 because sending a path adds 1.
ExitPath(n) == [metric |-> 0, points_to |-> n, hops |-> 255]

NODE_INFO_PACKET             == "NODE_INFO_PACKET"
BEST_PATH_UPDATE_PACKET      == "BEST_PATH_UPDATE_PACKET"
KEEP_ALIVE_NEIGHBOR          == "KEEP_ALIVE_NEIGHBOR"
INITIALIZE_BEST_PATHS_PACKET == "INITIALIZE_BEST_PATHS_PACKET"

\* seqno tells the INITIALIZE packets of the sink apart.
Message == [type : {NODE_INFO_PACKET, BEST_PATH_UPDATE_PACKET}, bp : BestPath]
             \cup [type : {KEEP_ALIVE_NEIGHBOR}]
             \cup [type : {INITIALIZE_BEST_PATHS_PACKET}, seqno : 1..MaxInits]

\* struct neighbor_node, as neighbors_add leaves it: the distance is not known.
NeighborNode(m) ==
  [addr |-> m, distance |-> 0, bp |-> neighbor_node_best_path_max,
   has_sent_keep_alive |-> TRUE]

VARIABLES
  np,       \* g_np of each node, its neighbour table as the sequence ns
  failed,   \* the ASSERT that stopped a node (or "power"), "none" while it runs
  net,      \* reliable packets on their way, for each sender and receiver
  inits,    \* the INITIALIZE packets each node has seen, by its queue dq
  alarms,   \* nodes that broadcast EMERGENCY
  changes, checks, losses

env == <<inits, alarms, changes, checks, losses>>
vars == <<np, failed, net, env>>

Init ==
  /\ np = [n \in Node |->
             [ns |-> [i \in DOMAIN Table[n] |-> NeighborNode(Table[n][i])],
              bpn |-> NoNode, has_sent_node_info |-> FALSE, timesynch |-> FALSE,
              is_blinking |-> FALSE, is_burning |-> FALSE, sensors_metric |-> 0]]
  /\ failed = [n \in Node |-> "none"]
  /\ net = [link \in Node \X Node |-> << >>]
  /\ inits = [n \in Node |-> {}]
  /\ alarms = {}
  /\ changes = [n \in Node |-> 0]
  /\ checks = [n \in Node |-> 0]
  /\ losses = 0

-----------------------------------------------------------------------------
(* Paths, in the g_np record c of node n. *)

Addrs(ns) == {ns[i].addr : i \in DOMAIN ns}

Position(ns, m) == CHOOSE i \in DOMAIN ns : ns[i].addr = m

\* The neighbour, exit_node or max_node that bpn may point at.  The distances
\* of the last two are 0: exit_node's is that to itself, and max_node's
\* coordinate is never set.
Target(c, n, b) ==
  CASE b = MaxNode  -> [addr |-> NoNode, distance |-> 0,
                        bp |-> neighbor_node_best_path_max]
    [] b = ExitNode -> [addr |-> n, distance |-> 0, bp |-> ExitPath(n)]
    [] OTHER        -> c.ns[Position(c.ns, b)]

Metric(c, n, b) == Target(c, n, b).bp.metric

\* Mutant of Through: the way to the neighbour does not count.
ThroughIgnoresDistance(node) == node.bp.metric

Through(node) == AsMetric(node.distance + node.bp.metric)

Usable(n, node) ==
  /\ node.bp.points_to # n
  /\ node.bp.metric # METRIC_T_MAX
  /\ node.bp.hops < MAX_NUMBER_OF_HOPS_TO_EXIT
  /\ Through(node) < METRIC_T_MAX

\* find_best_exit_path_neighbor: the first of the usable ones with the least metric.
Best(c, n) ==
  LET usable == {i \in DOMAIN c.ns : Usable(n, c.ns[i])}
      least  == {i \in usable : \A j \in usable :
                   Through(c.ns[i]) <= Through(c.ns[j])}
  IN  IF n \in ExitNodes THEN ExitNode
      ELSE IF usable = {} THEN MaxNode
      ELSE c.ns[CHOOSE i \in least : \A j \in least : i <= j].addr

\* weigh_metrics
Weigh(c, distance) ==
  distance + IF c.is_burning THEN 1000 + c.sensors_metric ELSE 0

\* Mutants of OurPath: hops wider than its uint8_t; the distance forgotten.
OurPathWide(c, n) ==
  LET best == Target(c, n, c.bpn)
  IN  [metric    |-> AsMetric(best.bp.metric + Weigh(c, best.distance)),
       points_to |-> best.addr,
       hops      |-> best.bp.hops + 1]

OurPathWithoutDistance(c, n) ==
  LET best == Target(c, n, c.bpn)
  IN  [metric    |-> AsMetric(best.bp.metric + Weigh(c, 0)),
       points_to |-> best.addr,
       hops      |-> (best.bp.hops + 1) % 256]

\* best_neighbor_bp_to_our_bp, in uint16_t and uint8_t.
OurPath(c, n) ==
  LET best == Target(c, n, c.bpn)
  IN  [metric    |-> AsMetric(best.bp.metric + Weigh(c, best.distance)),
       points_to |-> best.addr,
       hops      |-> (best.bp.hops + 1) % 256]

Announcement(c, n, type) == [type |-> type, bp |-> OurPath(c, n)]

\* Mutants of PathChanged: that the last way out is gone does not count; only
\* what the best path neighbour sends counts.
PathChangedIfAny(c, n, sender) ==
  LET best == Best(c, n)
  IN  \/ c.bpn = NoNode
      \/ Metric(c, n, best) < Metric(c, n, c.bpn)
      \/ best = sender

PathChangedIfKnown(c, n, sender) ==
  \/ c.bpn = NoNode
  \/ c.bpn = sender
  \/ c.bpn # MaxNode /\ Best(c, n) = MaxNode

\* update_bpn_and_broadcast_new_path_if_changed, where sender may be NULL: does
\* the best path neighbour, or what it announced, make a path to announce?
\* The two metrics are the neighbours' own, without the distance to them.
PathChanged(c, n, sender) ==
  LET best == Best(c, n)
  IN  \/ c.bpn = NoNode
      \/ Metric(c, n, best) < Metric(c, n, c.bpn)
      \/ best = sender
      \/ c.bpn # MaxNode /\ best = MaxNode

TakeBest(c, n) == [c EXCEPT !.bpn = Best(c, n)]

-----------------------------------------------------------------------------
(* Steps of a node.  A handler of n ends with its record c and the packets *)
(* out for its neighbours, or at a failed ASSERT, which stops the node.    *)

Running(n) == failed[n] = "none"

\* What is sent to a node that stopped is given up by the neighbour connection.
Sent(queues, n, c, out) ==
  [link \in Node \X Node |->
     IF link[1] = n /\ link[2] \in Addrs(c.ns) /\ Running(link[2])
     THEN queues[link] \o out ELSE queues[link]]

Finish(n, queues, c, out) ==
  /\ np' = [np EXCEPT ![n] = c]
  /\ net' = Sent(queues, n, c, out)
  /\ UNCHANGED failed

\* A node that stops neither receives nor sends again what was not received yet.
Fail(n, queues, assert) ==
  /\ failed' = [failed EXCEPT ![n] = assert]
  /\ net' = [link \in Node \X Node |-> IF n \in {link[1], link[2]} THEN << >> ELSE queues[link]]
  /\ UNCHANGED np

\* blinking_update dereferences bpn.
BlinkingUpdateFails(c) == c.is_blinking /\ ~c.is_burning /\ c.bpn = NoNode

FinishBlinking(n, queues, c, out) ==
  IF BlinkingUpdateFails(c) THEN Fail(n, queues, "bpn")
                            ELSE Finish(n, queues, c, out)

\* Mutant of Initialize: an exit node sends its node info before the packet.
InitializeInfoFirst(n, queues, seqno) ==
  /\ inits' = [inits EXCEPT ![n] = @ \cup {seqno}]
  /\ LET forward == [type |-> INITIALIZE_BEST_PATHS_PACKET, seqno |-> seqno]
         c == [np[n] EXCEPT !.timesynch = TRUE]
         d == [TakeBest(c, n) EXCEPT !.has_sent_node_info = TRUE]
     IN  IF n \notin ExitNodes
         THEN Finish(n, queues, c, <<forward>>)
         ELSE IF c.has_sent_node_info
         THEN Fail(n, queues, "has_sent_node_info")
         ELSE Finish(n, queues, d, <<Announcement(d, n, NODE_INFO_PACKET), forward>>)
  /\ UNCHANGED <<alarms, changes, checks, losses>>

\* An INITIALIZE packet that n has not seen: it is passed on, and
\* initialize_best_path_packet_handler is called.
Initialize(n, queues, seqno) ==
  /\ inits' = [inits EXCEPT ![n] = @ \cup {seqno}]
  /\ LET forward == [type |-> INITIALIZE_BEST_PATHS_PACKET, seqno |-> seqno]
         c == [np[n] EXCEPT !.timesynch = TRUE]
         d == [TakeBest(c, n) EXCEPT !.has_sent_node_info = TRUE]
     IN  IF n \notin ExitNodes
         THEN Finish(n, queues, c, <<forward>>)
         ELSE IF c.has_sent_node_info
         THEN Fail(n, queues, "has_sent_node_info")
         ELSE Finish(n, queues, d, <<forward, Announcement(d, n, NODE_INFO_PACKET)>>)
  /\ UNCHANGED <<alarms, changes, checks, losses>>

\* ec_broadcasts_recv of INITIALIZE, from the sink.
HearInitialize(n) ==
  /\ Running(n)
  /\ n \in NearSink
  /\ \E seqno \in (1..MaxInits) \ inits[n] : Initialize(n, net, seqno)

\* The next reliable packet from m is at n.  Nobody but a neighbour is heard.
Arrives(m, n) ==
  /\ Running(n)
  /\ net[<<m, n>>] # << >>

Rest(m, n) == [net EXCEPT ![<<m, n>>] = Tail(@)]

RecvFromStranger(m, n) ==
  /\ Arrives(m, n)
  /\ m \notin Addrs(np[n].ns)
  /\ net' = Rest(m, n)
  /\ UNCHANGED <<np, failed, env>>

\* ec_neighbors_recv
RecvInitialize(m, n) ==
  /\ Arrives(m, n)
  /\ m \in Addrs(np[n].ns)
  /\ Head(net[<<m, n>>]).type = INITIALIZE_BEST_PATHS_PACKET
  /\ LET seqno == Head(net[<<m, n>>]).seqno
     IN  IF seqno \in inits[n]
         THEN net' = Rest(m, n) /\ UNCHANGED <<np, failed, env>>
         ELSE Initialize(n, Rest(m, n), seqno)

RecvNodeInfo(m, n) ==
  /\ Arrives(m, n)
  /\ m \in Addrs(np[n].ns)
  /\ Head(net[<<m, n>>]).type = NODE_INFO_PACKET
  /\ LET i == Position(np[n].ns, m)
         c == [np[n] EXCEPT !.ns[i].distance = Distance[<<m, n>>],
                            !.ns[i].bp = Head(net[<<m, n>>]).bp]
         best == TakeBest(c, n)
         d == [best EXCEPT !.has_sent_node_info = TRUE]
     IN  IF ~c.has_sent_node_info
         THEN Finish(n, Rest(m, n), d, <<Announcement(d, n, NODE_INFO_PACKET)>>)
         ELSE IF n \notin ExitNodes /\ PathChanged(c, n, m)
         THEN Finish(n, Rest(m, n), best,
                     <<Announcement(best, n, BEST_PATH_UPDATE_PACKET)>>)
         ELSE Finish(n, Rest(m, n), c, << >>)
  /\ UNCHANGED env

\* Mutant of RecvBestPathUpdate: it announces before it changes the best path
\* neighbour.
RecvBestPathUpdateTooSoon(m, n) ==
  /\ Arrives(m, n)
  /\ m \in Addrs(np[n].ns)
  /\ Head(net[<<m, n>>]).type = BEST_PATH_UPDATE_PACKET
  /\ LET c == [np[n] EXCEPT !.ns[Position(np[n].ns, m)].bp = Head(net[<<m, n>>]).bp]
     IN  IF PathChanged(c, n, m) /\ c.bpn # NoNode
         THEN Finish(n, Rest(m, n), TakeBest(c, n),
                     <<Announcement(c, n, BEST_PATH_UPDATE_PACKET)>>)
         ELSE Finish(n, Rest(m, n), c, << >>)
  /\ UNCHANGED env

RecvBestPathUpdate(m, n) ==
  /\ Arrives(m, n)
  /\ m \in Addrs(np[n].ns)
  /\ Head(net[<<m, n>>]).type = BEST_PATH_UPDATE_PACKET
  /\ LET c == [np[n] EXCEPT !.ns[Position(np[n].ns, m)].bp = Head(net[<<m, n>>]).bp]
         best == TakeBest(c, n)
     IN  IF PathChanged(c, n, m)
         THEN Finish(n, Rest(m, n), best,
                     <<Announcement(best, n, BEST_PATH_UPDATE_PACKET)>>)
         ELSE Finish(n, Rest(m, n), c, << >>)
  /\ UNCHANGED env

RecvKeepAlive(m, n) ==
  /\ Arrives(m, n)
  /\ m \in Addrs(np[n].ns)
  /\ Head(net[<<m, n>>]).type = KEEP_ALIVE_NEIGHBOR
  /\ LET i == Position(np[n].ns, m)
     IN  Finish(n, Rest(m, n),
                [np[n] EXCEPT !.ns[i].has_sent_keep_alive = TRUE], << >>)
  /\ UNCHANGED env

\* A flooded EMERGENCY: blinking_init, which does nothing the second time.
RecvEmergency(n) ==
  /\ Running(n)
  /\ n \in Alarmed
  /\ alarms \ {n} # {}
  /\ ~np[n].is_blinking
  /\ FinishBlinking(n, net, [np[n] EXCEPT !.is_blinking = TRUE], << >>)
  /\ UNCHANGED env

\* emergency_check_timer finds that the sensor changed abruptly, to r.
SensorChanges(n, r) ==
  /\ Running(n)
  /\ n \in Exposed
  /\ changes[n] < MaxChanges
  /\ \/ r - np[n].sensors_metric > ABRUPT_METRIC_CHANGE_THRESHOLD
     \/ np[n].sensors_metric - r > ABRUPT_METRIC_CHANGE_THRESHOLD
  /\ changes' = [changes EXCEPT ![n] = @ + 1]
  /\ UNCHANGED <<inits, checks, losses>>

SenseEmergency(n) ==
  \E r \in Readings :
    /\ SensorChanges(n, r)
    /\ r > LIGHT_EMERGENCY_THRESHOLD
    /\ LET c == [np[n] EXCEPT !.sensors_metric = r]
           d == [c EXCEPT !.is_burning = TRUE, !.is_blinking = TRUE]
       IN  IF c.bpn = NoNode \/ c.is_burning
           THEN Finish(n, net, c, << >>) /\ UNCHANGED alarms
           ELSE /\ alarms' = alarms \cup {n}
                /\ IF ~c.timesynch
                   THEN Fail(n, net, "timesynch")
                   ELSE Finish(n, net, d,
                               <<Announcement(d, n, BEST_PATH_UPDATE_PACKET)>>)

SenseNoEmergency(n) ==
  \E r \in Readings :
    /\ SensorChanges(n, r)
    /\ r <= LIGHT_EMERGENCY_THRESHOLD
    /\ LET c == [np[n] EXCEPT !.sensors_metric = r, !.is_burning = FALSE]
       IN  IF ~np[n].is_blinking
           THEN Finish(n, net, [np[n] EXCEPT !.sensors_metric = r], << >>)
           ELSE IF c.bpn = NoNode
           THEN Fail(n, net, "bpn")
           ELSE Finish(n, net, c, <<Announcement(c, n, BEST_PATH_UPDATE_PACKET)>>)
    /\ UNCHANGED alarms

\* keepalive_send_timer.  A node whose last keep-alive is still on its way does
\* not send another one: it would tell nobody more.
SendKeepAlive(n) ==
  /\ Running(n)
  /\ n \in Lively
  /\ np[n].is_blinking
  /\ Addrs(np[n].ns) # {}
  /\ \A m \in Node : ~Contains(net[<<n, m>>], [type |-> KEEP_ALIVE_NEIGHBOR])
  /\ \E m \in Addrs(np[n].ns) : checks[m] < MaxChecks[m]
  /\ Finish(n, net, np[n], <<[type |-> KEEP_ALIVE_NEIGHBOR]>>)
  /\ UNCHANGED env

\* The loop of keepalive_check_timer: after a removal it starts again at the
\* head of the list and steps over it, so if the head goes, the next one is not
\* examined.
Kept(ns) ==
  LET silent == {i \in DOMAIN ns : ~ns[i].has_sent_keep_alive}
  IN  (DOMAIN ns \ silent) \cup (IF 1 \in silent THEN {2} \cap DOMAIN ns ELSE {})

Survivors(ns) ==
  LET kept == Kept(ns)
  IN  [k \in 1..Cardinality(kept) |->
         ns[CHOOSE i \in kept : Cardinality({j \in kept : j <= i}) = k]]

\* Whom the check takes off the list.
Removed(ns) == Addrs(ns) \ Addrs(Survivors(ns))

\* Mutant of CheckKeepAlive: no new path is chosen after a removal.
CheckKeepAliveOnly(n) ==
  /\ Running(n)
  /\ np[n].is_blinking
  /\ checks[n] < MaxChecks[n]
  /\ checks' = [checks EXCEPT ![n] = @ + 1]
  /\ LET ns == Survivors(np[n].ns)
         c  == [np[n] EXCEPT
                  !.bpn = IF @ \in Removed(np[n].ns) THEN NoNode ELSE @,
                  !.ns  = [i \in DOMAIN ns |->
                             [ns[i] EXCEPT !.has_sent_keep_alive = FALSE]]]
     IN  Finish(n, net, c, << >>)
  /\ UNCHANGED <<inits, alarms, changes, losses>>

CheckKeepAlive(n) ==
  /\ Running(n)
  /\ np[n].is_blinking
  /\ checks[n] < MaxChecks[n]
  /\ checks' = [checks EXCEPT ![n] = @ + 1]
  /\ LET ns   == Survivors(np[n].ns)
         gone == Removed(np[n].ns)
         c    == [np[n] EXCEPT
                    !.bpn = IF @ \in gone THEN NoNode ELSE @,
                    !.ns  = [i \in DOMAIN ns |->
                               [ns[i] EXCEPT !.has_sent_keep_alive = FALSE]]]
         best == TakeBest(c, n)
     IN  IF gone # {} /\ ns # << >> /\ PathChanged(c, n, NoNode)
         THEN Finish(n, net, best,
                     <<Announcement(best, n, BEST_PATH_UPDATE_PACKET)>>)
         ELSE Finish(n, net, c, << >>)
  /\ UNCHANGED <<inits, alarms, changes, losses>>

\* The blink timer needs bpn as well.  It is an interrupt, and may come in the
\* middle of the keep-alive check, when the best path neighbour has been removed
\* and no other was chosen yet.
BlinkFails(n) ==
  /\ Running(n)
  /\ np[n].is_blinking /\ ~np[n].is_burning
  /\ \/ np[n].bpn = NoNode
     \/ checks[n] < MaxChecks[n] /\ np[n].bpn \in Removed(np[n].ns)
  /\ Fail(n, net, "bpn")
  /\ UNCHANGED env

\* The neighbour connection gives a packet up: one receiver never gets it.
GiveUp(m, n) ==
  /\ losses < MaxLosses
  /\ net[<<m, n>>] # << >>
  /\ net' = Rest(m, n)
  /\ losses' = losses + 1
  /\ UNCHANGED <<np, failed, inits, alarms, changes, checks>>

LosePower(n) ==
  /\ n \in Crashers
  /\ Running(n)
  /\ Fail(n, net, "power")
  /\ UNCHANGED env

Receive(m, n) ==
  \/ RecvFromStranger(m, n)
  \/ RecvInitialize(m, n)
  \/ RecvNodeInfo(m, n)
  \/ RecvBestPathUpdate(m, n)
  \/ RecvKeepAlive(m, n)

Next ==
  \/ \E n \in Node : \/ HearInitialize(n)
                     \/ RecvEmergency(n)
                     \/ SenseEmergency(n)
                     \/ SenseNoEmergency(n)
                     \/ SendKeepAlive(n)
                     \/ CheckKeepAlive(n)
                     \/ BlinkFails(n)
                     \/ LosePower(n)
  \/ \E m, n \in Node : Receive(m, n) \/ GiveUp(m, n)

Spec == Init /\ [][Next]_vars

-----------------------------------------------------------------------------
NeighborNodes ==
  [addr : Node, distance : Metrics, bp : BestPath, has_sent_keep_alive : BOOLEAN]

NodeProperties ==
  [ns : Seq(NeighborNodes), bpn : Node \cup {NoNode, MaxNode, ExitNode},
   has_sent_node_info : BOOLEAN, timesynch : BOOLEAN, is_blinking : BOOLEAN,
   is_burning : BOOLEAN, sensors_metric : Metrics]

\* Every variable has its type, metrics and hops their width, and bpn points
\* into the table.
TypeOK ==
  /\ np \in [Node -> NodeProperties]
  /\ \A n \in Node : np[n].bpn \in Addrs(np[n].ns) \cup {NoNode, MaxNode, ExitNode}
  /\ failed \in [Node -> {"none", "power", "bpn", "timesynch", "has_sent_node_info"}]
  /\ net \in [Node \X Node -> Seq(Message)]
  /\ inits \in [Node -> SUBSET (1..MaxInits)]
  /\ alarms \subseteq Node
  /\ changes \in [Node -> 0..MaxChanges]
  /\ checks \in [Node -> Nat] /\ \A n \in Node : checks[n] <= MaxChecks[n]
  /\ losses \in 0..MaxLosses

-----------------------------------------------------------------------------
(* The paths that there are. *)

MinOf(S) == CHOOSE x \in S : \A y \in S : x <= y

\* The length of the shortest way from each node to an exit along neighbour
\* tables, using at most k links; METRIC_T_MAX if there is none.
WithinLinks[k \in Nat] ==
  IF k = 0
  THEN [n \in Node |-> IF n \in ExitNodes THEN 0 ELSE METRIC_T_MAX]
  ELSE LET fewer == WithinLinks[k - 1]
       IN  [n \in Node |->
              MinOf({fewer[n]} \cup
                    {fewer[m] + Distance[<<m, n>>] : m \in ToSet(Table[n])})]

Shortest == WithinLinks[Cardinality(Node)]

\* Nothing a running node has yet to handle.
Quiet == \A m, n \in Node : Running(n) => net[<<m, n>>] = << >>

Peers(m, n) == m \in Addrs(np[n].ns) /\ n \in Addrs(np[m].ns)

\* Whoever has announced a path is at its distance, which a node information
\* that was given up never told.
DistancesKnown ==
  \A n \in Node : \A i \in DOMAIN np[n].ns :
    LET node == np[n].ns[i]
    IN  node.bp.metric # METRIC_T_MAX => node.distance = Distance[<<node.addr, n>>]

\* What a node believes of a neighbour is never better than the way the
\* neighbour has, "to nearest exit from neighbor" (neighbor_node.h:16), whatever
\* packets were lost, as long as all distances are known.
NeverTooGood ==
  DistancesKnown => \A n \in Node : \A i \in DOMAIN np[n].ns :
    np[n].ns[i].bp.metric >= Shortest[np[n].ns[i].addr]

\* When nothing is on its way and nothing was lost, every node knows the path
\* its neighbour has: changes of a path are announced ("Broadcast changes",
\* main_reg_sensor.c:490).  Of a burning neighbour it may know the path that an
\* earlier reading of the fire made, for main_reg_sensor.c:1183-1188 stores a
\* new reading and announces nothing.
AnnouncedIsCurrent ==
  Quiet /\ losses = 0 => \A m, n \in Node :
    (Running(m) /\ Running(n) /\ Peers(m, n) /\ np[m].bpn # NoNode) =>
      \E r \in Readings :
        /\ r > LIGHT_EMERGENCY_THRESHOLD
        /\ np[n].ns[Position(np[n].ns, m)].bp
             = OurPath([np[m] EXCEPT !.sensors_metric = r], m)

\* When nothing is on its way and nothing was lost, every node's best path
\* neighbour is one it would choose now.
ChosenIsBest ==
  Quiet /\ losses = 0 => \A n \in Node :
    (Running(n) /\ np[n].bpn # NoNode) =>
      \/ np[n].bpn = Best(np[n], n)
      \/ /\ np[n].bpn \in Node /\ Best(np[n], n) \in Node
         /\ Through(Target(np[n], n, np[n].bpn)) = Through(Target(np[n], n, Best(np[n], n)))

\* Where k best path neighbours in a row lead.
Follow[k \in Nat] ==
  IF k = 0
  THEN [n \in Node |-> n]
  ELSE LET before == Follow[k - 1]
       IN  [n \in Node |-> IF before[n] \in Node THEN np[before[n]].bpn ELSE before[n]]

\* When nothing is on its way, a circle of best path neighbours has a way out:
\* one of them has stopped, or knows another neighbour with a path.  Nodes
\* that lose their ways out one after the other do not keep each other for good,
\* but main_reg_sensor.c:484-490 lets two nodes that changed to each other at the
\* same time stay with that, although each knows of a third.
CirclesHaveAWayOut ==
  Quiet => \A n \in Node :
    LET last == Follow[Cardinality(Node)][n]
    IN  last \in Node => \E k \in 1..Cardinality(Node) :
          LET m == Follow[k][last]
          IN  ~Running(m) \/ Best(np[m], m) \in Node \ {np[m].bpn}

\* When nothing is on its way and all nodes run, following the best path
\* neighbours from a node that has one leads to an exit: the metric a neighbour
\* announces is that "to nearest exit from neighbor", neighbor_node.h:16.
LeadsOut ==
  Quiet /\ (\A n \in Node : Running(n)) =>
    \A n \in Node : np[n].bpn \in Node => Follow[Cardinality(Node)][n] = ExitNode

\* If nothing was lost, a node that senses fire and has a path is in the time
\* synchronisation (ASSERT, emergency_conn.c:946).
BurningIsSynched == losses = 0 => \A n \in Node : failed[n] # "timesynch"

\* A node stops for want of a best path neighbour (ASSERT, main_reg_sensor.c:263)
\* only if it had not told of itself yet, if no neighbour is left, or if the blink
\* timer fired between the removal of that neighbour and the choice of the next.
StopsForAReason ==
  \A n \in Node : failed[n] = "bpn" =>
    \/ ~np[n].has_sent_node_info
    \/ np[n].ns = << >>
    \/ np[n].bpn \in Removed(np[n].ns)

\* Before any fire or loss, and when nothing is on its way, every node knows how
\* far the nearest exit is, in whatever order the neighbours told it of theirs.
ShortestWhenQuiet ==
  (/\ Quiet
   /\ losses = 0
   /\ \A n \in NearSink : inits[n] # {}
   /\ \A n \in Node : Running(n) /\ changes[n] = 0) =>
    \A n \in Node : np[n].bpn # NoNode /\ OurPath(np[n], n).metric = Shortest[n]

=============================================================================
