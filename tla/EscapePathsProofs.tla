-------------------------- MODULE EscapePathsProofs --------------------------
(***************************************************************************)
(* Proofs about EscapePaths, for every network: the types, with metrics    *)
(* and hops within their width and bpn within the table; that a node that  *)
(* senses fire and has a path takes part in the time synchronisation as    *)
(* long as no reliable packet is given up (BurningIsSynched); and that who *)
(* has told of itself keeps a best path neighbour while it has any         *)
(* neighbour (ToldInv).                                                    *)
(***************************************************************************)
EXTENDS EscapePaths, SequenceLemmas

-----------------------------------------------------------------------------
(* Paths.                                                                  *)

\* A node's record whose bpn points at something that is there.
GoodRecords ==
  {c \in NodeProperties : c.bpn \in Addrs(c.ns) \cup {NoNode, MaxNode, ExitNode}}

LEMMA Remainder ==
  ASSUME NEW a \in Nat, NEW k \in Nat, k > 0
  PROVE  a % k \in Nat /\ a % k < k
OBVIOUS

\* The numbers in their types.
LEMMA MetricsTyped ==
  /\ METRIC_T_MAX \in Nat /\ Metrics \subseteq Nat
  /\ 0 \in Metrics /\ METRIC_T_MAX \in Metrics
<1>1. METRIC_T_MAX \in Nat
  BY DEF METRIC_T_MAX
<1> QED BY <1>1 DEF Metrics

LEMMA ReadingsTyped == Readings \subseteq Metrics
<1>1. METRIC_T_MAX \in Nat /\ METRIC_T_MAX >= 4095
  BY DEF METRIC_T_MAX
<1>2. Readings \subseteq 0..4095
  BY EscapePathsAssumption
<1> SUFFICES ASSUME NEW r \in Readings PROVE r \in Metrics
  OBVIOUS
<1>3. r \in 0..4095
  BY <1>2
<1>4. r \in 0..METRIC_T_MAX
  BY <1>1, <1>3
<1> QED BY <1>4 DEF Metrics

LEMMA AsMetricTyped == ASSUME NEW a \in Nat PROVE AsMetric(a) \in Metrics
<1>1. PICK M \in Nat : M = METRIC_T_MAX
  BY MetricsTyped
<1>2. PICK k \in Nat : k = M + 1 /\ k > 0
  OBVIOUS
<1>3. PICK r \in Nat : r = a % k /\ r < k
  BY <1>2, Remainder
<1>4. AsMetric(a) = r
  BY <1>1, <1>2, <1>3, Zenon DEF AsMetric
<1>5. r \in 0..M
  BY <1>2, <1>3
<1> QED BY <1>1, <1>4, <1>5, Zenon DEF Metrics

\* The fields of the records.
LEMMA PathFields ==
  ASSUME NEW p \in BestPath
  PROVE  p.metric \in Metrics /\ p.metric \in Nat /\ p.hops \in Nat
<1>1. p.metric \in Metrics /\ p.hops \in 0..255
  BY DEF BestPath
<1>2. p.hops \in Nat
  BY <1>1
<1>3. p.metric \in Nat
  BY <1>1, MetricsTyped
<1> QED BY <1>1, <1>2, <1>3

LEMMA NeighborFields ==
  ASSUME NEW e \in NeighborNodes
  PROVE  /\ e.addr \in Node /\ e.distance \in Metrics /\ e.distance \in Nat
         /\ e.bp \in BestPath /\ e.has_sent_keep_alive \in BOOLEAN
<1>1. /\ e.addr \in Node /\ e.distance \in Metrics
      /\ e.bp \in BestPath /\ e.has_sent_keep_alive \in BOOLEAN
  BY DEF NeighborNodes
<1> QED BY <1>1, MetricsTyped

LEMMA RecordFields ==
  ASSUME NEW c \in NodeProperties
  PROVE  /\ c.ns \in Seq(NeighborNodes)
         /\ c.bpn \in Node \cup {NoNode, MaxNode, ExitNode}
         /\ c.sensors_metric \in Nat
<1>1. /\ c.ns \in Seq(NeighborNodes)
      /\ c.bpn \in Node \cup {NoNode, MaxNode, ExitNode}
      /\ c.sensors_metric \in Metrics
  BY DEF NodeProperties
<1> QED BY <1>1, MetricsTyped

LEMMA PositionFound ==
  ASSUME NEW ns \in Seq(NeighborNodes), NEW m \in Addrs(ns)
  PROVE  /\ Position(ns, m) \in DOMAIN ns /\ ns[Position(ns, m)].addr = m
         /\ ns[Position(ns, m)] \in NeighborNodes
<1>1. \E i \in DOMAIN ns : ns[i].addr = m
  BY DEF Addrs
<1>2. Position(ns, m) \in DOMAIN ns /\ ns[Position(ns, m)].addr = m
  BY <1>1 DEF Position
<1> QED BY <1>2, ElementOfSeq

LEMMA AddrsTyped ==
  ASSUME NEW ns \in Seq(NeighborNodes) PROVE Addrs(ns) \subseteq Node
<1> SUFFICES ASSUME NEW m \in Addrs(ns) PROVE m \in Node
  OBVIOUS
<1>1. PICK e \in NeighborNodes : e.addr = m
  BY PositionFound
<1> QED BY <1>1 DEF NeighborNodes

\* The best neighbour is in the table, or there is none.
LEMMA BestFound ==
  ASSUME NEW n \in Node, NEW c \in NodeProperties
  PROVE  Best(c, n) \in Addrs(c.ns) \cup {MaxNode, ExitNode}
<1> DEFINE ns == c.ns
           usable == {i \in DOMAIN ns : Usable(n, ns[i])}
           least  == {i \in usable : \A j \in usable : Through(ns[i]) <= Through(ns[j])}
<1>1. ns \in Seq(NeighborNodes) /\ DOMAIN ns = 1..Len(ns) /\ Len(ns) \in Nat
  BY LenProperties DEF NodeProperties
<1>2. \A i \in DOMAIN ns : Through(ns[i]) \in Nat
  <2> SUFFICES ASSUME NEW i \in DOMAIN ns PROVE Through(ns[i]) \in Nat
    OBVIOUS
  <2>1. ns[i] \in NeighborNodes
    BY <1>1, ElementOfSeq
  <2>2. ns[i].distance \in Nat /\ ns[i].bp.metric \in Nat
    BY <2>1, NeighborFields, PathFields
  <2>3. PICK a \in Nat : a = ns[i].distance + ns[i].bp.metric
    BY <2>2
  <2>4. AsMetric(a) \in Nat
    BY AsMetricTyped, MetricsTyped
  <2> QED BY <2>3, <2>4, Zenon DEF Through
<1>3. CASE usable # {}
  <2> DEFINE S == {Through(ns[i]) : i \in usable}
  <2>0. S \subseteq Nat /\ S # {}
    BY <1>2, <1>3
  <2>1. PICK T \in SUBSET Nat : T = S /\ T # {}
    BY <2>0
  <2>2. PICK x \in T : \A y \in T : x <= y
    BY <2>1, LeastNatural
  <2>3. least # {}
    BY <2>1, <2>2
  <2>4. least \in SUBSET Nat
    BY <1>1
  <2>5. PICK i \in least : \A j \in least : i <= j
    BY <2>3, <2>4, LeastNatural
  <2>6. PICK k \in least : k = CHOOSE a \in least : \A j \in least : a <= j
    BY <2>5
  <2>7. Best(c, n) = ExitNode \/ Best(c, n) = ns[k].addr
    BY <1>3, <2>6, Zenon DEF Best
  <2>8. k \in DOMAIN ns
    BY <2>6
  <2> QED BY <2>7, <2>8 DEF Addrs
<1>4. CASE usable = {}
  BY <1>4 DEF Best
<1> QED BY <1>3, <1>4

LEMMA TakeBestGood ==
  ASSUME NEW n \in Node, NEW c \in NodeProperties
  PROVE  /\ TakeBest(c, n) \in GoodRecords
         /\ TakeBest(c, n).bpn \in Addrs(c.ns) \cup {MaxNode, ExitNode}
         /\ TakeBest(c, n).ns = c.ns /\ (TakeBest(c, n).timesynch <=> c.timesynch)
<1>1. PICK b \in Addrs(c.ns) \cup {MaxNode, ExitNode} : b = Best(c, n)
  BY BestFound
<1>2. c.ns \in Seq(NeighborNodes)
  BY DEF NodeProperties
<1>3. b \in Node \cup {NoNode, MaxNode, ExitNode}
  BY <1>1, <1>2, AddrsTyped
<1>4. TakeBest(c, n) = [c EXCEPT !.bpn = b]
  BY <1>1 DEF TakeBest
<1> QED BY <1>1, <1>3, <1>4 DEF GoodRecords, NodeProperties

LEMMA TargetTyped ==
  ASSUME NEW n \in Node, NEW c \in NodeProperties, NEW b \in Addrs(c.ns) \cup {MaxNode, ExitNode}
  PROVE  /\ Target(c, n, b).addr \in Node \cup {NoNode}
         /\ Target(c, n, b).distance \in Nat
         /\ Target(c, n, b).bp \in BestPath
<1>1. CASE b = MaxNode
  <2>0. b # ExitNode
    BY <1>1, EscapePathsAssumption
  <2>1. Target(c, n, b) = [addr |-> NoNode, distance |-> 0,
                           bp |-> neighbor_node_best_path_max]
    BY <1>1, <2>0 DEF Target
  <2>2. neighbor_node_best_path_max \in BestPath
    BY MetricsTyped DEF neighbor_node_best_path_max, BestPath
  <2> QED BY <2>1, <2>2
<1>2. CASE b = ExitNode /\ b # MaxNode
  <2>1. Target(c, n, b) = [addr |-> n, distance |-> 0, bp |-> ExitPath(n)]
    BY <1>2, Zenon DEF Target
  <2>2. ExitPath(n) \in BestPath
    BY MetricsTyped DEF ExitPath, BestPath
  <2> QED BY <2>1, <2>2
<1>3. CASE b # MaxNode /\ b # ExitNode
  <2>1. Target(c, n, b) = c.ns[Position(c.ns, b)]
    BY <1>3, Zenon DEF Target
  <2>2. c.ns \in Seq(NeighborNodes) /\ b \in Addrs(c.ns)
    BY <1>3 DEF NodeProperties
  <2>3. c.ns[Position(c.ns, b)] \in NeighborNodes
    BY <2>2, PositionFound
  <2>4. PICK e \in NeighborNodes : e = Target(c, n, b)
    BY <2>1, <2>3
  <2> QED BY <2>4, NeighborFields
<1> QED BY <1>1, <1>2, <1>3

\* The path that is announced is of its type, whatever wraps around.
LEMMA OurPathTyped ==
  ASSUME NEW n \in Node, NEW c \in GoodRecords, c.bpn # NoNode
  PROVE  OurPath(c, n) \in BestPath
<1> DEFINE best == Target(c, n, c.bpn)
<1>1. c \in NodeProperties /\ c.bpn \in Addrs(c.ns) \cup {MaxNode, ExitNode}
  BY DEF GoodRecords
<1>2. best.addr \in Node \cup {NoNode} /\ best.distance \in Nat /\ best.bp \in BestPath
  BY <1>1, TargetTyped
<1>3. PICK a \in Nat : a = best.bp.metric + Weigh(c, best.distance)
  <2>1. best.bp.metric \in Nat /\ c.sensors_metric \in Nat
    BY <1>1, <1>2, PathFields, RecordFields
  <2>2. PICK s \in Nat : s = 1000 + c.sensors_metric
    BY <2>1
  <2>3. Weigh(c, best.distance) \in Nat
    BY <1>2, <2>1, <2>2 DEF Weigh
  <2> QED BY <2>1, <2>3
<1>4. PICK h \in Nat : h = best.bp.hops + 1
  BY <1>2, PathFields
<1>6. AsMetric(a) \in Metrics
  BY AsMetricTyped
<1>7. h % 256 \in 0..255
  <2>1. PICK r \in Nat : r = h % 256 /\ r < 256
    BY Remainder
  <2> QED BY <2>1
<1> DEFINE bp == [metric |-> AsMetric(a), points_to |-> best.addr, hops |-> h % 256]
<1>8. OurPath(c, n) = bp
  BY <1>3, <1>4, Zenon DEF OurPath
<1> HIDE DEF best
<1>9. bp \in BestPath
  BY <1>2, <1>6, <1>7 DEF BestPath
<1> QED BY <1>8, <1>9

LEMMA AnnouncementTyped ==
  ASSUME NEW n \in Node, NEW c \in GoodRecords, c.bpn # NoNode,
         NEW type \in {NODE_INFO_PACKET, BEST_PATH_UPDATE_PACKET}
  PROVE  Announcement(c, n, type) \in Message /\ Announcement(c, n, type).type = type
<1>1. PICK bp \in BestPath : bp = OurPath(c, n)
  BY OurPathTyped
<1>2. Announcement(c, n, type) = [type |-> type, bp |-> bp]
  BY <1>1 DEF Announcement
<1> QED BY <1>2 DEF Message
-----------------------------------------------------------------------------
(* Neighbour tables.                                                       *)

\* A table that changed at its place i, where the same neighbour stays.
LEMMA EntryChanged ==
  ASSUME NEW ns \in Seq(NeighborNodes), NEW i \in DOMAIN ns,
         NEW e \in NeighborNodes, e.addr = ns[i].addr
  PROVE  /\ [ns EXCEPT ![i] = e] \in Seq(NeighborNodes)
         /\ Addrs([ns EXCEPT ![i] = e]) = Addrs(ns)
<1> DEFINE r == [ns EXCEPT ![i] = e]
<1>1. DOMAIN r = DOMAIN ns /\ \A j \in DOMAIN ns : r[j].addr = ns[j].addr
  OBVIOUS
<1>2. Addrs(r) = Addrs(ns)
  BY <1>1 DEF Addrs
<1> QED BY <1>2, ExceptSeq

\* A table in which only the other fields changed.
LEMMA EntriesChanged ==
  ASSUME NEW ns \in Seq(NeighborNodes), NEW new \in [DOMAIN ns -> NeighborNodes],
         \A i \in DOMAIN ns : new[i].addr = ns[i].addr
  PROVE  new \in Seq(NeighborNodes) /\ Addrs(new) = Addrs(ns)
<1>1. DOMAIN ns = 1..Len(ns) /\ Len(ns) \in Nat
  BY LenProperties
<1>2. new \in Seq(NeighborNodes)
  BY <1>1, SeqDef
<1> QED BY <1>2 DEF Addrs

\* What a keep-alive check leaves of a table is a part of it.
LEMMA SurvivorsTyped ==
  ASSUME NEW ns \in Seq(NeighborNodes)
  PROVE  /\ Survivors(ns) \in Seq(NeighborNodes)
         /\ Addrs(Survivors(ns)) \subseteq Addrs(ns)
<1> DEFINE place(M, k) == CHOOSE i \in M : Cardinality({j \in M : j <= i}) = k
<1>1. DOMAIN ns = 1..Len(ns) /\ Len(ns) \in Nat
  BY LenProperties
<1>2. PICK kept \in SUBSET (1..Len(ns)) : kept = Kept(ns)
  BY <1>1 DEF Kept
<1>3. PICK k, f : Enumerates(f, k, kept)
  BY <1>1, EnumerationExists
<1>0. kept \in SUBSET Nat
  BY <1>1
<1>4. k \in Nat /\ Cardinality(kept) = k
  <2>1. k \in Nat
    BY <1>3 DEF Enumerates
  <2> QED BY <2>1, <1>0, <1>3, EnumeratesCardinality
<1>5. ASSUME NEW a \in 1..k
      PROVE  place(kept, a) \in kept
  <2>1. PICK i \in kept : i = f[a]
    BY <1>3 DEF Enumerates
  <2> DEFINE below == {j \in kept : j <= i}
             g == [b \in 1..a |-> f[b]]
  <2>2. Enumerates(g, a, below)
    <3>1. a \in Nat /\ i \in Nat
      BY <1>4
    <3>2. \A b \in 1..k : f[b] \in kept /\ f[b] \in Nat
      BY <1>0, <1>3 DEF Enumerates
    <3>3. \A b \in 1..a : b \in 1..k /\ f[b] \in below
      <4> SUFFICES ASSUME NEW b \in 1..a PROVE b \in 1..k /\ f[b] \in below
        OBVIOUS
      <4>1. b \in 1..k /\ (b < a \/ b = a)
        BY <1>4
      <4>2. f[b] <= i
        BY <1>3, <2>1, <3>2, <4>1 DEF Enumerates
      <4> QED BY <3>2, <4>1, <4>2
    <3>4. \A b, c \in 1..a : b < c => g[b] < g[c]
      BY <1>3, <3>3 DEF Enumerates
    <3>5. ASSUME NEW m \in below PROVE \E b \in 1..a : g[b] = m
      <4>1. PICK b \in 1..k : f[b] = m
        BY <1>3 DEF Enumerates
      <4>2. ~(a < b)
        BY <1>3, <2>1, <3>1, <3>2, <4>1 DEF Enumerates
      <4>3. b \in 1..a
        BY <1>4, <4>2
      <4> QED BY <4>1, <4>3
    <3> QED BY <3>1, <3>3, <3>4, <3>5 DEF Enumerates
  <2>3. below \in SUBSET Nat
    BY <1>0
  <2>4. Cardinality(below) = a
    BY <2>2, <2>3, EnumeratesCardinality
  <2> HIDE DEF g
  <2> QED BY <2>4
<1> DEFINE new == [a \in 1..k |-> ns[place(kept, a)]]
<1>6. Survivors(ns) = new
  <2>1. Survivors(ns) = [a \in 1..Cardinality(kept) |-> ns[place(kept, a)]]
    BY <1>2 DEF Survivors
  <2> QED BY <1>4, <2>1
<1> HIDE DEF place
<1>7. \A a \in 1..k : place(kept, a) \in DOMAIN ns
  BY <1>1, <1>5
<1>8. new \in Seq(NeighborNodes)
  <2>1. \A a \in 1..k : ns[place(kept, a)] \in NeighborNodes
    BY <1>7, ElementOfSeq, <1>1
  <2>2. new \in [1..k -> NeighborNodes]
    BY <2>1
  <2> QED BY <1>4, <2>2, SeqDef
<1>9. Addrs(new) \subseteq Addrs(ns)
  BY <1>7 DEF Addrs
<1> QED BY <1>6, <1>8, <1>9
-----------------------------------------------------------------------------
(* Records.                                                                *)

\* What a handler makes of a record b: no neighbour is new, and a node that
\* takes part in the time synchronisation goes on doing so.
Descends(b, c) ==
  /\ c \in GoodRecords
  /\ Addrs(c.ns) \subseteq Addrs(b.ns)
  /\ b.timesynch => c.timesynch

LEMMA DescendsOn ==
  ASSUME NEW a \in GoodRecords, NEW b, NEW c, Descends(a, b), Descends(b, c)
  PROVE  Descends(a, c)
BY DEF Descends

LEMMA GoodIsTyped ==
  ASSUME NEW c \in GoodRecords
  PROVE  /\ c \in NodeProperties /\ c.ns \in Seq(NeighborNodes)
         /\ c.bpn \in Addrs(c.ns) \cup {NoNode, MaxNode, ExitNode}
         /\ Addrs(c.ns) \subseteq Node
<1>1. /\ c \in NodeProperties
      /\ c.bpn \in Addrs(c.ns) \cup {NoNode, MaxNode, ExitNode}
  BY DEF GoodRecords
<1>2. c.ns \in Seq(NeighborNodes)
  BY <1>1, RecordFields
<1> QED BY <1>1, <1>2, AddrsTyped

LEMMA TakeBestDescends ==
  ASSUME NEW n \in Node, NEW b \in GoodRecords, NEW c \in NodeProperties,
         Addrs(c.ns) \subseteq Addrs(b.ns), b.timesynch => c.timesynch
  PROVE  Descends(b, TakeBest(c, n)) /\ TakeBest(c, n).bpn # NoNode
<1>1. PICK d \in GoodRecords :
         /\ d = TakeBest(c, n) /\ d.bpn \in Addrs(c.ns) \cup {MaxNode, ExitNode}
         /\ d.ns = c.ns /\ (d.timesynch <=> c.timesynch)
  BY TakeBestGood
<1>2. Descends(b, d)
  BY <1>1 DEF Descends
<1>3. NoNode \notin Addrs(c.ns) \cup {MaxNode, ExitNode}
  BY GoodIsTyped, EscapePathsAssumption
<1> QED BY <1>1, <1>2, <1>3

LEMMA BestDescends ==
  ASSUME NEW n \in Node, NEW b \in GoodRecords, NEW c \in GoodRecords, Descends(b, c)
  PROVE  \E t \in GoodRecords :
           t = TakeBest(c, n) /\ Descends(b, t) /\ t.bpn # NoNode
<1>1. /\ c \in NodeProperties /\ Addrs(c.ns) \subseteq Addrs(b.ns)
      /\ b.timesynch => c.timesynch
  BY GoodIsTyped DEF Descends
<1>2. Descends(b, TakeBest(c, n)) /\ TakeBest(c, n).bpn # NoNode
  BY <1>1, TakeBestDescends
<1>3. TakeBest(c, n) \in GoodRecords
  BY <1>2 DEF Descends
<1> QED BY <1>2, <1>3

LEMMA TableChanged ==
  ASSUME NEW c \in GoodRecords, NEW t \in Seq(NeighborNodes), Addrs(t) = Addrs(c.ns)
  PROVE  Descends(c, [c EXCEPT !.ns = t])
<1>1. c \in NodeProperties /\ c.bpn \in Addrs(c.ns) \cup {NoNode, MaxNode, ExitNode}
  BY DEF GoodRecords
<1> DEFINE d == [c EXCEPT !.ns = t]
<1>2. d \in NodeProperties
  BY <1>1 DEF NodeProperties
<1>3. d.ns = t /\ d.bpn = c.bpn /\ (c.timesynch <=> d.timesynch)
  BY <1>1 DEF NodeProperties
<1> HIDE DEF d
<1>4. d \in GoodRecords
  BY <1>1, <1>2, <1>3 DEF GoodRecords
<1>5. Descends(c, d)
  BY <1>3, <1>4 DEF Descends
<1> QED BY <1>5 DEF d

\* The entry of the sender is updated with what a packet says.
LEMMA EntryOfRecord ==
  ASSUME NEW c \in GoodRecords, NEW i \in DOMAIN c.ns, NEW e \in NeighborNodes,
         e.addr = c.ns[i].addr
  PROVE  Descends(c, [c EXCEPT !.ns = [c.ns EXCEPT ![i] = e]])
<1>1. PICK t \in Seq(NeighborNodes) :
         t = [c.ns EXCEPT ![i] = e] /\ Addrs(t) = Addrs(c.ns)
  BY EntryChanged, GoodIsTyped
<1> QED BY <1>1, TableChanged

LEMMA HeardDescends ==
  ASSUME NEW c \in GoodRecords, NEW i \in DOMAIN c.ns,
         NEW d \in Metrics, NEW b \in BestPath, NEW yes \in BOOLEAN
  PROVE  /\ Descends(c, [c EXCEPT !.ns[i].distance = d, !.ns[i].bp = b])
         /\ Descends(c, [c EXCEPT !.ns[i].bp = b])
         /\ Descends(c, [c EXCEPT !.ns[i].has_sent_keep_alive = yes])
<1>0. c \in NodeProperties /\ c.ns \in Seq(NeighborNodes)
  BY GoodIsTyped
<1>1. PICK e \in NeighborNodes : e = c.ns[i]
  BY <1>0, LenProperties, ElementOfSeq
<1> DEFINE x == [e EXCEPT !.distance = d, !.bp = b]
           y == [e EXCEPT !.bp = b]
           z == [e EXCEPT !.has_sent_keep_alive = yes]
<1>2. /\ x \in NeighborNodes /\ x.addr = e.addr
      /\ y \in NeighborNodes /\ y.addr = e.addr
      /\ z \in NeighborNodes /\ z.addr = e.addr
  BY DEF NeighborNodes
<1>3. /\ [c EXCEPT !.ns[i].distance = d, !.ns[i].bp = b]
           = [c EXCEPT !.ns = [c.ns EXCEPT ![i] = x]]
      /\ [c EXCEPT !.ns[i].bp = b] = [c EXCEPT !.ns = [c.ns EXCEPT ![i] = y]]
      /\ [c EXCEPT !.ns[i].has_sent_keep_alive = yes]
           = [c EXCEPT !.ns = [c.ns EXCEPT ![i] = z]]
  BY <1>0, <1>1 DEF NodeProperties
<1> HIDE DEF x, y, z
<1>4. /\ Descends(c, [c EXCEPT !.ns = [c.ns EXCEPT ![i] = x]])
      /\ Descends(c, [c EXCEPT !.ns = [c.ns EXCEPT ![i] = y]])
      /\ Descends(c, [c EXCEPT !.ns = [c.ns EXCEPT ![i] = z]])
  BY <1>1, <1>2, EntryOfRecord
<1> QED BY <1>3, <1>4

\* The flags are set and cleared.
LEMMA FlagsDescend ==
  ASSUME NEW c \in GoodRecords, NEW r \in Metrics, NEW p \in BOOLEAN, NEW q \in BOOLEAN
  PROVE  /\ Descends(c, c)
         /\ Descends(c, [c EXCEPT !.has_sent_node_info = p])
         /\ Descends(c, [c EXCEPT !.is_blinking = p])
         /\ Descends(c, [c EXCEPT !.sensors_metric = r])
         /\ Descends(c, [c EXCEPT !.sensors_metric = r, !.is_burning = p])
         /\ Descends(c, [c EXCEPT !.is_burning = p, !.is_blinking = q])
         /\ p => Descends(c, [c EXCEPT !.timesynch = p])
<1>1. c \in NodeProperties /\ c.bpn \in Addrs(c.ns) \cup {NoNode, MaxNode, ExitNode}
  BY DEF GoodRecords
<1>2. ASSUME NEW d \in NodeProperties, d.ns = c.ns, d.bpn = c.bpn,
             c.timesynch => d.timesynch
      PROVE  Descends(c, d)
  BY <1>1, <1>2 DEF Descends, GoodRecords
<1> DEFINE d1 == [c EXCEPT !.has_sent_node_info = p]
           d2 == [c EXCEPT !.is_blinking = p]
           d3 == [c EXCEPT !.sensors_metric = r]
           d4 == [c EXCEPT !.sensors_metric = r, !.is_burning = p]
           d5 == [c EXCEPT !.is_burning = p, !.is_blinking = q]
           d6 == [c EXCEPT !.timesynch = p]
<1>3. /\ d1 \in NodeProperties /\ d2 \in NodeProperties /\ d3 \in NodeProperties
      /\ d4 \in NodeProperties /\ d5 \in NodeProperties /\ d6 \in NodeProperties
  BY <1>1 DEF NodeProperties
<1>4. /\ d1.ns = c.ns /\ d1.bpn = c.bpn /\ (c.timesynch <=> d1.timesynch)
      /\ d2.ns = c.ns /\ d2.bpn = c.bpn /\ (c.timesynch <=> d2.timesynch)
      /\ d3.ns = c.ns /\ d3.bpn = c.bpn /\ (c.timesynch <=> d3.timesynch)
  BY <1>1 DEF NodeProperties
<1>5. /\ d4.ns = c.ns /\ d4.bpn = c.bpn /\ (c.timesynch <=> d4.timesynch)
      /\ d5.ns = c.ns /\ d5.bpn = c.bpn /\ (c.timesynch <=> d5.timesynch)
      /\ d6.ns = c.ns /\ d6.bpn = c.bpn /\ (p => d6.timesynch)
  BY <1>1 DEF NodeProperties
<1> HIDE DEF d1, d2, d3, d4, d5, d6
<1>6. Descends(c, d1) /\ Descends(c, d2) /\ Descends(c, d3)
  BY <1>2, <1>3, <1>4
<1>7. Descends(c, d4) /\ Descends(c, d5) /\ (p => Descends(c, d6))
  BY <1>2, <1>3, <1>5
<1>8. Descends(c, c)
  BY <1>1, <1>2
<1> QED BY <1>6, <1>7, <1>8 DEF d1, d2, d3, d4, d5, d6
-----------------------------------------------------------------------------
(* Types.                                                                  *)

Failures == {"power", "bpn", "timesynch", "has_sent_node_info"}
Outcomes == {"none"} \cup Failures

Queues == [Node \X Node -> Seq(Message)]

EnvTyped ==
  /\ inits \in [Node -> SUBSET (1..MaxInits)]
  /\ alarms \subseteq Node
  /\ changes \in [Node -> 0..MaxChanges]
  /\ checks \in [Node -> Nat] /\ \A n \in Node : checks[n] <= MaxChecks[n]
  /\ losses \in 0..MaxLosses

Typed ==
  /\ np \in [Node -> GoodRecords]
  /\ failed \in [Node -> Outcomes]
  /\ net \in Queues
  /\ EnvTyped

LEMMA TypedIsTypeOK == TypeOK <=> Typed
<1>1. ASSUME TypeOK PROVE Typed
  <2>1. np \in [Node -> NodeProperties]
    BY <1>1 DEF TypeOK
  <2>2. \A n \in Node : np[n] \in GoodRecords
    BY <1>1, <2>1 DEF TypeOK, GoodRecords
  <2>3. np \in [Node -> GoodRecords]
    BY <2>1, <2>2
  <2> QED BY <1>1, <2>3 DEF TypeOK, Typed, EnvTyped, Queues, Outcomes, Failures
<1>2. ASSUME Typed PROVE TypeOK
  <2>1. np \in [Node -> GoodRecords]
    BY <1>2 DEF Typed
  <2>2. /\ np \in [Node -> NodeProperties]
        /\ \A n \in Node : np[n].bpn \in Addrs(np[n].ns) \cup {NoNode, MaxNode, ExitNode}
    BY <2>1 DEF GoodRecords
  <2> QED BY <1>2, <2>2 DEF TypeOK, Typed, EnvTyped, Queues, Outcomes, Failures
<1> QED BY <1>1, <1>2

\* The packets that a step of n may have taken from the queues.
Taken(n, queues) ==
  /\ queues \in Queues
  /\ \A a, b \in Node :
       (b # n \/ net[<<a, b>>] = << >>) => queues[<<a, b>>] = net[<<a, b>>]

\* What every handler of n does, with a record that descends from that of n.
\* The ASSERT about the time synchronisation fails only outside it.
Handled(n, queues) ==
  \/ \E c \in GoodRecords, out \in Seq(Message) :
       Descends(np[n], c) /\ Finish(n, queues, c, out)
  \/ \E assert \in Failures :
       (assert = "timesynch" => ~np[n].timesynch) /\ Fail(n, queues, assert)

LEMMA RestTaken ==
  ASSUME Typed, NEW m \in Node, NEW n \in Node, net[<<m, n>>] # << >>
  PROVE  /\ Taken(n, Rest(m, n)) /\ Rest(m, n) \in Queues
         /\ Head(net[<<m, n>>]) \in Message
<1>1. net \in Queues /\ net[<<m, n>>] \in Seq(Message)
  BY DEF Typed, Queues
<1>2. PICK t \in Seq(Message) : t = Tail(net[<<m, n>>])
  BY <1>1, HeadTailProperties
<1>3. Head(net[<<m, n>>]) \in Message
  BY <1>1, HeadTailProperties
<1>4. Rest(m, n) = [net EXCEPT ![<<m, n>>] = t]
  BY <1>2 DEF Rest
<1>5. [net EXCEPT ![<<m, n>>] = t] \in Queues
  BY <1>1 DEF Queues
<1>6. \A a, b \in Node : (b # n \/ net[<<a, b>>] = << >>) =>
         [net EXCEPT ![<<m, n>>] = t][<<a, b>>] = net[<<a, b>>]
  BY <1>1 DEF Queues
<1> QED BY <1>3, <1>4, <1>5, <1>6 DEF Taken

LEMMA NetTaken == ASSUME Typed, NEW n \in Node PROVE Taken(n, net)
BY DEF Typed, Taken

\* A handler leaves records, outcomes and queues of their types.
LEMMA HandledTyped ==
  ASSUME Typed, NEW n \in Node, NEW queues \in Queues, Handled(n, queues)
  PROVE  /\ np' \in [Node -> GoodRecords]
         /\ failed' \in [Node -> Outcomes]
         /\ net' \in Queues
<1>0. np \in [Node -> GoodRecords] /\ failed \in [Node -> Outcomes]
  BY DEF Typed
<1>1. ASSUME NEW c \in GoodRecords, NEW out \in Seq(Message), Finish(n, queues, c, out)
      PROVE  /\ np' \in [Node -> GoodRecords] /\ failed' \in [Node -> Outcomes]
             /\ net' \in Queues
  <2>1. np' = [np EXCEPT ![n] = c] /\ failed' = failed /\ net' = Sent(queues, n, c, out)
    BY <1>1 DEF Finish
  <2>2. \A link \in Node \X Node : queues[link] \o out \in Seq(Message)
    BY ConcatProperties DEF Queues
  <2>3. Sent(queues, n, c, out) \in Queues
    BY <2>2 DEF Sent, Queues
  <2> QED BY <1>0, <2>1, <2>3
<1>2. ASSUME NEW assert \in Failures, Fail(n, queues, assert)
      PROVE  /\ np' \in [Node -> GoodRecords] /\ failed' \in [Node -> Outcomes]
             /\ net' \in Queues
  <2>1. /\ np' = np /\ failed' = [failed EXCEPT ![n] = assert]
        /\ net' = [link \in Node \X Node |->
                     IF n \in {link[1], link[2]} THEN << >> ELSE queues[link]]
    BY <1>2 DEF Fail
  <2>2. << >> \in Seq(Message)
    BY EmptySeq
  <2>3. net' \in Queues
    BY <2>1, <2>2 DEF Queues
  <2> QED BY <1>0, <2>1, <2>3 DEF Outcomes
<1> QED BY <1>1, <1>2 DEF Handled

LEMMA HandledIsTyped ==
  ASSUME Typed, NEW n \in Node, NEW queues, Taken(n, queues), Handled(n, queues),
         EnvTyped'
  PROVE  Typed'
<1>1. queues \in Queues
  BY DEF Taken
<1> QED BY <1>1, HandledTyped DEF Typed

LEMMA EnvStays == ASSUME Typed, UNCHANGED env PROVE EnvTyped'
BY DEF Typed, EnvTyped, env

\* Counting up to a bound.
LEMMA Counted ==
  ASSUME NEW N \in Nat, NEW f \in [Node -> 0..N], NEW n \in Node, f[n] < N
  PROVE  [f EXCEPT ![n] = @ + 1] \in [Node -> 0..N]
<1>1. f[n] + 1 \in 0..N
  OBVIOUS
<1> QED BY <1>1
-----------------------------------------------------------------------------
(* What the handlers make and send.                                        *)

LEMMA FlagsSet ==
  ASSUME NEW c \in GoodRecords, NEW r \in Metrics
  PROVE  /\ Descends(c, [c EXCEPT !.has_sent_node_info = TRUE])
         /\ Descends(c, [c EXCEPT !.is_blinking = TRUE])
         /\ Descends(c, [c EXCEPT !.sensors_metric = r, !.is_burning = FALSE])
         /\ Descends(c, [c EXCEPT !.is_burning = TRUE, !.is_blinking = TRUE])
         /\ Descends(c, [c EXCEPT !.timesynch = TRUE])
<1>1. PICK yes \in BOOLEAN, no \in BOOLEAN : yes = TRUE /\ no = FALSE
  BY Zenon
<1>2. /\ Descends(c, [c EXCEPT !.has_sent_node_info = yes])
      /\ Descends(c, [c EXCEPT !.is_blinking = yes])
      /\ Descends(c, [c EXCEPT !.sensors_metric = r, !.is_burning = no])
      /\ Descends(c, [c EXCEPT !.is_burning = yes, !.is_blinking = yes])
      /\ yes => Descends(c, [c EXCEPT !.timesynch = yes])
  BY FlagsDescend, Zenon
<1> QED BY <1>1, <1>2, Zenon

LEMMA PathStays ==
  ASSUME NEW c \in GoodRecords, NEW r
  PROVE  /\ [c EXCEPT !.has_sent_node_info = TRUE].bpn = c.bpn
         /\ [c EXCEPT !.sensors_metric = r].bpn = c.bpn
         /\ [c EXCEPT !.sensors_metric = r, !.is_burning = FALSE].bpn = c.bpn
         /\ [c EXCEPT !.is_burning = TRUE, !.is_blinking = TRUE].bpn = c.bpn
<1>1. c \in NodeProperties
  BY GoodIsTyped
<1>2. PICK yes, no : yes = TRUE /\ no = FALSE
  BY Zenon
<1>3. /\ [c EXCEPT !.has_sent_node_info = yes].bpn = c.bpn
      /\ [c EXCEPT !.sensors_metric = r].bpn = c.bpn
      /\ [c EXCEPT !.sensors_metric = r, !.is_burning = no].bpn = c.bpn
      /\ [c EXCEPT !.is_burning = yes, !.is_blinking = yes].bpn = c.bpn
  BY <1>1 DEF NodeProperties
<1> QED BY <1>2, <1>3, Zenon

LEMMA Joined ==
  ASSUME NEW c \in GoodRecords
  PROVE  /\ [c EXCEPT !.timesynch = TRUE].timesynch
         /\ [c EXCEPT !.timesynch = TRUE].has_sent_node_info <=> c.has_sent_node_info
<1>1. c \in NodeProperties
  BY GoodIsTyped
<1>2. PICK yes \in BOOLEAN : yes = TRUE
  BY Zenon
<1>3. /\ yes => [c EXCEPT !.timesynch = yes].timesynch
      /\ [c EXCEPT !.timesynch = yes].has_sent_node_info <=> c.has_sent_node_info
  BY <1>1 DEF NodeProperties
<1> QED BY <1>2, <1>3, Zenon

LEMMA MessageFields ==
  ASSUME NEW p \in Message
  PROVE  /\ p.type = NODE_INFO_PACKET => p.bp \in BestPath
         /\ p.type = BEST_PATH_UPDATE_PACKET => p.bp \in BestPath
         /\ p.type = INITIALIZE_BEST_PATHS_PACKET => p.seqno \in 1..MaxInits
<1>1. /\ p.type = NODE_INFO_PACKET => p.bp \in BestPath
      /\ p.type = BEST_PATH_UPDATE_PACKET => p.bp \in BestPath
  BY DEF Message, NODE_INFO_PACKET, BEST_PATH_UPDATE_PACKET, KEEP_ALIVE_NEIGHBOR,
         INITIALIZE_BEST_PATHS_PACKET
<1>2. p.type = INITIALIZE_BEST_PATHS_PACKET => p.seqno \in 1..MaxInits
  BY DEF Message, NODE_INFO_PACKET, BEST_PATH_UPDATE_PACKET, KEEP_ALIVE_NEIGHBOR,
         INITIALIZE_BEST_PATHS_PACKET
<1> QED BY <1>1, <1>2

LEMMA MessagesMade ==
  /\ [type |-> KEEP_ALIVE_NEIGHBOR] \in Message
  /\ \A seqno \in 1..MaxInits :
       [type |-> INITIALIZE_BEST_PATHS_PACKET, seqno |-> seqno] \in Message
BY DEF Message

LEMMA Packets ==
  ASSUME NEW x \in Message, NEW y \in Message
  PROVE  << >> \in Seq(Message) /\ <<x>> \in Seq(Message) /\ <<x, y>> \in Seq(Message)
<1>1. << >> \in Seq(Message) /\ <<x>> \in Seq(Message)
  OBVIOUS
<1>2. <<x, y>> \in Seq(Message)
  OBVIOUS
<1> QED BY <1>1, <1>2

\* A finished handler is one that was handled.
LEMMA Finished ==
  ASSUME NEW n, NEW queues, NEW c, NEW out \in Seq(Message),
         Descends(np[n], c), Finish(n, queues, c, out)
  PROVE  Handled(n, queues)
BY Zenon DEF Handled, Descends

LEMMA Failed ==
  ASSUME NEW n, NEW queues, NEW assert \in Failures, assert # "timesynch",
         Fail(n, queues, assert)
  PROVE  Handled(n, queues)
BY Zenon DEF Handled

LEMMA RecordOf == ASSUME Typed, NEW n \in Node PROVE np[n] \in GoodRecords
BY DEF Typed
-----------------------------------------------------------------------------
(* The handlers.                                                           *)

\* A node that hears INITIALIZE joins and passes it on before anything else.
LEMMA InitializeForwards ==
  ASSUME Typed, NEW n \in Node, NEW queues, NEW seqno \in 1..MaxInits,
         Initialize(n, queues, seqno)
  PROVE  \/ \E c \in GoodRecords, out \in Seq(Message) :
              /\ Descends(np[n], c) /\ Finish(n, queues, c, out)
              /\ c.timesynch /\ out # << >>
              /\ Head(out).type = INITIALIZE_BEST_PATHS_PACKET
         \/ np[n].has_sent_node_info /\ Fail(n, queues, "has_sent_node_info")
<1> DEFINE forward == [type |-> INITIALIZE_BEST_PATHS_PACKET, seqno |-> seqno]
           C == [np[n] EXCEPT !.timesynch = TRUE]
           D == [TakeBest(C, n) EXCEPT !.has_sent_node_info = TRUE]
<1>1. PICK b \in GoodRecords : b = np[n]
  BY RecordOf
<1>2. PICK c \in GoodRecords :
        /\ c = C /\ Descends(b, c) /\ c.timesynch
        /\ (c.has_sent_node_info <=> b.has_sent_node_info)
  <2>1. PICK c : c = [b EXCEPT !.timesynch = TRUE]
    OBVIOUS
  <2>2. Descends(b, c)
    BY <2>1, FlagsSet, MetricsTyped
  <2>3. c.timesynch /\ (c.has_sent_node_info <=> b.has_sent_node_info)
    BY <2>1, Joined
  <2>4. c = C
    BY <1>1, <2>1, Zenon
  <2> QED BY <2>2, <2>3, <2>4 DEF Descends
<1>3. PICK t \in GoodRecords : t = TakeBest(c, n) /\ Descends(c, t) /\ t.bpn # NoNode
  <2>1. Descends(c, c)
    BY DEF Descends
  <2> QED BY <2>1, BestDescends
<1>4. PICK d \in GoodRecords :
         /\ d = [t EXCEPT !.has_sent_node_info = TRUE]
         /\ Descends(b, d) /\ d.bpn # NoNode /\ d.timesynch
  <2>1. PICK d : d = [t EXCEPT !.has_sent_node_info = TRUE]
    OBVIOUS
  <2>2. Descends(t, d) /\ d.bpn # NoNode
    BY <1>3, <2>1, FlagsSet, PathStays, MetricsTyped
  <2>3. Descends(b, t)
    BY <1>2, <1>3, DescendsOn
  <2>4. Descends(b, d)
    BY <2>2, <2>3, DescendsOn
  <2>5. d.timesynch
    BY <1>2, <1>3, <2>2 DEF Descends
  <2> QED BY <2>1, <2>2, <2>4, <2>5 DEF Descends
<1>5. PICK f \in Message : f = forward
  BY MessagesMade
<1>6. D = d
  BY <1>2, <1>3, <1>4, Zenon
<1>7. PICK info \in Message : info = Announcement(d, n, NODE_INFO_PACKET)
  BY <1>4, AnnouncementTyped
<1>8. \/ Finish(n, queues, c, <<f>>)
      \/ c.has_sent_node_info /\ Fail(n, queues, "has_sent_node_info")
      \/ Finish(n, queues, d, <<f, info>>)
  BY <1>2, <1>5, <1>6, <1>7, Zenon DEF Initialize
<1>9. f.type = INITIALIZE_BEST_PATHS_PACKET
  BY <1>5
<1>10. /\ <<f>> \in Seq(Message) /\ <<f, info>> \in Seq(Message)
       /\ <<f>> # << >> /\ Head(<<f>>) = f
       /\ <<f, info>> # << >> /\ Head(<<f, info>>) = f
  BY Packets
<1> HIDE DEF forward, C, D
<1>11. CASE Finish(n, queues, c, <<f>>)
  <2>1. PICK out \in Seq(Message) : out = <<f>>
    BY <1>10
  <2> QED BY <1>1, <1>2, <1>9, <1>10, <1>11, <2>1
<1>12. CASE Finish(n, queues, d, <<f, info>>)
  <2>1. PICK out \in Seq(Message) : out = <<f, info>>
    BY <1>10
  <2> QED BY <1>1, <1>4, <1>9, <1>10, <1>12, <2>1
<1>13. CASE c.has_sent_node_info /\ Fail(n, queues, "has_sent_node_info")
  BY <1>1, <1>2, <1>13
<1> QED BY <1>8, <1>11, <1>12, <1>13

LEMMA InitializeHandled ==
  ASSUME Typed, NEW n \in Node, NEW queues, NEW seqno \in 1..MaxInits,
         Initialize(n, queues, seqno)
  PROVE  Handled(n, queues) /\ EnvTyped'
<1>1. Handled(n, queues)
  <2>1. CASE \E c \in GoodRecords, out \in Seq(Message) :
               Descends(np[n], c) /\ Finish(n, queues, c, out)
    BY <2>1 DEF Handled
  <2>2. CASE Fail(n, queues, "has_sent_node_info")
    <3>1. "has_sent_node_info" \in Failures /\ "has_sent_node_info" # "timesynch"
      BY DEF Failures
    <3> QED BY <2>2, <3>1, Failed
  <2> QED BY <2>1, <2>2, InitializeForwards
<1>2. EnvTyped'
  <2>1. /\ inits \in [Node -> SUBSET (1..MaxInits)]
        /\ inits' = [inits EXCEPT ![n] = @ \cup {seqno}]
    BY DEF Typed, EnvTyped, Initialize
  <2>2. inits' \in [Node -> SUBSET (1..MaxInits)]
    BY <2>1
  <2>3. UNCHANGED <<alarms, changes, checks, losses>>
    BY DEF Initialize
  <2> QED BY <2>2, <2>3 DEF Typed, EnvTyped
<1> QED BY <1>1, <1>2

LEMMA HearInitializeHandled ==
  ASSUME Typed, NEW n \in Node, HearInitialize(n)
  PROVE  Handled(n, net) /\ EnvTyped'
BY InitializeHandled DEF HearInitialize

\* A neighbour's packet: its place in the table, and what it may hold.
LEMMA SenderFound ==
  ASSUME Typed, NEW n \in Node, NEW m \in Addrs(np[n].ns)
  PROVE  Position(np[n].ns, m) \in DOMAIN np[n].ns
<1>1. np[n].ns \in Seq(NeighborNodes)
  BY RecordOf, GoodIsTyped
<1> QED BY <1>1, PositionFound

LEMMA RecvNodeInfoHandled ==
  ASSUME Typed, NEW m \in Node, NEW n \in Node, RecvNodeInfo(m, n)
  PROVE  Handled(n, Rest(m, n)) /\ EnvTyped'
<1>1. PICK b \in GoodRecords : b = np[n]
  BY RecordOf
<1>2. /\ m \in Addrs(b.ns) /\ net[<<m, n>>] # << >>
      /\ Head(net[<<m, n>>]).type = NODE_INFO_PACKET /\ UNCHANGED env
  BY <1>1 DEF RecvNodeInfo, Arrives
<1>3. PICK p \in Message : p = Head(net[<<m, n>>])
  BY <1>2, RestTaken
<1>4. PICK path \in BestPath : path = p.bp
  BY <1>2, <1>3, MessageFields
<1>5. PICK i \in DOMAIN b.ns : i = Position(b.ns, m)
  BY <1>1, <1>2, SenderFound
<1>6. PICK distance \in Metrics : distance = Distance[<<m, n>>]
  BY EscapePathsAssumption
<1>7. PICK c \in GoodRecords :
         /\ c = [b EXCEPT !.ns[i].distance = distance, !.ns[i].bp = path]
         /\ Descends(b, c)
  <2>1. PICK yes \in BOOLEAN : TRUE
    OBVIOUS
  <2>2. Descends(b, [b EXCEPT !.ns[i].distance = distance, !.ns[i].bp = path])
    BY HeardDescends, Zenon
  <2> QED BY <2>2, Zenon DEF Descends
<1>8. PICK t \in GoodRecords : t = TakeBest(c, n) /\ Descends(b, t) /\ t.bpn # NoNode
  <2>1. Descends(b, c)
    BY <1>7
  <2> QED BY <2>1, BestDescends
<1>9. PICK d \in GoodRecords :
         /\ d = [t EXCEPT !.has_sent_node_info = TRUE]
         /\ Descends(b, d) /\ d.bpn # NoNode
  <2>1. PICK d : d = [t EXCEPT !.has_sent_node_info = TRUE]
    OBVIOUS
  <2>2. Descends(t, d) /\ d.bpn # NoNode
    BY <1>8, <2>1, FlagsSet, PathStays, MetricsTyped
  <2>3. Descends(b, d)
    BY <1>8, <2>2, DescendsOn
  <2> QED BY <2>1, <2>2, <2>3 DEF Descends
<1>10. PICK info \in Message : info = Announcement(d, n, NODE_INFO_PACKET)
  BY <1>9, AnnouncementTyped
<1>11. PICK update \in Message : update = Announcement(t, n, BEST_PATH_UPDATE_PACKET)
  BY <1>8, AnnouncementTyped
<1>12. \/ Finish(n, Rest(m, n), d, <<info>>)
       \/ Finish(n, Rest(m, n), t, <<update>>)
       \/ Finish(n, Rest(m, n), c, << >>)
  BY <1>1, <1>3, <1>4, <1>5, <1>6, <1>7, <1>8, <1>9, <1>10, <1>11, Zenon DEF RecvNodeInfo
<1>13. /\ << >> \in Seq(Message) /\ <<info>> \in Seq(Message)
       /\ <<update>> \in Seq(Message)
  BY Packets
<1>14. Handled(n, Rest(m, n))
  BY <1>1, <1>7, <1>8, <1>9, <1>12, <1>13, Finished
<1> QED BY <1>2, <1>14, EnvStays

LEMMA RecvBestPathUpdateHandled ==
  ASSUME Typed, NEW m \in Node, NEW n \in Node, RecvBestPathUpdate(m, n)
  PROVE  Handled(n, Rest(m, n)) /\ EnvTyped'
<1>1. PICK b \in GoodRecords : b = np[n]
  BY RecordOf
<1>2. /\ m \in Addrs(b.ns) /\ net[<<m, n>>] # << >>
      /\ Head(net[<<m, n>>]).type = BEST_PATH_UPDATE_PACKET /\ UNCHANGED env
  BY <1>1 DEF RecvBestPathUpdate, Arrives
<1>3. PICK p \in Message : p = Head(net[<<m, n>>])
  BY <1>2, RestTaken
<1>4. PICK path \in BestPath : path = p.bp
  BY <1>2, <1>3, MessageFields
<1>5. PICK i \in DOMAIN b.ns : i = Position(b.ns, m)
  BY <1>1, <1>2, SenderFound
<1>6. PICK c \in GoodRecords : c = [b EXCEPT !.ns[i].bp = path] /\ Descends(b, c)
  <2>1. PICK distance \in Metrics : TRUE
    BY MetricsTyped
  <2>2. PICK yes \in BOOLEAN : TRUE
    OBVIOUS
  <2>3. Descends(b, [b EXCEPT !.ns[i].bp = path])
    BY HeardDescends, Zenon
  <2> QED BY <2>3, Zenon DEF Descends
<1>7. PICK t \in GoodRecords : t = TakeBest(c, n) /\ Descends(b, t) /\ t.bpn # NoNode
  <2>1. Descends(b, c)
    BY <1>6
  <2> QED BY <2>1, BestDescends
<1>8. PICK update \in Message : update = Announcement(t, n, BEST_PATH_UPDATE_PACKET)
  BY <1>7, AnnouncementTyped
<1>9. \/ Finish(n, Rest(m, n), t, <<update>>)
      \/ Finish(n, Rest(m, n), c, << >>)
  BY <1>1, <1>3, <1>4, <1>5, <1>6, <1>7, <1>8, Zenon DEF RecvBestPathUpdate
<1>10. << >> \in Seq(Message) /\ <<update>> \in Seq(Message)
  BY Packets
<1>11. Handled(n, Rest(m, n))
  BY <1>1, <1>6, <1>7, <1>9, <1>10, Finished
<1> QED BY <1>2, <1>11, EnvStays

LEMMA RecvKeepAliveHandled ==
  ASSUME Typed, NEW m \in Node, NEW n \in Node, RecvKeepAlive(m, n)
  PROVE  Handled(n, Rest(m, n)) /\ EnvTyped'
<1>1. PICK b \in GoodRecords : b = np[n]
  BY RecordOf
<1>2. m \in Addrs(b.ns) /\ UNCHANGED env
  BY <1>1 DEF RecvKeepAlive
<1>3. PICK i \in DOMAIN b.ns : i = Position(b.ns, m)
  BY <1>1, <1>2, SenderFound
<1>4. PICK c \in GoodRecords :
        c = [b EXCEPT !.ns[i].has_sent_keep_alive = TRUE] /\ Descends(b, c)
  <2>1. PICK yes \in BOOLEAN : yes = TRUE
    BY Zenon
  <2>2. PICK distance \in Metrics : TRUE
    BY MetricsTyped
  <2>3. neighbor_node_best_path_max \in BestPath
    BY MetricsTyped DEF neighbor_node_best_path_max, BestPath
  <2>4. Descends(b, [b EXCEPT !.ns[i].has_sent_keep_alive = yes])
    BY <2>3, HeardDescends
  <2> QED BY <2>1, <2>4, Zenon DEF Descends
<1>5. Finish(n, Rest(m, n), c, << >>)
  BY <1>1, <1>3, <1>4, Zenon DEF RecvKeepAlive
<1>6. << >> \in Seq(Message)
  BY EmptySeq
<1>7. Handled(n, Rest(m, n))
  BY <1>1, <1>4, <1>5, <1>6, Finished
<1> QED BY <1>2, <1>7, EnvStays

LEMMA RecvEmergencyHandled ==
  ASSUME Typed, NEW n \in Node, RecvEmergency(n)
  PROVE  Handled(n, net) /\ EnvTyped'
<1>1. PICK b \in GoodRecords : b = np[n]
  BY RecordOf
<1>2. PICK c \in GoodRecords : c = [b EXCEPT !.is_blinking = TRUE] /\ Descends(b, c)
  BY FlagsSet, MetricsTyped DEF Descends
<1>3. FinishBlinking(n, net, c, << >>) /\ UNCHANGED env
  BY <1>1, <1>2, Zenon DEF RecvEmergency
<1>4. << >> \in Seq(Message)
  BY EmptySeq
<1>5. Handled(n, net)
  <2>1. CASE Finish(n, net, c, << >>)
    BY <1>1, <1>2, <1>4, <2>1, Finished
  <2>2. CASE Fail(n, net, "bpn")
    <3>1. "bpn" \in Failures /\ "bpn" # "timesynch"
      BY DEF Failures
    <3> QED BY <2>2, <3>1, Failed
  <2> QED BY <1>3, <2>1, <2>2 DEF FinishBlinking
<1> QED BY <1>3, <1>5, EnvStays

LEMMA ChangesCounted ==
  ASSUME Typed, NEW n \in Node, NEW r \in Readings, SensorChanges(n, r),
         alarms' \subseteq Node
  PROVE  EnvTyped'
<1>1. changes' \in [Node -> 0..MaxChanges]
  <2>1. /\ changes \in [Node -> 0..MaxChanges] /\ MaxChanges \in Nat
        /\ changes[n] < MaxChanges /\ changes' = [changes EXCEPT ![n] = @ + 1]
    BY EscapePathsAssumption DEF Typed, EnvTyped, SensorChanges
  <2> QED BY <2>1, Counted
<1> QED BY <1>1 DEF SensorChanges, Typed, EnvTyped

LEMMA SenseEmergencyHandled ==
  ASSUME Typed, NEW n \in Node, SenseEmergency(n)
  PROVE  Handled(n, net) /\ EnvTyped'
<1>1. PICK b \in GoodRecords : b = np[n]
  BY RecordOf
<1> DEFINE C(r) == [np[n] EXCEPT !.sensors_metric = r]
           D(r) == [C(r) EXCEPT !.is_burning = TRUE, !.is_blinking = TRUE]
<1>2. PICK r \in Readings :
        /\ SensorChanges(n, r)
        /\ IF C(r).bpn = NoNode \/ C(r).is_burning
           THEN Finish(n, net, C(r), << >>) /\ UNCHANGED alarms
           ELSE /\ alarms' = alarms \cup {n}
                /\ IF ~C(r).timesynch
                   THEN Fail(n, net, "timesynch")
                   ELSE Finish(n, net, D(r),
                               <<Announcement(D(r), n, BEST_PATH_UPDATE_PACKET)>>)
  BY Zenon DEF SenseEmergency
<1>3. r \in Metrics
  BY ReadingsTyped
<1>4. PICK c \in GoodRecords :
        /\ c = [b EXCEPT !.sensors_metric = r] /\ Descends(b, c)
        /\ (b.timesynch <=> c.timesynch)
  <2>1. PICK p \in BOOLEAN : TRUE
    OBVIOUS
  <2>2. Descends(b, [b EXCEPT !.sensors_metric = r])
    BY <1>3, FlagsDescend, Zenon
  <2>3. b.timesynch <=> [b EXCEPT !.sensors_metric = r].timesynch
    BY GoodIsTyped DEF NodeProperties
  <2>4. [b EXCEPT !.sensors_metric = r] \in GoodRecords
    BY <2>2, Zenon DEF Descends
  <2> QED BY <2>2, <2>3, <2>4, Zenon
<1>5. PICK d \in GoodRecords :
        /\ d = [c EXCEPT !.is_burning = TRUE, !.is_blinking = TRUE]
        /\ Descends(b, d) /\ d.bpn = c.bpn
  <2>1. PICK d : d = [c EXCEPT !.is_burning = TRUE, !.is_blinking = TRUE]
    OBVIOUS
  <2>2. Descends(c, d) /\ d.bpn = c.bpn
    BY <2>1, <1>3, FlagsSet, PathStays
  <2>3. Descends(b, d)
    BY <1>4, <2>2, DescendsOn
  <2> QED BY <2>1, <2>2, <2>3 DEF Descends
<1>6. C(r) = c /\ D(r) = d
  BY <1>1, <1>4, <1>5, Zenon
<1>7. /\ alarms' \subseteq Node
      /\ \/ Finish(n, net, c, << >>)
         \/ ~c.timesynch /\ Fail(n, net, "timesynch")
         \/ /\ c.bpn # NoNode
            /\ Finish(n, net, d, <<Announcement(d, n, BEST_PATH_UPDATE_PACKET)>>)
  <2>1. alarms \subseteq Node
    BY DEF Typed, EnvTyped
  <2> HIDE DEF C, D
  <2>2. \/ Finish(n, net, c, << >>)
        \/ ~c.timesynch /\ Fail(n, net, "timesynch")
        \/ /\ c.bpn # NoNode
           /\ Finish(n, net, d, <<Announcement(d, n, BEST_PATH_UPDATE_PACKET)>>)
    BY <1>2, <1>6, Zenon
  <2>3. alarms' = alarms \/ alarms' = alarms \cup {n}
    BY <1>2
  <2> QED BY <2>1, <2>2, <2>3
<1> HIDE DEF C, D
<1>8. << >> \in Seq(Message)
  BY EmptySeq
<1>9. Handled(n, net)
  <2>1. CASE Finish(n, net, c, << >>)
    BY <1>1, <1>4, <1>8, <2>1, Finished
  <2>2. CASE ~c.timesynch /\ Fail(n, net, "timesynch")
    <3>1. ~np[n].timesynch
      BY <1>1, <1>4, <2>2
    <3>2. "timesynch" \in Failures
      BY DEF Failures
    <3> QED BY <2>2, <3>1, <3>2, Zenon DEF Handled
  <2>3. CASE /\ c.bpn # NoNode
             /\ Finish(n, net, d, <<Announcement(d, n, BEST_PATH_UPDATE_PACKET)>>)
    <3>1. PICK update \in Message :
            update = Announcement(d, n, BEST_PATH_UPDATE_PACKET)
      BY <1>5, <2>3, AnnouncementTyped
    <3>2. <<update>> \in Seq(Message)
      BY Packets
    <3>3. Finish(n, net, d, <<update>>)
      BY <2>3, <3>1
    <3> QED BY <1>1, <1>5, <3>2, <3>3, Finished
  <2> QED BY <1>7, <2>1, <2>2, <2>3
<1>10. EnvTyped'
  BY <1>2, <1>7, ChangesCounted
<1> QED BY <1>9, <1>10

LEMMA SenseNoEmergencyHandled ==
  ASSUME Typed, NEW n \in Node, SenseNoEmergency(n)
  PROVE  Handled(n, net) /\ EnvTyped'
<1>1. PICK b \in GoodRecords : b = np[n]
  BY RecordOf
<1> DEFINE C(r) == [np[n] EXCEPT !.sensors_metric = r, !.is_burning = FALSE]
           E(r) == [np[n] EXCEPT !.sensors_metric = r]
<1>2. PICK r \in Readings :
        /\ SensorChanges(n, r)
        /\ IF ~np[n].is_blinking
           THEN Finish(n, net, E(r), << >>)
           ELSE IF C(r).bpn = NoNode
           THEN Fail(n, net, "bpn")
           ELSE Finish(n, net, C(r), <<Announcement(C(r), n, BEST_PATH_UPDATE_PACKET)>>)
        /\ UNCHANGED alarms
  BY Zenon DEF SenseNoEmergency
<1>3. r \in Metrics
  BY ReadingsTyped
<1>4. PICK e \in GoodRecords : e = [b EXCEPT !.sensors_metric = r] /\ Descends(b, e)
  <2>1. PICK p \in BOOLEAN : TRUE
    OBVIOUS
  <2>2. Descends(b, [b EXCEPT !.sensors_metric = r])
    BY <1>3, FlagsDescend, Zenon
  <2> QED BY <2>2, Zenon DEF Descends
<1>5. PICK c \in GoodRecords :
        c = [b EXCEPT !.sensors_metric = r, !.is_burning = FALSE] /\ Descends(b, c)
  BY <1>3, FlagsSet, Zenon DEF Descends
<1>6. C(r) = c /\ E(r) = e
  BY <1>1, <1>4, <1>5, Zenon
<1> HIDE DEF C, E
<1>7. \/ Finish(n, net, e, << >>)
      \/ Fail(n, net, "bpn")
      \/ /\ c.bpn # NoNode
         /\ Finish(n, net, c, <<Announcement(c, n, BEST_PATH_UPDATE_PACKET)>>)
  BY <1>2, <1>6, Zenon
<1>8. Handled(n, net)
  <2>1. CASE Finish(n, net, e, << >>)
    <3>1. << >> \in Seq(Message)
      BY EmptySeq
    <3> QED BY <1>1, <1>4, <2>1, <3>1, Finished
  <2>2. CASE Fail(n, net, "bpn")
    <3>1. "bpn" \in Failures /\ "bpn" # "timesynch"
      BY DEF Failures
    <3> QED BY <2>2, <3>1, Failed
  <2>3. CASE /\ c.bpn # NoNode
             /\ Finish(n, net, c, <<Announcement(c, n, BEST_PATH_UPDATE_PACKET)>>)
    <3>1. PICK update \in Message :
            update = Announcement(c, n, BEST_PATH_UPDATE_PACKET)
      BY <2>3, AnnouncementTyped
    <3>2. <<update>> \in Seq(Message)
      BY Packets
    <3>3. Finish(n, net, c, <<update>>)
      BY <2>3, <3>1
    <3> QED BY <1>1, <1>5, <3>2, <3>3, Finished
  <2> QED BY <1>7, <2>1, <2>2, <2>3
<1>9. EnvTyped'
  <2>1. alarms' \subseteq Node
    BY <1>2 DEF Typed, EnvTyped
  <2> QED BY <1>2, <2>1, ChangesCounted
<1> QED BY <1>8, <1>9

LEMMA SendKeepAliveHandled ==
  ASSUME Typed, NEW n \in Node, SendKeepAlive(n)
  PROVE  Handled(n, net) /\ EnvTyped'
<1>1. PICK b \in GoodRecords : b = np[n]
  BY RecordOf
<1>2. PICK p \in Message : p = [type |-> KEEP_ALIVE_NEIGHBOR]
  BY MessagesMade
<1>3. Finish(n, net, b, <<p>>) /\ UNCHANGED env
  BY <1>1, <1>2, Zenon DEF SendKeepAlive
<1>4. <<p>> \in Seq(Message)
  BY Packets
<1>5. Descends(b, b)
  BY DEF Descends
<1>6. Handled(n, net)
  BY <1>1, <1>3, <1>4, <1>5, Finished
<1> QED BY <1>3, <1>6, EnvStays

\* The table after a keep-alive check, and bpn if the neighbour is gone.
LEMMA CheckedDescends ==
  ASSUME NEW b \in GoodRecords, NEW ns \in Seq(NeighborNodes),
         Addrs(ns) \subseteq Addrs(b.ns), NEW no \in BOOLEAN
  PROVE  Descends(b, [b EXCEPT
                        !.bpn = IF @ \in Addrs(b.ns) \ Addrs(ns) THEN NoNode ELSE @,
                        !.ns  = [i \in DOMAIN ns |->
                                   [ns[i] EXCEPT !.has_sent_keep_alive = no]]])
<1> DEFINE bpn == IF b.bpn \in Addrs(b.ns) \ Addrs(ns) THEN NoNode ELSE b.bpn
           new == [i \in DOMAIN ns |-> [ns[i] EXCEPT !.has_sent_keep_alive = no]]
           c   == [b EXCEPT !.bpn = bpn, !.ns = new]
<1>1. b \in NodeProperties /\ b.bpn \in Addrs(b.ns) \cup {NoNode, MaxNode, ExitNode}
  BY GoodIsTyped
<1>2. \A i \in DOMAIN ns : ns[i] \in NeighborNodes
  BY ElementOfSeq, LenProperties
<1>3. /\ new \in [DOMAIN ns -> NeighborNodes]
      /\ \A i \in DOMAIN ns : new[i].addr = ns[i].addr
  <2> SUFFICES ASSUME NEW i \in DOMAIN ns
               PROVE  /\ [ns[i] EXCEPT !.has_sent_keep_alive = no] \in NeighborNodes
                      /\ [ns[i] EXCEPT !.has_sent_keep_alive = no].addr = ns[i].addr
    OBVIOUS
  <2>1. PICK e \in NeighborNodes : e = ns[i]
    BY <1>2
  <2>2. /\ [e EXCEPT !.has_sent_keep_alive = no] \in NeighborNodes
        /\ [e EXCEPT !.has_sent_keep_alive = no].addr = e.addr
    BY DEF NeighborNodes
  <2> QED BY <2>1, <2>2
<1> HIDE DEF new
<1>4. new \in Seq(NeighborNodes) /\ Addrs(new) = Addrs(ns)
  BY <1>3, EntriesChanged
<1>5. bpn \in Addrs(ns) \cup {NoNode, MaxNode, ExitNode}
  BY <1>1
<1>6. bpn \in Node \cup {NoNode, MaxNode, ExitNode}
  BY <1>1, RecordFields
<1> HIDE DEF bpn
<1>7. c \in NodeProperties
  BY <1>1, <1>4, <1>6 DEF NodeProperties
<1>8. c.bpn = bpn /\ c.ns = new /\ (b.timesynch <=> c.timesynch)
  BY <1>1 DEF NodeProperties
<1> HIDE DEF c
<1>9. c \in GoodRecords
  BY <1>4, <1>5, <1>7, <1>8 DEF GoodRecords
<1>10. Descends(b, c)
  BY <1>4, <1>8, <1>9 DEF Descends
<1> QED BY <1>10 DEF c, bpn, new

LEMMA CheckKeepAliveHandled ==
  ASSUME Typed, NEW n \in Node, CheckKeepAlive(n)
  PROVE  Handled(n, net) /\ EnvTyped'
<1>1. PICK b \in GoodRecords : b = np[n]
  BY RecordOf
<1>2. PICK ns \in Seq(NeighborNodes) :
        ns = Survivors(b.ns) /\ Addrs(ns) \subseteq Addrs(b.ns)
  BY GoodIsTyped, SurvivorsTyped
<1>3. PICK c \in GoodRecords :
        /\ c = [b EXCEPT
                  !.bpn = IF @ \in Addrs(b.ns) \ Addrs(ns) THEN NoNode ELSE @,
                  !.ns  = [i \in DOMAIN ns |->
                             [ns[i] EXCEPT !.has_sent_keep_alive = FALSE]]]
        /\ Descends(b, c)
  <2>1. PICK no \in BOOLEAN : no = FALSE
    BY Zenon
  <2>2. Descends(b, [b EXCEPT
                       !.bpn = IF @ \in Addrs(b.ns) \ Addrs(ns) THEN NoNode ELSE @,
                       !.ns  = [i \in DOMAIN ns |->
                                  [ns[i] EXCEPT !.has_sent_keep_alive = no]]])
    BY <1>2, CheckedDescends, Zenon
  <2> QED BY <2>1, <2>2, Zenon DEF Descends
<1>4. Descends(b, c)
  BY <1>3
<1>5. PICK t \in GoodRecords : t = TakeBest(c, n) /\ Descends(b, t) /\ t.bpn # NoNode
  BY <1>4, BestDescends
<1>6. PICK update \in Message : update = Announcement(t, n, BEST_PATH_UPDATE_PACKET)
  BY <1>5, AnnouncementTyped
<1>7. \/ Finish(n, net, t, <<update>>)
      \/ Finish(n, net, c, << >>)
  BY <1>1, <1>2, <1>3, <1>5, <1>6, Zenon DEF CheckKeepAlive, Removed
<1>8. << >> \in Seq(Message) /\ <<update>> \in Seq(Message)
  BY Packets
<1>9. Handled(n, net)
  BY <1>1, <1>4, <1>5, <1>7, <1>8, Finished
<1>10. EnvTyped'
  <2>1. MaxChecks \in [Node -> Nat]
    BY EscapePathsAssumption
  <2>2. checks \in [Node -> Nat] /\ \A p \in Node : checks[p] <= MaxChecks[p]
    BY DEF Typed, EnvTyped
  <2>3. checks[n] < MaxChecks[n] /\ checks' = [checks EXCEPT ![n] = @ + 1]
    BY Zenon DEF CheckKeepAlive
  <2>4. checks' \in [Node -> Nat] /\ \A p \in Node : checks'[p] <= MaxChecks[p]
    BY <2>1, <2>2, <2>3
  <2>5. UNCHANGED <<inits, alarms, changes, losses>>
    BY DEF CheckKeepAlive
  <2> QED BY <2>4, <2>5 DEF Typed, EnvTyped
<1> QED BY <1>9, <1>10

LEMMA StopsHandled ==
  ASSUME Typed, NEW n \in Node, BlinkFails(n) \/ LosePower(n)
  PROVE  Handled(n, net) /\ EnvTyped'
<1>1. /\ "bpn" \in Failures /\ "bpn" # "timesynch"
      /\ "power" \in Failures /\ "power" # "timesynch"
  BY DEF Failures
<1>2. Fail(n, net, "bpn") \/ Fail(n, net, "power")
  BY DEF BlinkFails, LosePower
<1>3. Handled(n, net)
  BY <1>1, <1>2, Failed
<1>4. UNCHANGED env
  BY DEF BlinkFails, LosePower
<1> QED BY <1>3, <1>4, EnvStays

\* The steps of a node by itself.
LEMMA OwnStepHandled ==
  ASSUME Typed, NEW n \in Node,
         \/ HearInitialize(n) \/ RecvEmergency(n) \/ SenseEmergency(n)
         \/ SenseNoEmergency(n) \/ SendKeepAlive(n) \/ CheckKeepAlive(n)
         \/ BlinkFails(n) \/ LosePower(n)
  PROVE  Handled(n, net) /\ EnvTyped'
BY HearInitializeHandled, RecvEmergencyHandled, SenseEmergencyHandled,
   SenseNoEmergencyHandled, SendKeepAliveHandled, CheckKeepAliveHandled, StopsHandled

\* A packet that is received is handled or dropped.
LEMMA ReceiveHandled ==
  ASSUME Typed, NEW m \in Node, NEW n \in Node, Receive(m, n)
  PROVE  /\ net[<<m, n>>] # << >> /\ Running(n) /\ EnvTyped'
         /\ \/ Handled(n, Rest(m, n))
            \/ net' = Rest(m, n) /\ UNCHANGED <<np, failed, env>>
<1>1. net[<<m, n>>] # << >> /\ Running(n)
  BY DEF Receive, RecvFromStranger, RecvInitialize, RecvNodeInfo, RecvBestPathUpdate,
         RecvKeepAlive, Arrives
<1>2. CASE RecvFromStranger(m, n)
  <2>1. net' = Rest(m, n) /\ UNCHANGED <<np, failed, env>>
    BY <1>2 DEF RecvFromStranger
  <2>2. EnvTyped'
    BY <2>1, EnvStays
  <2> QED BY <1>1, <2>1, <2>2
<1>3. CASE RecvInitialize(m, n)
  <2>1. PICK p \in Message : p = Head(net[<<m, n>>])
    BY <1>1, RestTaken
  <2>2. PICK seqno \in 1..MaxInits : seqno = p.seqno
    BY <1>3, <2>1, MessageFields DEF RecvInitialize
  <2>3. \/ net' = Rest(m, n) /\ UNCHANGED <<np, failed, env>>
        \/ Initialize(n, Rest(m, n), seqno)
    BY <1>3, <2>1, <2>2 DEF RecvInitialize
  <2>4. CASE net' = Rest(m, n) /\ UNCHANGED <<np, failed, env>>
    BY <1>1, <2>4, EnvStays
  <2>5. CASE Initialize(n, Rest(m, n), seqno)
    BY <1>1, <2>5, InitializeHandled
  <2> QED BY <2>3, <2>4, <2>5
<1>4. CASE RecvNodeInfo(m, n)
  BY <1>1, <1>4, RecvNodeInfoHandled
<1>5. CASE RecvBestPathUpdate(m, n)
  BY <1>1, <1>5, RecvBestPathUpdateHandled
<1>6. CASE RecvKeepAlive(m, n)
  BY <1>1, <1>6, RecvKeepAliveHandled
<1> QED BY <1>2, <1>3, <1>4, <1>5, <1>6 DEF Receive

LEMMA DroppedTyped ==
  ASSUME Typed, NEW m \in Node, NEW n \in Node, net[<<m, n>>] # << >>,
         net' = Rest(m, n), UNCHANGED <<np, failed>>, EnvTyped'
  PROVE  Typed'
BY RestTaken DEF Typed

LEMMA InitTyped == Init => Typed
<1> SUFFICES ASSUME Init PROVE Typed
  OBVIOUS
<1>1. PICK no \in BOOLEAN : no = FALSE
  BY Zenon
<1>2. PICK yes \in BOOLEAN : yes = TRUE
  BY Zenon
<1> DEFINE entry(m) == [addr |-> m, distance |-> 0, bp |-> neighbor_node_best_path_max,
                        has_sent_keep_alive |-> yes]
           table(n) == [i \in DOMAIN Table[n] |-> entry(Table[n][i])]
           record(n) == [ns |-> table(n), bpn |-> NoNode, has_sent_node_info |-> no,
                         timesynch |-> no, is_blinking |-> no, is_burning |-> no,
                         sensors_metric |-> 0]
<1>3. np = [n \in Node |-> record(n)]
  <2>1. \A m : NeighborNode(m) = entry(m)
    BY <1>2, Zenon DEF NeighborNode
  <2>2. \A n : table(n) = [i \in DOMAIN Table[n] |-> NeighborNode(Table[n][i])]
    BY <2>1
  <2> HIDE DEF entry, table
  <2>3. np = [n \in Node |->
                [ns |-> table(n), bpn |-> NoNode, has_sent_node_info |-> FALSE,
                 timesynch |-> FALSE, is_blinking |-> FALSE, is_burning |-> FALSE,
                 sensors_metric |-> 0]]
    BY <2>2, Zenon DEF Init
  <2> QED BY <1>1, <2>3, Zenon
<1>4. neighbor_node_best_path_max \in BestPath
  BY MetricsTyped DEF neighbor_node_best_path_max, BestPath
<1>5. \A m \in Node : entry(m) \in NeighborNodes
  BY <1>4, MetricsTyped DEF NeighborNodes
<1> HIDE DEF entry
<1>6. ASSUME NEW n \in Node PROVE table(n) \in Seq(NeighborNodes)
  <2>1. Table[n] \in Seq(Node)
    BY EscapePathsAssumption
  <2>2. PICK s \in Seq(Node) : s = Table[n]
    BY <2>1
  <2>3. DOMAIN s = 1..Len(s) /\ Len(s) \in Nat /\ \A i \in 1..Len(s) : s[i] \in Node
    BY LenProperties, ElementOfSeq
  <2>4. [i \in 1..Len(s) |-> entry(s[i])] \in [1..Len(s) -> NeighborNodes]
    BY <1>5, <2>3
  <2>5. [i \in 1..Len(s) |-> entry(s[i])] \in Seq(NeighborNodes)
    BY <2>3, <2>4, SeqDef
  <2> QED BY <2>2, <2>3, <2>5
<1> HIDE DEF table
<1>7. \A n \in Node : record(n) \in NodeProperties /\ record(n).bpn = NoNode
  BY <1>6, MetricsTyped DEF NodeProperties
<1> HIDE DEF record
<1>8. \A n \in Node : record(n) \in GoodRecords
  BY <1>7 DEF GoodRecords
<1>9. np \in [Node -> GoodRecords]
  BY <1>3, <1>8
<1>10. failed \in [Node -> Outcomes]
  BY DEF Init, Outcomes
<1>11. net \in Queues
  <2>1. << >> \in Seq(Message)
    BY EmptySeq
  <2> QED BY <2>1 DEF Init, Queues
<1>12. EnvTyped
  BY EscapePathsAssumption DEF Init, EnvTyped
<1> QED BY <1>9, <1>10, <1>11, <1>12 DEF Typed

LEMMA NextTyped == Typed /\ [Next]_vars => Typed'
<1> SUFFICES ASSUME Typed, [Next]_vars PROVE Typed'
  OBVIOUS
<1>1. CASE UNCHANGED vars
  BY <1>1 DEF Typed, EnvTyped, vars, env
<1>2. ASSUME NEW n \in Node,
             \/ HearInitialize(n) \/ RecvEmergency(n) \/ SenseEmergency(n)
             \/ SenseNoEmergency(n) \/ SendKeepAlive(n) \/ CheckKeepAlive(n)
             \/ BlinkFails(n) \/ LosePower(n)
      PROVE  Typed'
  BY <1>2, OwnStepHandled, NetTaken, HandledIsTyped
<1>3. ASSUME NEW m \in Node, NEW n \in Node, Receive(m, n)
      PROVE  Typed'
  <2>1. net[<<m, n>>] # << >> /\ EnvTyped'
    BY <1>3, ReceiveHandled
  <2>2. CASE Handled(n, Rest(m, n))
    BY <2>1, <2>2, RestTaken, HandledIsTyped
  <2>3. CASE net' = Rest(m, n) /\ UNCHANGED <<np, failed, env>>
    BY <2>1, <2>3, DroppedTyped
  <2> QED BY <1>3, <2>2, <2>3, ReceiveHandled
<1>4. ASSUME NEW m \in Node, NEW n \in Node, GiveUp(m, n)
      PROVE  Typed'
  <2>1. losses \in 0..MaxLosses /\ MaxLosses \in Nat /\ losses < MaxLosses
    BY <1>4, EscapePathsAssumption DEF GiveUp, Typed, EnvTyped
  <2>2. losses' \in 0..MaxLosses
    BY <1>4, <2>1 DEF GiveUp
  <2>3. EnvTyped'
    BY <1>4, <2>2 DEF GiveUp, Typed, EnvTyped
  <2> QED BY <1>4, <2>3, DroppedTyped DEF GiveUp
<1> QED BY <1>1, <1>2, <1>3, <1>4 DEF Next

\* Spec => []TypeOK: metrics and hops stay within their width, whatever they
\* are summed up to (best_neighbor_bp_to_our_bp, main_reg_sensor.c:448), and
\* bpn always points at exit_node, max_node or a neighbour that is still in the
\* table (update_bpn_and_broadcast_new_path_if_changed, the keep-alive check).
THEOREM EscapePathsTyped == Spec => []TypeOK
<1>1. Init => Typed
  BY InitTyped
<1>2. Typed /\ [Next]_vars => Typed'
  BY NextTyped
<1>3. Typed => TypeOK
  BY TypedIsTypeOK
<1> QED BY <1>1, <1>2, <1>3, PTL DEF Spec

-----------------------------------------------------------------------------
(* The time synchronisation.  A node joins it with the first INITIALIZE,   *)
(* which it passes on before it sends anything else.  So until a node has  *)
(* joined, INITIALIZE is the first packet on the link from every           *)
(* neighbour, and the node has learnt of no path.                          *)

\* A node that has not joined has no path and has sent nothing.
Mute(b) ==
  /\ b.bpn = NoNode
  /\ ~b.is_blinking /\ ~b.is_burning
  /\ ~b.has_sent_node_info

Silent(n) ==
  /\ Mute(np[n])
  /\ inits[n] = {}
  /\ \A m \in Node : net[<<n, m>>] = << >>

\* The next packet of every neighbour that has joined is INITIALIZE.
Awaits(n) ==
  \A m \in Addrs(np[n].ns) :
    IF net[<<m, n>>] = << >>
    THEN np[m].timesynch /\ Running(m) => n \notin Addrs(np[m].ns)
    ELSE Head(net[<<m, n>>]).type = INITIALIZE_BEST_PATHS_PACKET

InitializeFirst ==
  \A n \in Node : Running(n) /\ ~np[n].timesynch => Silent(n) /\ Awaits(n)

NobodyUnsynched == \A n \in Node : failed[n] # "timesynch"

SynchInv == Typed /\ InitializeFirst /\ NobodyUnsynched

LEMMA InitSynch == Init => InitializeFirst /\ NobodyUnsynched
<1> SUFFICES ASSUME Init PROVE InitializeFirst /\ NobodyUnsynched
  OBVIOUS
<1>1. \A a, b \in Node : net[<<a, b>>] = << >>
  BY DEF Init
<1>2. \A n \in Node : failed[n] = "none" /\ inits[n] = {}
  BY DEF Init
<1>3. ASSUME NEW n \in Node PROVE Mute(np[n]) /\ ~np[n].timesynch
  <2>1. np[n] = [ns |-> [i \in DOMAIN Table[n] |-> NeighborNode(Table[n][i])],
                 bpn |-> NoNode, has_sent_node_info |-> FALSE, timesynch |-> FALSE,
                 is_blinking |-> FALSE, is_burning |-> FALSE, sensors_metric |-> 0]
    BY Zenon DEF Init
  <2> QED BY <2>1 DEF Mute
<1>4. \A n \in Node : Addrs(np[n].ns) \subseteq Node
  BY InitTyped, RecordOf, GoodIsTyped
<1>5. \A n \in Node : Silent(n)
  BY <1>1, <1>2, <1>3 DEF Silent
<1>6. \A n \in Node : Awaits(n)
  BY <1>1, <1>3, <1>4 DEF Awaits
<1> QED BY <1>2, <1>5, <1>6 DEF InitializeFirst, NobodyUnsynched

\* The neighbours' part of the invariant: a step of n, after which n has joined
\* if a packet of it is on its way to a neighbour that has not.
LEMMA OthersWait ==
  ASSUME SynchInv, NEW n \in Node, NEW queues, Taken(n, queues), Typed',
         NEW c \in GoodRecords, NEW out \in Seq(Message),
         Descends(np[n], c), Finish(n, queues, c, out), Running(n),
         np[n].timesynch \/ (c.timesynch /\ out # << >>
           /\ Head(out).type = INITIALIZE_BEST_PATHS_PACKET),
         \A p \in Node \ {n} : inits'[p] = inits[p]
  PROVE  InitializeFirst' /\ NobodyUnsynched'
<1>1. /\ np \in [Node -> GoodRecords] /\ failed \in [Node -> Outcomes] /\ net \in Queues
      /\ queues \in Queues
  BY DEF SynchInv, Typed, Taken
<1>2. /\ np' = [np EXCEPT ![n] = c] /\ failed' = failed
      /\ net' = Sent(queues, n, c, out)
  BY DEF Finish
<1>3. NobodyUnsynched'
  BY <1>2 DEF SynchInv, NobodyUnsynched
<1>4. c.timesynch
  BY DEF Descends
<1>5. np'[n] = c /\ \A p \in Node \ {n} : np'[p] = np[p]
  BY <1>1, <1>2
<1> SUFFICES ASSUME NEW p \in Node, Running(p)', ~np'[p].timesynch
             PROVE  Silent(p)' /\ Awaits(p)'
  BY <1>3 DEF InitializeFirst
<1>6. p # n /\ np'[p] = np[p] /\ ~np[p].timesynch /\ Running(p)
  BY <1>2, <1>4, <1>5 DEF Running
<1>7. Silent(p) /\ Awaits(p)
  BY <1>6 DEF SynchInv, InitializeFirst
<1>8. \A a, b \in Node :
        net'[<<a, b>>] = IF a = n /\ b \in Addrs(c.ns) /\ Running(b)
                         THEN queues[<<a, b>>] \o out ELSE queues[<<a, b>>]
  BY <1>2 DEF Sent
<1>9. \A m \in Node : net'[<<p, m>>] = << >>
  BY <1>6, <1>7, <1>8 DEF Silent, Taken
<1>10. Silent(p)'
  BY <1>6, <1>7, <1>9 DEF Silent
<1>11. ASSUME NEW m \in Addrs(np[p].ns)
       PROVE  IF net'[<<m, p>>] = << >>
              THEN np'[m].timesynch /\ Running(m)' => p \notin Addrs(np'[m].ns)
              ELSE Head(net'[<<m, p>>]).type = INITIALIZE_BEST_PATHS_PACKET
  <2>0. m \in Node
    BY <1>1, GoodIsTyped
  <2>1. queues[<<m, p>>] = net[<<m, p>>]
    BY <1>6, <2>0 DEF Taken
  <2>2. IF net[<<m, p>>] = << >>
        THEN np[m].timesynch /\ Running(m) => p \notin Addrs(np[m].ns)
        ELSE Head(net[<<m, p>>]).type = INITIALIZE_BEST_PATHS_PACKET
    BY <1>7 DEF Awaits
  <2>3. CASE m # n
    <3>1. net'[<<m, p>>] = net[<<m, p>>] /\ np'[m] = np[m]
      BY <1>5, <1>8, <2>0, <2>1, <2>3
    <3> QED BY <1>2, <2>2, <3>1 DEF Running
  <2>4. CASE m = n /\ p \notin Addrs(c.ns)
    <3>1. net'[<<m, p>>] = net[<<m, p>>] /\ np'[m] = c
      BY <1>5, <1>8, <2>0, <2>1, <2>4
    <3> QED BY <2>2, <2>4, <3>1
  <2>5. CASE m = n /\ p \in Addrs(c.ns)
    <3>1. net'[<<n, p>>] = net[<<n, p>>] \o out
      BY <1>6, <1>8, <2>0, <2>1, <2>5
    <3>2. PICK q \in Seq(Message) : q = net[<<n, p>>]
      BY <1>1 DEF Queues
    <3>3. CASE q = << >>
      <4>1. q \o out = out
        BY <3>3, ConcatEmptySeq
      <4>2. p \in Addrs(np[n].ns)
        BY <2>5 DEF Descends
      <4>3. ~np[n].timesynch
        BY <2>2, <2>5, <3>2, <3>3, <4>2
      <4>4. out # << >> /\ Head(out).type = INITIALIZE_BEST_PATHS_PACKET
        BY <4>3
      <4> QED BY <2>5, <3>1, <3>2, <4>1, <4>4
    <3>4. CASE q # << >>
      <4>1. q \o out # << >> /\ Head(q \o out) = Head(q)
        <5>1. /\ q \o out \in Seq(Message) /\ Len(q \o out) = Len(q) + Len(out)
              /\ Len(q) \in Nat \ {0} /\ Len(out) \in Nat
          BY <3>4, ConcatProperties, EmptySeq, LenProperties
        <5>2. (q \o out)[1] = q[1]
          BY <5>1, ConcatProperties
        <5> QED BY <5>1, <5>2, <3>4, EmptySeq
      <4> QED BY <2>2, <2>5, <3>1, <3>2, <3>4, <4>1
    <3> QED BY <3>3, <3>4
  <2> QED BY <2>3, <2>4, <2>5
<1>12. Awaits(p)'
  BY <1>6, <1>11 DEF Awaits
<1> QED BY <1>10, <1>12

LEMMA OthersGoOn ==
  ASSUME SynchInv, NEW n \in Node, NEW queues, Taken(n, queues),
         NEW assert \in Failures, assert # "timesynch", Fail(n, queues, assert),
         \A p \in Node \ {n} : inits'[p] = inits[p]
  PROVE  InitializeFirst' /\ NobodyUnsynched'
<1>1. /\ np \in [Node -> GoodRecords] /\ failed \in [Node -> Outcomes] /\ net \in Queues
      /\ queues \in Queues
  BY DEF SynchInv, Typed, Taken
<1>2. /\ np' = np /\ failed' = [failed EXCEPT ![n] = assert]
      /\ net' = [link \in Node \X Node |->
                   IF n \in {link[1], link[2]} THEN << >> ELSE queues[link]]
  BY DEF Fail
<1>3. NobodyUnsynched'
  BY <1>1, <1>2 DEF SynchInv, NobodyUnsynched
<1> SUFFICES ASSUME NEW p \in Node, Running(p)', ~np[p].timesynch
             PROVE  Silent(p)' /\ Awaits(p)'
  BY <1>2, <1>3 DEF InitializeFirst
<1>4. p # n /\ Running(p) /\ Silent(p) /\ Awaits(p)
  BY <1>1, <1>2 DEF SynchInv, InitializeFirst, Running, Failures
<1>5. \A a, b \in Node :
        net'[<<a, b>>] = IF n \in {a, b} THEN << >> ELSE queues[<<a, b>>]
  BY <1>2
<1>6. inits'[p] = inits[p]
  BY <1>4
<1>7. \A m \in Node : net'[<<p, m>>] = << >>
  BY <1>4, <1>5 DEF Silent, Taken
<1>8. Silent(p)'
  BY <1>2, <1>4, <1>6, <1>7 DEF Silent
<1>9. ASSUME NEW m \in Addrs(np[p].ns)
      PROVE  IF net'[<<m, p>>] = << >>
             THEN np[m].timesynch /\ Running(m)' => p \notin Addrs(np[m].ns)
             ELSE Head(net'[<<m, p>>]).type = INITIALIZE_BEST_PATHS_PACKET
  <2>0. m \in Node
    BY <1>1, GoodIsTyped
  <2>1. queues[<<m, p>>] = net[<<m, p>>]
    BY <1>4, <2>0 DEF Taken
  <2>2. IF net[<<m, p>>] = << >>
        THEN np[m].timesynch /\ Running(m) => p \notin Addrs(np[m].ns)
        ELSE Head(net[<<m, p>>]).type = INITIALIZE_BEST_PATHS_PACKET
    BY <1>4 DEF Awaits
  <2>3. CASE m = n
    <3>1. ~Running(m)'
      BY <1>1, <1>2, <2>3 DEF Running, Failures
    <3>2. net'[<<m, p>>] = << >>
      BY <1>5, <2>3
    <3> QED BY <3>1, <3>2
  <2>4. CASE m # n
    <3>1. net'[<<m, p>>] = net[<<m, p>>] /\ (Running(m)' <=> Running(m))
      BY <1>1, <1>2, <1>4, <1>5, <2>0, <2>1, <2>4 DEF Running
    <3> QED BY <2>2, <3>1
  <2> QED BY <2>3, <2>4
<1>10. Awaits(p)'
  BY <1>2, <1>9 DEF Awaits
<1> QED BY <1>8, <1>10

\* A step of a node that has joined.
LEMMA SynchedStep ==
  ASSUME SynchInv, NEW n \in Node, NEW queues, Taken(n, queues), Typed',
         Handled(n, queues), np[n].timesynch, Running(n),
         \A p \in Node \ {n} : inits'[p] = inits[p]
  PROVE  InitializeFirst' /\ NobodyUnsynched'
<1>1. CASE \E c \in GoodRecords, out \in Seq(Message) :
             Descends(np[n], c) /\ Finish(n, queues, c, out)
  BY <1>1, OthersWait
<1>2. CASE \E assert \in Failures :
             (assert = "timesynch" => ~np[n].timesynch) /\ Fail(n, queues, assert)
  <2>1. PICK assert \in Failures : assert # "timesynch" /\ Fail(n, queues, assert)
    BY <1>2
  <2> QED BY <2>1, OthersGoOn
<1> QED BY <1>1, <1>2 DEF Handled

\* A node that has not joined and still has not after the step.
LEMMA StillSilent ==
  ASSUME SynchInv, NEW n \in Node, NEW c \in GoodRecords, ~np[n].timesynch,
         Mute(c), c.ns = np[n].ns, ~c.timesynch, Finish(n, net, c, << >>),
         inits' = inits
  PROVE  InitializeFirst' /\ NobodyUnsynched'
<1>1. np \in [Node -> GoodRecords] /\ failed \in [Node -> Outcomes] /\ net \in Queues
  BY DEF SynchInv, Typed
<1>2. np' = [np EXCEPT ![n] = c] /\ failed' = failed /\ net' = Sent(net, n, c, << >>)
  BY DEF Finish
<1>3. \A a, b \in Node : net'[<<a, b>>] = net[<<a, b>>]
  <2> SUFFICES ASSUME NEW a \in Node, NEW b \in Node
               PROVE  net'[<<a, b>>] = net[<<a, b>>]
    OBVIOUS
  <2>1. net'[<<a, b>>] = net[<<a, b>>] \/ net'[<<a, b>>] = net[<<a, b>>] \o << >>
    BY <1>2 DEF Sent
  <2>2. PICK q \in Seq(Message) : q = net[<<a, b>>]
    BY <1>1 DEF Queues
  <2>3. q \o << >> = q
    BY ConcatEmptySeq
  <2> QED BY <2>1, <2>2, <2>3
<1>4. NobodyUnsynched'
  BY <1>2 DEF SynchInv, NobodyUnsynched
<1>5. \A p \in Node : /\ np'[p].ns = np[p].ns /\ (np'[p].timesynch <=> np[p].timesynch)
                      /\ Mute(np[p]) => Mute(np'[p])
  BY <1>1, <1>2
<1> SUFFICES ASSUME NEW p \in Node, Running(p)', ~np'[p].timesynch
             PROVE  Silent(p)' /\ Awaits(p)'
  BY <1>4 DEF InitializeFirst
<1>6. Silent(p) /\ Awaits(p)
  BY <1>2, <1>5 DEF SynchInv, InitializeFirst, Running
<1>7. Silent(p)'
  BY <1>3, <1>5, <1>6 DEF Silent
<1>8. \A m \in Addrs(np[p].ns) : m \in Node
  BY <1>1, GoodIsTyped
<1>9. \A m \in Node : Running(m)' <=> Running(m)
  BY <1>2 DEF Running
<1>10. np'[p].ns = np[p].ns
  BY <1>5
<1>11. ASSUME NEW m \in Addrs(np[p].ns)
       PROVE  IF net'[<<m, p>>] = << >>
              THEN np'[m].timesynch /\ Running(m)' => p \notin Addrs(np'[m].ns)
              ELSE Head(net'[<<m, p>>]).type = INITIALIZE_BEST_PATHS_PACKET
  <2>1. /\ m \in Node /\ np'[m].ns = np[m].ns /\ (np'[m].timesynch <=> np[m].timesynch)
        /\ (Running(m)' <=> Running(m)) /\ net'[<<m, p>>] = net[<<m, p>>]
    BY <1>3, <1>5, <1>8, <1>9
  <2>2. IF net[<<m, p>>] = << >>
        THEN np[m].timesynch /\ Running(m) => p \notin Addrs(np[m].ns)
        ELSE Head(net[<<m, p>>]).type = INITIALIZE_BEST_PATHS_PACKET
    BY <1>6 DEF Awaits
  <2> QED BY <2>1, <2>2
<1>12. Awaits(p)'
  BY <1>10, <1>11 DEF Awaits
<1> QED BY <1>7, <1>12

\* A packet that is dropped.
LEMMA DroppedSynch ==
  ASSUME SynchInv, NEW m \in Node, NEW n \in Node, net[<<m, n>>] # << >>,
         net' = Rest(m, n), UNCHANGED <<np, failed, inits>>,
         np[n].timesynch \/ m \notin Addrs(np[n].ns)
  PROVE  InitializeFirst' /\ NobodyUnsynched'
<1>1. np \in [Node -> GoodRecords]
  BY DEF SynchInv, Typed
<1>2. NobodyUnsynched'
  BY DEF SynchInv, NobodyUnsynched
<1>3. Taken(n, net')
  BY RestTaken DEF SynchInv
<1> SUFFICES ASSUME NEW p \in Node, Running(p)', ~np[p].timesynch
             PROVE  Silent(p)' /\ Awaits(p)'
  BY <1>2 DEF InitializeFirst
<1>4. Silent(p) /\ Awaits(p)
  BY DEF SynchInv, InitializeFirst, Running
<1>5. Silent(p)'
  BY <1>3, <1>4 DEF Silent, Taken
<1>6. ASSUME NEW a \in Addrs(np[p].ns)
      PROVE  net'[<<a, p>>] = net[<<a, p>>]
  <2>1. a \in Node
    BY <1>1, GoodIsTyped
  <2>2. net' = [net EXCEPT ![<<m, n>>] = Tail(@)]
    BY DEF Rest
  <2>3. <<a, p>> # <<m, n>>
    OBVIOUS
  <2>4. net \in Queues
    BY DEF SynchInv, Typed
  <2> QED BY <2>1, <2>2, <2>3, <2>4 DEF Queues
<1>7. Awaits(p)'
  BY <1>4, <1>6 DEF Awaits, Running
<1> QED BY <1>5, <1>7

LEMMA InitializeSynch ==
  ASSUME SynchInv, NEW n \in Node, NEW queues, Taken(n, queues), Typed', Running(n),
         NEW seqno \in 1..MaxInits, Initialize(n, queues, seqno)
  PROVE  InitializeFirst' /\ NobodyUnsynched'
<1>1. \A p \in Node \ {n} : inits'[p] = inits[p]
  BY DEF Initialize, SynchInv, Typed, EnvTyped
<1>2. CASE np[n].timesynch
  <2>1. Handled(n, queues)
    BY InitializeHandled DEF SynchInv
  <2> QED BY <1>1, <1>2, <2>1, SynchedStep
<1>3. CASE ~np[n].timesynch
  <2>1. ~np[n].has_sent_node_info
    BY <1>3 DEF SynchInv, InitializeFirst, Silent, Mute
  <2>2. PICK c \in GoodRecords, out \in Seq(Message) :
          /\ Descends(np[n], c) /\ Finish(n, queues, c, out)
          /\ c.timesynch /\ out # << >>
          /\ Head(out).type = INITIALIZE_BEST_PATHS_PACKET
    BY <2>1, InitializeForwards DEF SynchInv
  <2> QED BY <1>1, <2>2, OthersWait
<1> QED BY <1>2, <1>3

\* What the light sensor shows does not change anything else.
LEMMA SensorOnly ==
  ASSUME NEW b \in GoodRecords, NEW r \in Metrics, ~b.timesynch, Mute(b)
  PROVE  LET c == [b EXCEPT !.sensors_metric = r]
         IN  c \in GoodRecords /\ c.bpn = NoNode /\ Mute(c) /\ c.ns = b.ns /\ ~c.timesynch
<1> DEFINE c == [b EXCEPT !.sensors_metric = r]
<1>1. b \in NodeProperties
  BY GoodIsTyped
<1>2. /\ c.bpn = b.bpn /\ c.ns = b.ns /\ ~c.timesynch
      /\ ~c.is_blinking /\ ~c.is_burning /\ ~c.has_sent_node_info
  BY <1>1 DEF NodeProperties, Mute
<1>3. PICK p \in BOOLEAN : TRUE
  OBVIOUS
<1>4. Descends(b, c)
  BY FlagsDescend, Zenon
<1> QED BY <1>2, <1>4 DEF Descends, Mute

\* The steps that a node takes by itself before it has joined.
LEMMA UnsynchedStep ==
  ASSUME SynchInv, Typed', NEW n \in Node, Running(n), ~np[n].timesynch,
         \/ HearInitialize(n) \/ RecvEmergency(n) \/ SenseEmergency(n)
         \/ SenseNoEmergency(n) \/ SendKeepAlive(n) \/ CheckKeepAlive(n)
         \/ BlinkFails(n) \/ LosePower(n)
  PROVE  InitializeFirst' /\ NobodyUnsynched'
<1>1. Typed /\ Taken(n, net)
  BY NetTaken DEF SynchInv
<1>2. PICK b \in GoodRecords : b = np[n]
  BY <1>1, RecordOf
<1>3. Mute(b) /\ ~b.timesynch
  BY <1>2 DEF SynchInv, InitializeFirst, Silent
<1>4. ASSUME NEW assert \in Failures, assert # "timesynch", Fail(n, net, assert),
             UNCHANGED env
      PROVE  InitializeFirst' /\ NobodyUnsynched'
  <2>1. inits' = inits
    BY <1>4 DEF env
  <2> QED BY <1>1, <1>4, <2>1, OthersGoOn
<1>5. CASE HearInitialize(n)
  BY <1>1, <1>5, InitializeSynch DEF HearInitialize
<1>6. CASE RecvEmergency(n)
  <2>1. PICK yes \in BOOLEAN : yes = TRUE
    BY Zenon
  <2>2. PICK c : c = [b EXCEPT !.is_blinking = yes]
    OBVIOUS
  <2>3. BlinkingUpdateFails(c)
    <3>1. (yes => c.is_blinking) /\ ~c.is_burning /\ c.bpn = NoNode
      BY <1>3, <2>2, GoodIsTyped DEF NodeProperties, Mute
    <3>2. c.is_blinking
      BY <2>1, <3>1
    <3> QED BY <3>1, <3>2 DEF BlinkingUpdateFails
  <2>4. FinishBlinking(n, net, c, << >>) /\ UNCHANGED env
    BY <1>2, <1>6, <2>1, <2>2, Zenon DEF RecvEmergency
  <2>5. Fail(n, net, "bpn")
    BY <2>3, <2>4 DEF FinishBlinking
  <2>6. "bpn" \in Failures /\ "bpn" # "timesynch"
    BY DEF Failures
  <2> QED BY <1>4, <2>4, <2>5, <2>6
<1>7. CASE SenseEmergency(n)
  <2> DEFINE C(r) == [np[n] EXCEPT !.sensors_metric = r]
             D(r) == [C(r) EXCEPT !.is_burning = TRUE, !.is_blinking = TRUE]
  <2>1. PICK r \in Readings :
          /\ SensorChanges(n, r)
          /\ IF C(r).bpn = NoNode \/ C(r).is_burning
             THEN Finish(n, net, C(r), << >>) /\ UNCHANGED alarms
             ELSE /\ alarms' = alarms \cup {n}
                  /\ IF ~C(r).timesynch
                     THEN Fail(n, net, "timesynch")
                     ELSE Finish(n, net, D(r),
                                 <<Announcement(D(r), n, BEST_PATH_UPDATE_PACKET)>>)
    BY <1>7, Zenon DEF SenseEmergency
  <2>2. r \in Metrics
    BY ReadingsTyped
  <2>3. PICK c \in GoodRecords :
          /\ c = [b EXCEPT !.sensors_metric = r]
          /\ c.bpn = NoNode /\ Mute(c) /\ c.ns = b.ns /\ ~c.timesynch
    BY <1>3, <2>2, SensorOnly
  <2>4. C(r) = c
    BY <1>2, <2>3, Zenon
  <2> HIDE DEF C, D
  <2>5. Finish(n, net, c, << >>)
    BY <2>1, <2>3, <2>4, Zenon
  <2>6. inits' = inits
    BY <2>1 DEF SensorChanges
  <2>7. c.ns = np[n].ns
    BY <1>2, <2>3
  <2> QED BY <2>3, <2>5, <2>6, <2>7, StillSilent
<1>8. CASE SenseNoEmergency(n)
  <2> DEFINE C(r) == [np[n] EXCEPT !.sensors_metric = r, !.is_burning = FALSE]
             E(r) == [np[n] EXCEPT !.sensors_metric = r]
  <2>1. PICK r \in Readings :
          /\ SensorChanges(n, r)
          /\ IF ~np[n].is_blinking
             THEN Finish(n, net, E(r), << >>)
             ELSE IF C(r).bpn = NoNode
             THEN Fail(n, net, "bpn")
             ELSE Finish(n, net, C(r), <<Announcement(C(r), n, BEST_PATH_UPDATE_PACKET)>>)
    BY <1>8, Zenon DEF SenseNoEmergency
  <2>2. r \in Metrics
    BY ReadingsTyped
  <2>3. PICK c \in GoodRecords :
          /\ c = [b EXCEPT !.sensors_metric = r]
          /\ c.bpn = NoNode /\ Mute(c) /\ c.ns = b.ns /\ ~c.timesynch
    BY <1>3, <2>2, SensorOnly
  <2>4. E(r) = c /\ ~np[n].is_blinking
    BY <1>2, <1>3, <2>3 DEF Mute
  <2> HIDE DEF C, E
  <2>5. Finish(n, net, c, << >>)
    BY <2>1, <2>4, Zenon
  <2>6. inits' = inits
    BY <2>1 DEF SensorChanges
  <2>7. c.ns = np[n].ns
    BY <1>2, <2>3
  <2> QED BY <2>3, <2>5, <2>6, <2>7, StillSilent
<1>9. CASE SendKeepAlive(n) \/ CheckKeepAlive(n) \/ BlinkFails(n)
  BY <1>2, <1>3, <1>9 DEF SendKeepAlive, CheckKeepAlive, BlinkFails, Mute
<1>10. CASE LosePower(n)
  <2>1. "power" \in Failures /\ "power" # "timesynch"
    BY DEF Failures
  <2>2. Fail(n, net, "power") /\ UNCHANGED env
    BY <1>10 DEF LosePower
  <2> QED BY <1>4, <2>1, <2>2
<1> QED BY <1>5, <1>6, <1>7, <1>8, <1>9, <1>10

LEMMA OwnStepSynch ==
  ASSUME SynchInv, Typed', NEW n \in Node,
         \/ HearInitialize(n) \/ RecvEmergency(n) \/ SenseEmergency(n)
         \/ SenseNoEmergency(n) \/ SendKeepAlive(n) \/ CheckKeepAlive(n)
         \/ BlinkFails(n) \/ LosePower(n)
  PROVE  InitializeFirst' /\ NobodyUnsynched'
<1>1. Running(n)
  BY DEF HearInitialize, RecvEmergency, SenseEmergency, SenseNoEmergency, SensorChanges,
         SendKeepAlive, CheckKeepAlive, BlinkFails, LosePower
<1>2. CASE ~np[n].timesynch
  BY <1>1, <1>2, UnsynchedStep
<1>3. CASE np[n].timesynch
  <2>1. Typed /\ Taken(n, net)
    BY NetTaken DEF SynchInv
  <2>2. Handled(n, net)
    BY <2>1, OwnStepHandled
  <2>3. \A p \in Node \ {n} : inits'[p] = inits[p]
    <3>1. inits \in [Node -> SUBSET (1..MaxInits)]
      BY <2>1 DEF Typed, EnvTyped
    <3>2. inits' = inits \/ \E seqno : inits' = [inits EXCEPT ![n] = @ \cup {seqno}]
      BY DEF HearInitialize, Initialize, RecvEmergency, SenseEmergency, SenseNoEmergency,
             SensorChanges, SendKeepAlive, CheckKeepAlive, BlinkFails, LosePower, env
    <3> QED BY <3>1, <3>2
  <2> QED BY <1>1, <1>3, <2>1, <2>2, <2>3, SynchedStep
<1> QED BY <1>2, <1>3

LEMMA ReceiveSynch ==
  ASSUME SynchInv, Typed', NEW m \in Node, NEW n \in Node, Receive(m, n)
  PROVE  InitializeFirst' /\ NobodyUnsynched'
<1>1. net[<<m, n>>] # << >> /\ Running(n) /\ Typed
  BY ReceiveHandled DEF SynchInv
<1>2. Taken(n, Rest(m, n))
  BY <1>1, RestTaken
<1>3. CASE RecvFromStranger(m, n)
  <2>1. /\ net' = Rest(m, n) /\ UNCHANGED <<np, failed, inits>>
        /\ m \notin Addrs(np[n].ns)
    BY <1>3 DEF RecvFromStranger, env
  <2> QED BY <1>1, <2>1, DroppedSynch
<1>4. CASE RecvInitialize(m, n)
  <2>1. PICK p \in Message : p = Head(net[<<m, n>>])
    BY <1>1, RestTaken
  <2>2. PICK seqno \in 1..MaxInits : seqno = p.seqno
    BY <1>4, <2>1, MessageFields DEF RecvInitialize
  <2>3. \/ /\ seqno \in inits[n]
           /\ net' = Rest(m, n) /\ UNCHANGED <<np, failed, env>>
        \/ Initialize(n, Rest(m, n), seqno)
    BY <1>4, <2>1, <2>2 DEF RecvInitialize
  <2>4. CASE Initialize(n, Rest(m, n), seqno)
    BY <1>1, <1>2, <2>4, InitializeSynch
  <2>5. CASE seqno \in inits[n] /\ net' = Rest(m, n) /\ UNCHANGED <<np, failed, env>>
    <3>1. np[n].timesynch
      BY <1>1, <2>5 DEF SynchInv, InitializeFirst, Silent
    <3>2. UNCHANGED <<np, failed, inits>>
      BY <2>5 DEF env
    <3> QED BY <1>1, <2>5, <3>1, <3>2, DroppedSynch
  <2> QED BY <2>3, <2>4, <2>5
<1>5. CASE RecvNodeInfo(m, n) \/ RecvBestPathUpdate(m, n) \/ RecvKeepAlive(m, n)
  <2>1. /\ m \in Addrs(np[n].ns) /\ UNCHANGED env
        /\ Head(net[<<m, n>>]).type # INITIALIZE_BEST_PATHS_PACKET
    BY <1>5 DEF RecvNodeInfo, RecvBestPathUpdate, RecvKeepAlive, NODE_INFO_PACKET,
       BEST_PATH_UPDATE_PACKET, KEEP_ALIVE_NEIGHBOR, INITIALIZE_BEST_PATHS_PACKET
  <2>2. np[n].timesynch
    BY <1>1, <2>1 DEF SynchInv, InitializeFirst, Awaits
  <2>3. Handled(n, Rest(m, n))
    BY <1>1, <1>5, RecvNodeInfoHandled, RecvBestPathUpdateHandled, RecvKeepAliveHandled
  <2>4. inits' = inits
    BY <2>1 DEF env
  <2> QED BY <1>1, <1>2, <2>2, <2>3, <2>4, SynchedStep
<1> QED BY <1>3, <1>4, <1>5 DEF Receive

\* Only what the neighbour connection gives up is counted as lost.
LEMMA NothingLost ==
  ASSUME NEW n \in Node,
         \/ HearInitialize(n) \/ RecvEmergency(n) \/ SenseEmergency(n)
         \/ SenseNoEmergency(n) \/ SendKeepAlive(n) \/ CheckKeepAlive(n)
         \/ BlinkFails(n) \/ LosePower(n)
         \/ \E m \in Node : Receive(m, n)
  PROVE  losses' = losses
BY DEF HearInitialize, Initialize, RecvEmergency, SenseEmergency, SenseNoEmergency,
       SensorChanges, SendKeepAlive, CheckKeepAlive, BlinkFails, LosePower, Receive,
       RecvFromStranger, RecvInitialize, RecvNodeInfo, RecvBestPathUpdate,
       RecvKeepAlive, env

\* Spec => []BurningIsSynched: as long as the neighbour connection gives no
\* packet up, the ASSERT of emergency_conn.c:946 holds when a node that senses
\* fire starts an EMERGENCY broadcast, because it has a path only if it heard
\* INITIALIZE before any NODE_INFO (initialize_best_path_packet_handler).
THEOREM BurningKnowsTime == Spec => []BurningIsSynched
<1> DEFINE Inv == Typed /\ (losses = 0 => InitializeFirst /\ NobodyUnsynched)
<1>1. Init => Inv
  BY InitTyped, InitSynch
<1>2. Inv /\ [Next]_vars => Inv'
  <2> SUFFICES ASSUME Inv, [Next]_vars, losses' = 0
               PROVE  InitializeFirst' /\ NobodyUnsynched'
    BY NextTyped
  <2>1. Typed /\ Typed'
    BY NextTyped
  <2>2. CASE losses = 0
    <3>1. SynchInv
      BY <2>2 DEF SynchInv
    <3>2. CASE UNCHANGED vars
      BY <3>1, <3>2 DEF SynchInv, vars, env, InitializeFirst, NobodyUnsynched, Silent,
         Awaits, Running
    <3>3. ASSUME NEW n \in Node,
                 \/ HearInitialize(n) \/ RecvEmergency(n) \/ SenseEmergency(n)
                 \/ SenseNoEmergency(n) \/ SendKeepAlive(n) \/ CheckKeepAlive(n)
                 \/ BlinkFails(n) \/ LosePower(n)
          PROVE  InitializeFirst' /\ NobodyUnsynched'
      BY <2>1, <3>1, <3>3, OwnStepSynch
    <3>4. ASSUME NEW m \in Node, NEW n \in Node, Receive(m, n)
          PROVE  InitializeFirst' /\ NobodyUnsynched'
      BY <2>1, <3>1, <3>4, ReceiveSynch
    <3>5. ASSUME NEW m \in Node, NEW n \in Node, GiveUp(m, n)
          PROVE  FALSE
      BY <2>2, <3>5 DEF GiveUp
    <3> QED BY <3>2, <3>3, <3>4, <3>5 DEF Next
  <2>3. CASE losses # 0
    <3>1. losses \in Nat
      BY <2>1, EscapePathsAssumption DEF Typed, EnvTyped
    <3>2. CASE UNCHANGED vars
      BY <2>3, <3>2 DEF vars, env
    <3>3. ASSUME NEW m \in Node, NEW n \in Node, GiveUp(m, n)
          PROVE  FALSE
      BY <3>1, <3>3 DEF GiveUp
    <3> QED BY <2>3, <3>2, <3>3, NothingLost DEF Next
  <2> QED BY <2>2, <2>3
<1>3. Inv => BurningIsSynched
  BY DEF NobodyUnsynched, BurningIsSynched
<1> QED BY <1>1, <1>2, <1>3, PTL DEF Spec

-----------------------------------------------------------------------------
(* Losing the path.  The ASSERT of main_reg_sensor.c:263 finds no best path  *)
(* neighbour only where StopsForAReason says.                                *)

\* A node that has told of itself has a path, unless it has no neighbour left.
Told(b) == b.bpn = NoNode /\ b.has_sent_node_info => Addrs(b.ns) = {}

\* The path is gone, or would be in the middle of a keep-alive check.
LosesPath(b) == b.bpn = NoNode \/ b.bpn \in Removed(b.ns)

ToldInv ==
  \A n \in Node :
    /\ Running(n) => Told(np[n])
    /\ failed[n] = "bpn" =>
         ~np[n].has_sent_node_info \/ Addrs(np[n].ns) = {} \/ np[n].bpn \in Removed(np[n].ns)

\* What every handler of n does as to its path.
Tells(n, queues) ==
  \/ \E c, out : Told(c) /\ Finish(n, queues, c, out)
  \/ \E assert \in Failures :
       (assert = "bpn" => LosesPath(np[n])) /\ Fail(n, queues, assert)

LEMMA TellsStep ==
  ASSUME Typed, ToldInv, NEW n \in Node, NEW queues, Running(n), Tells(n, queues)
  PROVE  ToldInv'
<1>1. np \in [Node -> GoodRecords] /\ failed \in [Node -> Outcomes]
  BY DEF Typed
<1>2. failed[n] = "none" /\ Told(np[n])
  BY DEF ToldInv, Running
<1>3. ASSUME NEW p \in Node,
             failed'[p] = failed[p], np'[p] = np[p]
      PROVE  /\ failed'[p] = "none" => Told(np'[p])
             /\ failed'[p] = "bpn" =>
                  \/ ~np'[p].has_sent_node_info \/ Addrs(np'[p].ns) = {}
                  \/ np'[p].bpn \in Removed(np'[p].ns)
  BY <1>3 DEF ToldInv, Running
<1>4. ASSUME NEW c, NEW out, Told(c), Finish(n, queues, c, out)
      PROVE  ToldInv'
  <2>1. failed' = failed /\ np'[n] = c /\ \A p \in Node \ {n} : np'[p] = np[p]
    BY <1>1, <1>4 DEF Finish
  <2>2. Told(np'[n]) /\ failed'[n] = "none"
    BY <1>2, <1>4, <2>1
  <2> QED BY <1>3, <2>1, <2>2 DEF ToldInv, Running, Told
<1>5. ASSUME NEW assert \in Failures, assert = "bpn" => LosesPath(np[n]),
             Fail(n, queues, assert)
      PROVE  ToldInv'
  <2>1. np' = np /\ failed'[n] = assert /\ \A p \in Node \ {n} : failed'[p] = failed[p]
    BY <1>1, <1>5 DEF Fail
  <2>2. failed'[n] # "none"
    BY <2>1 DEF Failures
  <2>3. failed'[n] = "bpn" =>
          \/ ~np[n].has_sent_node_info \/ Addrs(np[n].ns) = {}
          \/ np[n].bpn \in Removed(np[n].ns)
    BY <1>2, <1>5, <2>1 DEF LosesPath, Told
  <2> QED BY <1>3, <2>1, <2>2, <2>3 DEF ToldInv, Running, Told
<1> QED BY <1>4, <1>5 DEF Tells

\* The updates that leave the path and has_sent_node_info alone.
LEMMA PathUntouched ==
  ASSUME NEW b \in GoodRecords, Told(b), NEW c, Descends(b, c), c.bpn = b.bpn,
         c.has_sent_node_info <=> b.has_sent_node_info
  PROVE  Told(c)
BY DEF Told, Descends

LEMMA PathTold == ASSUME NEW c, c.bpn # NoNode PROVE Told(c)
BY DEF Told

LEMMA FlagsUntouched ==
  ASSUME NEW b \in GoodRecords, Told(b), NEW r \in Metrics
  PROVE  /\ Told([b EXCEPT !.timesynch = TRUE])
         /\ Told([b EXCEPT !.is_blinking = TRUE])
         /\ Told([b EXCEPT !.sensors_metric = r])
         /\ Told([b EXCEPT !.sensors_metric = r, !.is_burning = FALSE])
<1>1. b \in NodeProperties
  BY GoodIsTyped
<1>2. PICK yes \in BOOLEAN, no \in BOOLEAN : yes = TRUE /\ no = FALSE
  BY Zenon
<1> DEFINE c1 == [b EXCEPT !.timesynch = yes]
           c2 == [b EXCEPT !.is_blinking = yes]
           c3 == [b EXCEPT !.sensors_metric = r]
           c4 == [b EXCEPT !.sensors_metric = r, !.is_burning = no]
<1>3. /\ c1.bpn = b.bpn /\ (c1.has_sent_node_info <=> b.has_sent_node_info) /\ c1.ns = b.ns
      /\ c2.bpn = b.bpn /\ (c2.has_sent_node_info <=> b.has_sent_node_info) /\ c2.ns = b.ns
  BY <1>1 DEF NodeProperties
<1>4. /\ c3.bpn = b.bpn /\ (c3.has_sent_node_info <=> b.has_sent_node_info) /\ c3.ns = b.ns
      /\ c4.bpn = b.bpn /\ (c4.has_sent_node_info <=> b.has_sent_node_info) /\ c4.ns = b.ns
  BY <1>1 DEF NodeProperties
<1> HIDE DEF c1, c2, c3, c4
<1>5. Told(c1) /\ Told(c2) /\ Told(c3) /\ Told(c4)
  BY <1>3, <1>4 DEF Told
<1> QED BY <1>2, <1>5, Zenon DEF c1, c2, c3, c4

LEMMA TableUntouched ==
  ASSUME NEW b \in GoodRecords, Told(b), NEW i \in DOMAIN b.ns,
         NEW d \in Metrics, NEW p \in BestPath
  PROVE  /\ Told([b EXCEPT !.ns[i].distance = d, !.ns[i].bp = p])
         /\ Told([b EXCEPT !.ns[i].bp = p])
         /\ Told([b EXCEPT !.ns[i].has_sent_keep_alive = TRUE])
<1>1. b \in NodeProperties /\ b.ns \in Seq(NeighborNodes)
  BY GoodIsTyped
<1>2. PICK yes \in BOOLEAN : yes = TRUE
  BY Zenon
<1> DEFINE c1 == [b EXCEPT !.ns[i].distance = d, !.ns[i].bp = p]
           c2 == [b EXCEPT !.ns[i].bp = p]
           c3 == [b EXCEPT !.ns[i].has_sent_keep_alive = yes]
<1>3. /\ c1.bpn = b.bpn /\ (c1.has_sent_node_info <=> b.has_sent_node_info)
      /\ c2.bpn = b.bpn /\ (c2.has_sent_node_info <=> b.has_sent_node_info)
      /\ c3.bpn = b.bpn /\ (c3.has_sent_node_info <=> b.has_sent_node_info)
  BY <1>1 DEF NodeProperties
<1>4. Descends(b, c1) /\ Descends(b, c2) /\ Descends(b, c3)
  BY HeardDescends, Zenon
<1> HIDE DEF c1, c2, c3
<1>5. Told(c1) /\ Told(c2) /\ Told(c3)
  BY <1>3, <1>4, PathUntouched
<1> QED BY <1>2, <1>5, Zenon DEF c1, c2, c3

LEMMA InitializeTells ==
  ASSUME Typed, NEW n \in Node, NEW queues, NEW seqno \in 1..MaxInits,
         Told(np[n]), Initialize(n, queues, seqno)
  PROVE  Tells(n, queues)
<1> DEFINE forward == [type |-> INITIALIZE_BEST_PATHS_PACKET, seqno |-> seqno]
           D(c) == [TakeBest(c, n) EXCEPT !.has_sent_node_info = TRUE]
<1>1. PICK b \in GoodRecords : b = np[n] /\ Told(b)
  BY RecordOf
<1>2. PICK c \in GoodRecords :
        c = [b EXCEPT !.timesynch = TRUE] /\ Descends(b, c) /\ Told(c)
  BY <1>1, FlagsSet, FlagsUntouched, MetricsTyped, Zenon DEF Descends
<1>3. PICK t \in GoodRecords : t = TakeBest(c, n) /\ t.bpn # NoNode
  <2>1. Descends(b, c)
    BY <1>2
  <2> QED BY <2>1, BestDescends
<1>4. PICK d : d = [t EXCEPT !.has_sent_node_info = TRUE] /\ d.bpn # NoNode
  BY <1>3, PathStays
<1>5. \/ Finish(n, queues, c, <<forward>>)
      \/ Fail(n, queues, "has_sent_node_info")
      \/ Finish(n, queues, d, <<forward, Announcement(d, n, NODE_INFO_PACKET)>>)
  BY <1>1, <1>2, <1>3, <1>4, Zenon DEF Initialize
<1>6. Told(c) /\ Told(d)
  BY <1>2, <1>4, PathTold
<1> HIDE DEF forward
<1>7. "has_sent_node_info" \in Failures /\ "has_sent_node_info" # "bpn"
  BY DEF Failures
<1> QED BY <1>5, <1>6, <1>7, Zenon DEF Tells

LEMMA RecvNodeInfoTells ==
  ASSUME Typed, NEW m \in Node, NEW n \in Node, Told(np[n]), RecvNodeInfo(m, n)
  PROVE  Tells(n, Rest(m, n))
<1>1. PICK b \in GoodRecords : b = np[n] /\ Told(b)
  BY RecordOf
<1>2. /\ m \in Addrs(b.ns) /\ net[<<m, n>>] # << >>
      /\ Head(net[<<m, n>>]).type = NODE_INFO_PACKET
  BY <1>1 DEF RecvNodeInfo, Arrives
<1>3. PICK p \in Message : p = Head(net[<<m, n>>])
  BY <1>2, RestTaken
<1>4. PICK path \in BestPath : path = p.bp
  BY <1>2, <1>3, MessageFields
<1>5. PICK i \in DOMAIN b.ns : i = Position(b.ns, m)
  BY <1>1, <1>2, SenderFound
<1>6. PICK distance \in Metrics : distance = Distance[<<m, n>>]
  BY EscapePathsAssumption
<1>7. PICK c \in GoodRecords :
         /\ c = [b EXCEPT !.ns[i].distance = distance, !.ns[i].bp = path]
         /\ Descends(b, c) /\ Told(c)
  <2>1. PICK yes \in BOOLEAN : TRUE
    OBVIOUS
  <2>2. /\ Descends(b, [b EXCEPT !.ns[i].distance = distance, !.ns[i].bp = path])
        /\ Told([b EXCEPT !.ns[i].distance = distance, !.ns[i].bp = path])
    BY <1>1, HeardDescends, TableUntouched, Zenon
  <2> QED BY <2>2, Zenon DEF Descends
<1>8. PICK t \in GoodRecords : t = TakeBest(c, n) /\ t.bpn # NoNode
  <2>1. Descends(b, c)
    BY <1>7
  <2> QED BY <2>1, BestDescends
<1>9. PICK d : d = [t EXCEPT !.has_sent_node_info = TRUE] /\ d.bpn # NoNode
  BY <1>8, PathStays
<1>10. \/ Finish(n, Rest(m, n), d, <<Announcement(d, n, NODE_INFO_PACKET)>>)
       \/ Finish(n, Rest(m, n), t, <<Announcement(t, n, BEST_PATH_UPDATE_PACKET)>>)
       \/ Finish(n, Rest(m, n), c, << >>)
  BY <1>1, <1>3, <1>4, <1>5, <1>6, <1>7, <1>8, <1>9, Zenon DEF RecvNodeInfo
<1>11. Told(c) /\ Told(d) /\ Told(t)
  BY <1>7, <1>8, <1>9, PathTold
<1> QED BY <1>10, <1>11, Zenon DEF Tells

LEMMA RecvBestPathUpdateTells ==
  ASSUME Typed, NEW m \in Node, NEW n \in Node, Told(np[n]), RecvBestPathUpdate(m, n)
  PROVE  Tells(n, Rest(m, n))
<1>1. PICK b \in GoodRecords : b = np[n] /\ Told(b)
  BY RecordOf
<1>2. /\ m \in Addrs(b.ns) /\ net[<<m, n>>] # << >>
      /\ Head(net[<<m, n>>]).type = BEST_PATH_UPDATE_PACKET
  BY <1>1 DEF RecvBestPathUpdate, Arrives
<1>3. PICK p \in Message : p = Head(net[<<m, n>>])
  BY <1>2, RestTaken
<1>4. PICK path \in BestPath : path = p.bp
  BY <1>2, <1>3, MessageFields
<1>5. PICK i \in DOMAIN b.ns : i = Position(b.ns, m)
  BY <1>1, <1>2, SenderFound
<1>6. PICK c \in GoodRecords :
        c = [b EXCEPT !.ns[i].bp = path] /\ Descends(b, c) /\ Told(c)
  <2>1. PICK distance \in Metrics : TRUE
    BY MetricsTyped
  <2>2. PICK yes \in BOOLEAN : TRUE
    OBVIOUS
  <2>3. Descends(b, [b EXCEPT !.ns[i].bp = path]) /\ Told([b EXCEPT !.ns[i].bp = path])
    BY <1>1, HeardDescends, TableUntouched, Zenon
  <2> QED BY <2>3, Zenon DEF Descends
<1>7. PICK t \in GoodRecords : t = TakeBest(c, n) /\ t.bpn # NoNode
  <2>1. Descends(b, c)
    BY <1>6
  <2> QED BY <2>1, BestDescends
<1>8. \/ Finish(n, Rest(m, n), t, <<Announcement(t, n, BEST_PATH_UPDATE_PACKET)>>)
      \/ Finish(n, Rest(m, n), c, << >>)
  BY <1>1, <1>3, <1>4, <1>5, <1>6, <1>7, Zenon DEF RecvBestPathUpdate
<1>9. Told(c) /\ Told(t)
  BY <1>6, <1>7, PathTold
<1> QED BY <1>8, <1>9, Zenon DEF Tells

\* Whatever else is received, and the sensor.
LEMMA ReceiveTells ==
  ASSUME Typed, NEW m \in Node, NEW n \in Node, Told(np[n]), Receive(m, n)
  PROVE  Tells(n, Rest(m, n)) \/ UNCHANGED <<np, failed>>
<1>1. CASE RecvFromStranger(m, n)
  BY <1>1 DEF RecvFromStranger
<1>2. CASE RecvInitialize(m, n)
  <2>1. net[<<m, n>>] # << >>
    BY <1>2 DEF RecvInitialize, Arrives
  <2>2. PICK p \in Message : p = Head(net[<<m, n>>])
    BY <2>1, RestTaken
  <2>3. PICK seqno \in 1..MaxInits : seqno = p.seqno
    BY <1>2, <2>2, MessageFields DEF RecvInitialize
  <2>4. UNCHANGED <<np, failed>> \/ Initialize(n, Rest(m, n), seqno)
    BY <1>2, <2>2, <2>3 DEF RecvInitialize
  <2> QED BY <2>4, InitializeTells
<1>3. CASE RecvKeepAlive(m, n)
  <2>1. PICK b \in GoodRecords : b = np[n] /\ Told(b)
    BY RecordOf
  <2>2. m \in Addrs(b.ns)
    BY <1>3, <2>1 DEF RecvKeepAlive
  <2>3. PICK i \in DOMAIN b.ns : i = Position(b.ns, m)
    BY <2>1, <2>2, SenderFound
  <2>4. PICK c : c = [b EXCEPT !.ns[i].has_sent_keep_alive = TRUE] /\ Told(c)
    <3>1. neighbor_node_best_path_max \in BestPath /\ 0 \in Metrics
      BY MetricsTyped DEF neighbor_node_best_path_max, BestPath
    <3> QED BY <2>1, <3>1, TableUntouched
  <2>5. Finish(n, Rest(m, n), c, << >>)
    BY <1>3, <2>1, <2>3, <2>4, Zenon DEF RecvKeepAlive
  <2> QED BY <2>4, <2>5, Zenon DEF Tells
<1> QED BY <1>1, <1>2, <1>3, RecvNodeInfoTells, RecvBestPathUpdateTells DEF Receive

LEMMA SensorTells ==
  ASSUME Typed, NEW n \in Node, Told(np[n]), SenseEmergency(n) \/ SenseNoEmergency(n)
  PROVE  Tells(n, net)
<1>1. PICK b \in GoodRecords : b = np[n] /\ Told(b)
  BY RecordOf
<1>2. "bpn" \in Failures /\ "timesynch" \in Failures /\ "timesynch" # "bpn"
  BY DEF Failures
<1>3. CASE SenseEmergency(n)
  <2> DEFINE C(r) == [np[n] EXCEPT !.sensors_metric = r]
             D(r) == [C(r) EXCEPT !.is_burning = TRUE, !.is_blinking = TRUE]
  <2>1. PICK r \in Readings :
          IF C(r).bpn = NoNode \/ C(r).is_burning
          THEN Finish(n, net, C(r), << >>)
          ELSE IF ~C(r).timesynch
          THEN Fail(n, net, "timesynch")
          ELSE Finish(n, net, D(r), <<Announcement(D(r), n, BEST_PATH_UPDATE_PACKET)>>)
    BY <1>3, Zenon DEF SenseEmergency
  <2>2. r \in Metrics
    BY ReadingsTyped
  <2>3. PICK c \in GoodRecords : c = [b EXCEPT !.sensors_metric = r] /\ Told(c)
    <3>1. PICK p \in BOOLEAN : TRUE
      OBVIOUS
    <3>2. Descends(b, [b EXCEPT !.sensors_metric = r]) /\ Told([b EXCEPT !.sensors_metric = r])
      BY <1>1, <2>2, FlagsDescend, FlagsUntouched, Zenon
    <3> QED BY <3>2, Zenon DEF Descends
  <2>4. PICK d : d = [c EXCEPT !.is_burning = TRUE, !.is_blinking = TRUE] /\ d.bpn = c.bpn
    BY PathStays
  <2>5. C(r) = c /\ D(r) = d
    BY <1>1, <2>3, <2>4, Zenon
  <2> HIDE DEF C, D
  <2>6. \/ Finish(n, net, c, << >>)
        \/ Fail(n, net, "timesynch")
        \/ /\ c.bpn # NoNode
           /\ Finish(n, net, d, <<Announcement(d, n, BEST_PATH_UPDATE_PACKET)>>)
    BY <2>1, <2>5, Zenon
  <2>7. c.bpn # NoNode => Told(d)
    BY <2>4, PathTold
  <2> QED BY <1>2, <2>3, <2>6, <2>7, Zenon DEF Tells
<1>4. CASE SenseNoEmergency(n)
  <2> DEFINE C(r) == [np[n] EXCEPT !.sensors_metric = r, !.is_burning = FALSE]
             E(r) == [np[n] EXCEPT !.sensors_metric = r]
  <2>1. PICK r \in Readings :
          IF ~np[n].is_blinking
          THEN Finish(n, net, E(r), << >>)
          ELSE IF C(r).bpn = NoNode
          THEN Fail(n, net, "bpn")
          ELSE Finish(n, net, C(r), <<Announcement(C(r), n, BEST_PATH_UPDATE_PACKET)>>)
    BY <1>4, Zenon DEF SenseNoEmergency
  <2>2. r \in Metrics
    BY ReadingsTyped
  <2>3. PICK e : e = [b EXCEPT !.sensors_metric = r] /\ Told(e)
    BY <1>1, <2>2, FlagsUntouched
  <2>4. PICK c : /\ c = [b EXCEPT !.sensors_metric = r, !.is_burning = FALSE]
                 /\ Told(c) /\ c.bpn = b.bpn
    <3>1. [b EXCEPT !.sensors_metric = r, !.is_burning = FALSE].bpn = b.bpn
      BY PathStays, Zenon
    <3>2. Told([b EXCEPT !.sensors_metric = r, !.is_burning = FALSE])
      BY <1>1, <2>2, FlagsUntouched, Zenon
    <3> QED BY <3>1, <3>2, Zenon
  <2>5. C(r) = c /\ E(r) = e
    BY <1>1, <2>3, <2>4, Zenon
  <2> HIDE DEF C, E
  <2>6. \/ Finish(n, net, e, << >>)
        \/ b.bpn = NoNode /\ Fail(n, net, "bpn")
        \/ Finish(n, net, c, <<Announcement(c, n, BEST_PATH_UPDATE_PACKET)>>)
    BY <2>1, <2>4, <2>5, Zenon
  <2>7. b.bpn = NoNode => LosesPath(np[n])
    BY <1>1 DEF LosesPath
  <2> QED BY <1>2, <2>3, <2>4, <2>6, <2>7, Zenon DEF Tells
<1> QED BY <1>3, <1>4

\* The keep-alive check: whoever loses its best path neighbour and keeps another
\* takes that.
LEMMA CheckKeepAliveTells ==
  ASSUME Typed, NEW n \in Node, Told(np[n]), CheckKeepAlive(n)
  PROVE  Tells(n, net)
<1>1. PICK b \in GoodRecords : b = np[n] /\ Told(b)
  BY RecordOf
<1>2. PICK ns \in Seq(NeighborNodes) :
        ns = Survivors(b.ns) /\ Addrs(ns) \subseteq Addrs(b.ns)
  BY GoodIsTyped, SurvivorsTyped
<1> DEFINE gone == Addrs(b.ns) \ Addrs(ns)
           new == [i \in DOMAIN ns |-> [ns[i] EXCEPT !.has_sent_keep_alive = FALSE]]
<1>3. PICK c : c = [b EXCEPT !.bpn = IF @ \in gone THEN NoNode ELSE @, !.ns = new]
  OBVIOUS
<1>4. Descends(b, c)
  <2>1. PICK no \in BOOLEAN : no = FALSE
    BY Zenon
  <2>2. Descends(b, [b EXCEPT
                       !.bpn = IF @ \in Addrs(b.ns) \ Addrs(ns) THEN NoNode ELSE @,
                       !.ns  = [i \in DOMAIN ns |->
                                  [ns[i] EXCEPT !.has_sent_keep_alive = no]]])
    BY <1>2, CheckedDescends, Zenon
  <2> QED BY <1>3, <2>1, <2>2, Zenon
<1>5. PICK t \in GoodRecords : t = TakeBest(c, n) /\ t.bpn # NoNode
  BY <1>4, BestDescends DEF Descends
<1>6. \/ Finish(n, net, t, <<Announcement(t, n, BEST_PATH_UPDATE_PACKET)>>)
      \/ /\ gone = {} \/ ns = << >> \/ c.bpn # NoNode
         /\ Finish(n, net, c, << >>)
  <2>1. \/ Finish(n, net, t, <<Announcement(t, n, BEST_PATH_UPDATE_PACKET)>>)
        \/ /\ ~(gone # {} /\ ns # << >> /\ PathChanged(c, n, NoNode))
           /\ Finish(n, net, c, << >>)
    BY <1>1, <1>2, <1>3, <1>5, Zenon DEF CheckKeepAlive, Removed
  <2>2. c.bpn = NoNode => PathChanged(c, n, NoNode)
    BY DEF PathChanged
  <2> QED BY <2>1, <2>2
<1>7. /\ c.bpn = (IF b.bpn \in gone THEN NoNode ELSE b.bpn) /\ c.ns = new
      /\ c.has_sent_node_info <=> b.has_sent_node_info
  <2>1. b \in NodeProperties
    BY GoodIsTyped
  <2> HIDE DEF gone, new
  <2> QED BY <1>3, <2>1 DEF NodeProperties
<1>8. gone = {} => Told(c)
  BY <1>1, <1>4, <1>7, PathUntouched
<1>9. ns = << >> => Told(c)
  BY <1>7 DEF Told, Addrs
<1>10. c.bpn # NoNode => Told(c)
  BY PathTold
<1> HIDE DEF gone, new
<1> QED BY <1>5, <1>6, <1>8, <1>9, <1>10, PathTold, Zenon DEF Tells

\* The steps of a node by itself.
LEMMA OwnStepTells ==
  ASSUME Typed, NEW n \in Node, Told(np[n]),
         \/ HearInitialize(n) \/ RecvEmergency(n) \/ SenseEmergency(n)
         \/ SenseNoEmergency(n) \/ SendKeepAlive(n) \/ CheckKeepAlive(n)
         \/ BlinkFails(n) \/ LosePower(n)
  PROVE  Tells(n, net)
<1>1. PICK b \in GoodRecords : b = np[n] /\ Told(b)
  BY RecordOf
<1>2. "bpn" \in Failures /\ "power" \in Failures /\ "power" # "bpn"
  BY DEF Failures
<1>3. CASE HearInitialize(n)
  BY <1>3, InitializeTells DEF HearInitialize
<1>4. CASE RecvEmergency(n)
  <2>1. PICK c : c = [b EXCEPT !.is_blinking = TRUE] /\ Told(c)
    BY <1>1, FlagsUntouched, MetricsTyped
  <2>2. FinishBlinking(n, net, c, << >>)
    BY <1>1, <1>4, <2>1, Zenon DEF RecvEmergency
  <2>3. c.bpn = b.bpn
    <3>1. PICK yes : yes = TRUE
      OBVIOUS
    <3>2. b \in NodeProperties
      BY GoodIsTyped
    <3>3. [b EXCEPT !.is_blinking = yes].bpn = b.bpn
      BY <3>2 DEF NodeProperties
    <3> QED BY <2>1, <3>1, <3>3
  <2>4. \/ Finish(n, net, c, << >>)
        \/ c.bpn = NoNode /\ Fail(n, net, "bpn")
    BY <2>2 DEF FinishBlinking, BlinkingUpdateFails
  <2>5. c.bpn = NoNode => LosesPath(np[n])
    BY <1>1, <2>3 DEF LosesPath
  <2> QED BY <1>2, <2>1, <2>4, <2>5, Zenon DEF Tells
<1>5. CASE SendKeepAlive(n)
  <2>1. Finish(n, net, b, <<[type |-> KEEP_ALIVE_NEIGHBOR]>>)
    BY <1>1, <1>5 DEF SendKeepAlive
  <2> QED BY <1>1, <2>1, Zenon DEF Tells
<1>6. CASE BlinkFails(n)
  <2>1. Fail(n, net, "bpn") /\ LosesPath(np[n])
    BY <1>6 DEF BlinkFails, LosesPath
  <2> QED BY <1>2, <2>1, Zenon DEF Tells
<1>7. CASE LosePower(n)
  <2>1. Fail(n, net, "power")
    BY <1>7 DEF LosePower
  <2> QED BY <1>2, <2>1, Zenon DEF Tells
<1> QED BY <1>3, <1>4, <1>5, <1>6, <1>7, SensorTells, CheckKeepAliveTells

\* Only nodes that run take steps.
LEMMA WhoStepsRuns ==
  ASSUME NEW n \in Node,
         \/ HearInitialize(n) \/ RecvEmergency(n) \/ SenseEmergency(n)
         \/ SenseNoEmergency(n) \/ SendKeepAlive(n) \/ CheckKeepAlive(n)
         \/ BlinkFails(n) \/ LosePower(n)
  PROVE  Running(n)
BY DEF HearInitialize, RecvEmergency, SenseEmergency, SenseNoEmergency, SensorChanges,
       SendKeepAlive, CheckKeepAlive, BlinkFails, LosePower

\* Spec => []StopsForAReason: blinking_update and blink find no best path
\* neighbour (ASSERT, main_reg_sensor.c:263 and 224) only before the first node
\* information, when the keep-alive check has removed the last neighbour, or when
\* the interrupt comes between a removal and the choice of another neighbour.
THEOREM StopsOnlyForAReason == Spec => []StopsForAReason
<1> DEFINE Inv == Typed /\ ToldInv
<1>1. Init => Inv
  <2> SUFFICES ASSUME Init PROVE ToldInv
    BY InitTyped
  <2>1. \A n \in Node : failed[n] = "none" /\ ~np[n].has_sent_node_info
    BY DEF Init
  <2> QED BY <2>1 DEF ToldInv, Told
<1>2. Inv /\ [Next]_vars => Inv'
  <2> SUFFICES ASSUME Inv, [Next]_vars PROVE ToldInv'
    BY NextTyped
  <2>1. CASE UNCHANGED <<np, failed>>
    BY <2>1 DEF ToldInv, Told, Running
  <2>2. ASSUME NEW n \in Node,
               \/ HearInitialize(n) \/ RecvEmergency(n) \/ SenseEmergency(n)
               \/ SenseNoEmergency(n) \/ SendKeepAlive(n) \/ CheckKeepAlive(n)
               \/ BlinkFails(n) \/ LosePower(n)
        PROVE  ToldInv'
    <3>1. Running(n) /\ Told(np[n])
      BY <2>2, WhoStepsRuns DEF ToldInv
    <3> QED BY <2>2, <3>1, OwnStepTells, TellsStep
  <2>3. ASSUME NEW m \in Node, NEW n \in Node, Receive(m, n) PROVE ToldInv'
    <3>1. Running(n) /\ Told(np[n])
      BY <2>3, ReceiveHandled DEF ToldInv
    <3> QED BY <2>1, <2>3, <3>1, ReceiveTells, TellsStep
  <2>4. ASSUME NEW m \in Node, NEW n \in Node, GiveUp(m, n) PROVE ToldInv'
    BY <2>1, <2>4 DEF GiveUp
  <2>5. CASE UNCHANGED vars
    BY <2>1, <2>5 DEF vars
  <2> QED BY <2>2, <2>3, <2>4, <2>5 DEF Next
<1>3. Inv => StopsForAReason
  <2> SUFFICES ASSUME Inv, NEW n \in Node, failed[n] = "bpn"
               PROVE  \/ ~np[n].has_sent_node_info \/ np[n].ns = << >>
                      \/ np[n].bpn \in Removed(np[n].ns)
    BY DEF StopsForAReason
  <2>1. np[n].ns \in Seq(NeighborNodes)
    BY RecordOf, GoodIsTyped
  <2>2. Addrs(np[n].ns) = {} => np[n].ns = << >>
    <3>1. PICK ns \in Seq(NeighborNodes) : ns = np[n].ns
      BY <2>1
    <3>2. Addrs(ns) = {} => Len(ns) = 0
      <4>1. Len(ns) \in Nat /\ DOMAIN ns = 1..Len(ns)
        BY LenProperties
      <4>2. ASSUME Len(ns) # 0 PROVE Addrs(ns) # {}
        <5>1. 1 \in DOMAIN ns
          BY <4>1, <4>2
        <5> QED BY <5>1 DEF Addrs
      <4> QED BY <4>2
    <3>3. Len(ns) = 0 => ns = << >>
      BY EmptySeq
    <3> QED BY <3>1, <3>2, <3>3
  <2> QED BY <2>2 DEF ToldInv
<1> QED BY <1>1, <1>2, <1>3, PTL DEF Spec

=============================================================================
