------------------------- MODULE NodeLifecycleProofs -------------------------
(***************************************************************************)
(* That the variables of NodeLifecycle keep their types, and that an exit  *)
(* stops by its second NODE_INFO only if the sink repeats INITIALIZE, a    *)
(* frame or power is lost, or a node is set up too early: for every        *)
(* network, every table of neighbours and every order of the floods.       *)
(* That without these the start-up completes, in every network that is     *)
(* linked from the sink and from the exits.                                *)
(***************************************************************************)
EXTENDS NodeLifecycle, SequenceLemmas

-----------------------------------------------------------------------------
(* What the operations on a node's record do to it.                        *)

LEMMA SetupParseEffect ==
  ASSUME NEW n \in Node, NEW c \in NodeProperties, NEW whole \in BOOLEAN,
         NEW d, d = SetupParse(c, n, whole)
  PROVE  /\ d \in NodeProperties
         /\ d.ns = IF whole THEN Table[n] ELSE {}
         /\ d.is_exit_node <=> whole /\ n \in Exits
         /\ ~d.is_reset_mode /\ ~d.has_sent_node_info
         /\ d.sq = c.sq /\ d.seen = c.seen /\ d.stopped = c.stopped
<1>1. PICK exit \in BOOLEAN : exit = (whole /\ n \in Exits)
  BY Zenon
<1>2. PICK ns \in SUBSET Node : ns = IF whole THEN Table[n] ELSE {}
  BY NodeLifecycleAssumption
<1>3. PICK bpn \in {"null", "stale", "path"} :
        bpn = IF c.bpn = "path" /\ ~exit THEN "stale" ELSE c.bpn
  BY DEF NodeProperties
<1>4. PICK no \in BOOLEAN : no = FALSE
  BY Zenon
<1> DEFINE e == [c EXCEPT !.ns = ns, !.known = {}, !.is_exit_node = exit, !.bpn = bpn,
                          !.is_awaiting_setup_packet = no, !.is_reset_mode = no,
                          !.has_sent_node_info = no, !.is_blinking = no, !.is_burning = no]
<1>5. d = e
  BY <1>1, <1>2, <1>3, <1>4, Zenon DEF SetupParse
<1>6. /\ e \in NodeProperties
      /\ e.ns = ns /\ e.is_exit_node = exit /\ e.is_reset_mode = no
      /\ e.has_sent_node_info = no /\ e.sq = c.sq /\ e.seen = c.seen /\ e.stopped = c.stopped
  BY DEF NodeProperties
<1> HIDE DEF e
<1> QED BY <1>1, <1>2, <1>4, <1>5, <1>6, Zenon

\* With flash that holds a tag, reading it is a set-up; without, nothing happens.
LEMMA RestoredEffect ==
  ASSUME NEW n \in Node, NEW c \in NodeProperties, flash[n] \in {"blank", "torn", "whole"},
         NEW d, d = Restored(c, n)
  PROVE  /\ d \in NodeProperties
         /\ d.sq = c.sq /\ d.seen = c.seen /\ d.stopped = c.stopped
         /\ flash[n] = "blank" => d = c
         /\ flash[n] # "blank" =>
              /\ d.ns = IF flash[n] = "whole" THEN Table[n] ELSE {}
              /\ d.is_exit_node <=> flash[n] = "whole" /\ n \in Exits
              /\ ~d.is_reset_mode /\ ~d.has_sent_node_info
<1>1. CASE flash[n] = "blank"
  BY <1>1 DEF Restored
<1>2. CASE flash[n] # "blank"
  <2>1. PICK whole \in BOOLEAN : whole = (flash[n] = "whole")
    BY Zenon
  <2>2. d = SetupParse(c, n, whole)
    BY <1>2, <2>1, Zenon DEF Restored
  <2>3. /\ d \in NodeProperties
        /\ d.ns = IF whole THEN Table[n] ELSE {}
        /\ d.is_exit_node <=> whole /\ n \in Exits
        /\ ~d.is_reset_mode /\ ~d.has_sent_node_info
        /\ d.sq = c.sq /\ d.seen = c.seen /\ d.stopped = c.stopped
    BY <2>2, SetupParseEffect
  <2> QED BY <1>2, <2>1, <2>3
<1> QED BY <1>1, <1>2

\* A node boots with empty queues.
LEMMA BootEffect ==
  ASSUME NEW n \in Node, flash[n] \in {"blank", "torn", "whole"},
         NEW d, d = ResetNodeProperties(n)
  PROVE  /\ d \in NodeProperties
         /\ d.sq = << >> /\ d.seen = {} /\ d.stopped = "no"
         /\ ~d.is_reset_mode /\ ~d.has_sent_node_info
         /\ d.ns = IF flash[n] = "whole" THEN Table[n] ELSE {}
         /\ d.is_exit_node <=> flash[n] = "whole" /\ n \in Exits
<1>1. PICK no \in BOOLEAN : no = FALSE
  BY Zenon
<1> DEFINE c == [ns |-> {}, known |-> {}, is_exit_node |-> no, bpn |-> "null",
                 is_awaiting_setup_packet |-> no, is_reset_mode |-> no,
                 has_sent_node_info |-> no, is_blinking |-> no,
                 is_burning |-> no, seqno |-> 0, sq |-> << >>, seen |-> {},
                 floods |-> {}, stopped |-> "no"]
<1>2. d = Restored(c, n)
  BY <1>1, Zenon DEF ResetNodeProperties
<1>3. /\ c \in NodeProperties
      /\ c.ns = {} /\ c.is_exit_node = no /\ c.is_reset_mode = no /\ c.has_sent_node_info = no
      /\ c.sq = << >> /\ c.seen = {} /\ c.stopped = "no"
  BY DEF NodeProperties
<1> HIDE DEF c
<1>4. /\ d \in NodeProperties
      /\ d.sq = c.sq /\ d.seen = c.seen /\ d.stopped = c.stopped
      /\ flash[n] = "blank" => d = c
      /\ flash[n] # "blank" =>
           /\ d.ns = IF flash[n] = "whole" THEN Table[n] ELSE {}
           /\ d.is_exit_node <=> flash[n] = "whole" /\ n \in Exits
           /\ ~d.is_reset_mode /\ ~d.has_sent_node_info
  <2>1. c \in NodeProperties
    BY <1>3
  <2> QED BY <1>2, <2>1, RestoredEffect
<1>5. CASE flash[n] = "blank"
  BY <1>1, <1>3, <1>4, <1>5
<1>6. CASE flash[n] # "blank"
  BY <1>3, <1>4, <1>6
<1> QED BY <1>5, <1>6

\* A packet goes to the neighbours, if there are any.
LEMMA BroadcastEffect ==
  ASSUME NEW c \in NodeProperties, NEW p \in Packet, NEW d, d = ReliableBroadcastNs(c, p)
  PROVE  /\ d \in NodeProperties
         /\ d.ns = c.ns /\ d.is_exit_node = c.is_exit_node
         /\ d.is_reset_mode = c.is_reset_mode /\ d.stopped = c.stopped
         /\ d.has_sent_node_info = c.has_sent_node_info /\ d.seqno = c.seqno
         /\ c.ns = {} => d.sq = c.sq /\ d.seen = c.seen
         /\ c.ns # {} => /\ d.sq = Append(c.sq, [p |-> p, unacked_ns |-> c.ns])
                         /\ d.seen = c.seen \cup {p.key}
<1>1. CASE c.ns = {}
  BY <1>1 DEF ReliableBroadcastNs
<1>2. CASE c.ns # {}
  <2> DEFINE entry == [p |-> p, unacked_ns |-> c.ns]
  <2>1. PICK sq \in Seq(QueuedPacket) : sq = Append(c.sq, entry)
    <3>1. entry \in QueuedPacket
      BY <1>2 DEF NodeProperties, QueuedPacket
    <3> HIDE DEF entry
    <3>2. c.sq \in Seq(QueuedPacket)
      BY DEF NodeProperties
    <3>3. Append(c.sq, entry) \in Seq(QueuedPacket)
      BY <3>1, <3>2
    <3> QED BY <3>3, Zenon
  <2>2. PICK seen \in SUBSET Key : seen = c.seen \cup {p.key}
    BY DEF NodeProperties, Packet, Key
  <2> DEFINE e == [c EXCEPT !.sq = sq, !.seen = seen]
  <2>3. d = e
    BY <1>2, <2>1, <2>2, Zenon DEF ReliableBroadcastNs
  <2>4. /\ e \in NodeProperties
        /\ e.ns = c.ns /\ e.is_exit_node = c.is_exit_node
        /\ e.is_reset_mode = c.is_reset_mode /\ e.stopped = c.stopped
        /\ e.has_sent_node_info = c.has_sent_node_info /\ e.seqno = c.seqno
        /\ e.sq = sq /\ e.seen = seen
    BY DEF NodeProperties
  <2> HIDE DEF e
  <2> QED BY <1>2, <2>1, <2>2, <2>3, <2>4
<1> QED BY <1>1, <1>2

\* What a node tells of itself.
OwnInfo(c, n) == [type |-> "NODE_INFO", key |-> <<n, c.seqno>>]

\* It tells it to its neighbours, and remembers that.
LEMMA TellEffect ==
  ASSUME NEW n \in Node, NEW c \in NodeProperties,
         NEW d, d = UpdateBpnAndSendNodeInfo(c, n)
  PROVE  /\ d \in NodeProperties
         /\ d.ns = c.ns /\ d.is_exit_node = c.is_exit_node
         /\ d.is_reset_mode = c.is_reset_mode /\ d.stopped = c.stopped
         /\ d.has_sent_node_info
         /\ OwnInfo(c, n) \in Packet
         /\ c.ns = {} => d.sq = c.sq /\ d.seen = c.seen
         /\ c.ns # {} => /\ d.sq = Append(c.sq, [p |-> OwnInfo(c, n), unacked_ns |-> c.ns])
                         /\ d.seen = c.seen \cup {<<n, c.seqno>>}
<1>1. PICK yes \in BOOLEAN : yes = TRUE
  BY Zenon
<1>2. PICK seqno \in Nat : seqno = c.seqno + 1
  <2>1. c.seqno \in Nat
    BY DEF NodeProperties
  <2>2. c.seqno + 1 \in Nat
    BY <2>1
  <2> QED BY <2>2, Zenon
<1> DEFINE e == [c EXCEPT !.bpn = "path", !.has_sent_node_info = yes, !.seqno = seqno]
           p == OwnInfo(c, n)
<1>3. d = ReliableBroadcastNs(e, p)
  BY <1>1, <1>2, Zenon DEF UpdateBpnAndSendNodeInfo, OwnInfo
<1>4. /\ e \in NodeProperties
      /\ e.ns = c.ns /\ e.is_exit_node = c.is_exit_node
      /\ e.is_reset_mode = c.is_reset_mode /\ e.stopped = c.stopped
      /\ e.has_sent_node_info = yes /\ e.sq = c.sq /\ e.seen = c.seen
  BY DEF NodeProperties
<1>5. p \in Packet /\ p.key = <<n, c.seqno>>
  BY DEF OwnInfo, Packet, NodeProperties
<1> HIDE DEF e, p
<1>6. /\ d \in NodeProperties
      /\ d.ns = e.ns /\ d.is_exit_node = e.is_exit_node
      /\ d.is_reset_mode = e.is_reset_mode /\ d.stopped = e.stopped
      /\ d.has_sent_node_info = e.has_sent_node_info /\ d.seqno = e.seqno
      /\ e.ns = {} => d.sq = e.sq /\ d.seen = e.seen
      /\ e.ns # {} => /\ d.sq = Append(e.sq, [p |-> p, unacked_ns |-> e.ns])
                      /\ d.seen = e.seen \cup {p.key}
  <2>1. e \in NodeProperties /\ p \in Packet
    BY <1>4, <1>5
  <2> QED BY <1>3, <2>1, BroadcastEffect
<1>7. d.has_sent_node_info
  BY <1>1, <1>4, <1>6, Zenon
<1> QED BY <1>4, <1>5, <1>6, <1>7 DEF p

\* The queue of d is that of c with more behind it, for the neighbours of c.
Longer(c, d) ==
  /\ Len(c.sq) <= Len(d.sq)
  /\ \A i \in 1..Len(c.sq) : d.sq[i] = c.sq[i]
  /\ \A i \in (Len(c.sq) + 1)..Len(d.sq) : d.sq[i].unacked_ns = c.ns

IsOwnInfo(p) == p.type = "NODE_INFO" /\ p.key[1] # Sink

\* Packet p is the first of what is new, and behind it is what the node tells.
PassedOn(c, d, p) ==
  /\ Longer(c, d) /\ Len(c.sq) < Len(d.sq)
  /\ d.sq[Len(c.sq) + 1].p = p
  /\ \A i \in (Len(c.sq) + 2)..Len(d.sq) : IsOwnInfo(d.sq[i].p)

\* The node tells something, or nothing.
Told(c, d) ==
  Longer(c, d) /\ \A i \in (Len(c.sq) + 1)..Len(d.sq) : IsOwnInfo(d.sq[i].p)

\* Of the sink's packets, d has seen p and what c has.
SeesToo(c, d, p) ==
  \A k : <<Sink, k>> \in d.seen <=> <<Sink, k>> \in c.seen \/ p.key = <<Sink, k>>

\* What INITIALIZE and RESET have in common.
FloodedOn(c, d, p) ==
  /\ c.ns = {} => d.sq = c.sq /\ d.seen = c.seen
  /\ c.ns # {} => PassedOn(c, d, p) /\ SeesToo(c, d, p)

\* Two packets are appended, or one: a queue's old places stay.
LEMMA AppendedEntry ==
  ASSUME NEW T, NEW u \in Seq(T), NEW x \in T, NEW v, v = Append(u, x)
  PROVE  /\ Len(v) = Len(u) + 1 /\ Len(u) \in Nat
         /\ \A i \in 1..Len(u) : v[i] = u[i]
         /\ v[Len(u) + 1] = x
  BY LenProperties, AppendProperties

LEMMA EntryTyped ==
  ASSUME NEW c \in NodeProperties, c.ns # {}, NEW p \in Packet
  PROVE  [p |-> p, unacked_ns |-> c.ns] \in QueuedPacket /\ c.sq \in Seq(QueuedPacket)
  BY DEF NodeProperties, QueuedPacket

\* One packet passed on and nothing else.
LEMMA PassedOnAlone ==
  ASSUME NEW c \in NodeProperties, NEW p \in Packet, c.ns # {}, NEW d,
         d.sq = Append(c.sq, [p |-> p, unacked_ns |-> c.ns])
  PROVE  PassedOn(c, d, p)
<1> DEFINE x == [p |-> p, unacked_ns |-> c.ns]
           v == d.sq
           u == c.sq
<1>1. x \in QueuedPacket /\ u \in Seq(QueuedPacket)
  BY EntryTyped
<1>2. x.p = p /\ x.unacked_ns = c.ns /\ v = Append(u, x)
  OBVIOUS
<1> HIDE DEF x, v, u
<1>3. /\ Len(v) = Len(u) + 1 /\ Len(u) \in Nat
      /\ \A i \in 1..Len(u) : v[i] = u[i]
      /\ v[Len(u) + 1] = x
  BY <1>1, <1>2, AppendedEntry
<1>4. /\ Len(u) <= Len(v) /\ Len(u) < Len(v)
      /\ \A i \in (Len(u) + 1)..Len(v) : i = Len(u) + 1
      /\ \A i \in (Len(u) + 2)..Len(v) : FALSE
  BY <1>3
<1> QED BY <1>2, <1>3, <1>4 DEF PassedOn, Longer, u, v

\* Own information behind what a queue got already.
LEMMA ToldBehind ==
  ASSUME NEW n \in Node, NEW c \in NodeProperties, NEW e \in NodeProperties,
         e.ns = c.ns, c.ns # {}, NEW d,
         d.sq = Append(e.sq, [p |-> OwnInfo(e, n), unacked_ns |-> e.ns])
  PROVE  /\ Told(e, d)
         /\ \A p : PassedOn(c, e, p) => PassedOn(c, d, p)
<1> DEFINE o == OwnInfo(e, n)
           x == [p |-> o, unacked_ns |-> e.ns]
           v == d.sq
           u == e.sq
           w == c.sq
<1>1. o \in Packet /\ IsOwnInfo(o)
  BY NodeLifecycleAssumption DEF OwnInfo, Packet, NodeProperties, IsOwnInfo
<1>2. x \in QueuedPacket /\ u \in Seq(QueuedPacket) /\ w \in Seq(QueuedPacket)
  <2> HIDE DEF o
  <2> QED BY <1>1, EntryTyped DEF NodeProperties
<1>3. x.p = o /\ x.unacked_ns = c.ns /\ x.unacked_ns = e.ns /\ v = Append(u, x)
  OBVIOUS
<1> HIDE DEF x, v, u, o, w
<1>4. /\ Len(v) = Len(u) + 1 /\ Len(u) \in Nat
      /\ \A i \in 1..Len(u) : v[i] = u[i]
      /\ v[Len(u) + 1] = x
  BY <1>2, <1>3, AppendedEntry
<1>5. Told(e, d)
  <2>1. /\ Len(u) <= Len(v)
        /\ \A i \in (Len(u) + 1)..Len(v) : i = Len(u) + 1
    BY <1>4
  <2> QED BY <1>1, <1>3, <1>4, <2>1 DEF Told, Longer, u, v
<1>6. ASSUME NEW p, PassedOn(c, e, p) PROVE PassedOn(c, d, p)
  <2>1. /\ Len(w) <= Len(u) /\ Len(w) < Len(u)
        /\ \A i \in 1..Len(w) : u[i] = w[i]
        /\ \A i \in (Len(w) + 1)..Len(u) : u[i].unacked_ns = c.ns
        /\ u[Len(w) + 1].p = p
        /\ \A i \in (Len(w) + 2)..Len(u) : IsOwnInfo(u[i].p)
    BY <1>6 DEF PassedOn, Longer, u, w
  <2>2. Len(w) \in Nat
    BY <1>2, LenProperties
  <2>3. /\ Len(w) <= Len(v) /\ Len(w) < Len(v)
        /\ \A i \in 1..Len(w) : v[i] = w[i]
        /\ v[Len(w) + 1].p = p
    BY <1>4, <2>1, <2>2
  <2>4. ASSUME NEW i \in (Len(w) + 1)..Len(v)
        PROVE  \/ i = Len(u) + 1
               \/ i \in (Len(w) + 1)..Len(u) /\ v[i] = u[i] /\ (i > Len(w) + 1 => i \in (Len(w) + 2)..Len(u))
    BY <1>4, <2>2
  <2>5. ASSUME NEW i \in (Len(w) + 1)..Len(v) PROVE v[i].unacked_ns = c.ns
    BY <1>3, <1>4, <2>1, <2>4
  <2>6. ASSUME NEW i \in (Len(w) + 2)..Len(v) PROVE IsOwnInfo(v[i].p)
    <3>1. i \in (Len(w) + 1)..Len(v) /\ i > Len(w) + 1
      BY <1>4, <2>2
    <3> QED BY <1>1, <1>3, <1>4, <2>1, <2>4, <3>1
  <2> QED BY <2>3, <2>5, <2>6 DEF PassedOn, Longer, v, w
<1> QED BY <1>5, <1>6

LEMMA FloodedOnKept ==
  ASSUME NEW c, NEW d, NEW e, NEW p, FloodedOn(c, e, p), d.sq = e.sq, d.seen = e.seen
  PROVE  FloodedOn(c, d, p)
  BY DEF FloodedOn, PassedOn, Longer, SeesToo

\* A flood's packet, passed on before it is handled.
LEMMA FloodedFirst ==
  ASSUME NEW c \in NodeProperties, NEW p \in Packet, NEW e, e = ReliableBroadcastNs(c, p)
  PROVE  /\ e \in NodeProperties
         /\ e.ns = c.ns /\ e.is_exit_node = c.is_exit_node
         /\ e.is_reset_mode = c.is_reset_mode /\ e.stopped = c.stopped
         /\ e.has_sent_node_info = c.has_sent_node_info
         /\ FloodedOn(c, e, p)
<1>1. /\ e \in NodeProperties
      /\ e.ns = c.ns /\ e.is_exit_node = c.is_exit_node
      /\ e.is_reset_mode = c.is_reset_mode /\ e.stopped = c.stopped
      /\ e.has_sent_node_info = c.has_sent_node_info /\ e.seqno = c.seqno
      /\ c.ns = {} => e.sq = c.sq /\ e.seen = c.seen
      /\ c.ns # {} => /\ e.sq = Append(c.sq, [p |-> p, unacked_ns |-> c.ns])
                      /\ e.seen = c.seen \cup {p.key}
  BY BroadcastEffect
<1>2. ASSUME c.ns # {} PROVE PassedOn(c, e, p) /\ SeesToo(c, e, p)
  <2>1. PassedOn(c, e, p)
    BY <1>1, <1>2, PassedOnAlone
  <2>2. e.seen = c.seen \cup {p.key}
    BY <1>1, <1>2
  <2>3. SeesToo(c, e, p)
    BY <2>2 DEF SeesToo
  <2> QED BY <2>1, <2>3
<1> QED BY <1>1, <1>2 DEF FloodedOn

LEMMA InitializeEffect ==
  ASSUME NEW n \in Node, NEW c \in NodeProperties, NEW p \in Packet,
         p.type = "INITIALIZE_BEST_PATHS", NEW d, d = Flooded(c, n, p)
  PROVE  /\ d \in NodeProperties
         /\ d.ns = c.ns /\ d.is_exit_node = c.is_exit_node
         /\ ~d.is_reset_mode
         /\ ~(c.is_exit_node /\ c.has_sent_node_info) => d.stopped = c.stopped
         /\ FloodedOn(c, d, p)
<1>1. PICK e : e = ReliableBroadcastNs(c, p)
  OBVIOUS
<1>2. /\ e \in NodeProperties
      /\ e.ns = c.ns /\ e.is_exit_node = c.is_exit_node
      /\ e.is_reset_mode = c.is_reset_mode /\ e.stopped = c.stopped
      /\ e.has_sent_node_info = c.has_sent_node_info
      /\ FloodedOn(c, e, p)
  BY <1>1, FloodedFirst
<1>3. d = InitializeBestPath(e, n)
  BY <1>1 DEF Flooded
<1>4. PICK no \in BOOLEAN : no = FALSE
  BY Zenon
<1> DEFINE s == [e EXCEPT !.is_reset_mode = no]
<1>5. /\ s \in NodeProperties
      /\ s.ns = e.ns /\ s.is_exit_node = e.is_exit_node /\ s.is_reset_mode = no
      /\ s.stopped = e.stopped /\ s.has_sent_node_info = e.has_sent_node_info
      /\ s.sq = e.sq /\ s.seen = e.seen
  BY <1>2 DEF NodeProperties
<1>6. FloodedOn(c, s, p)
  BY <1>2, <1>5, FloodedOnKept
<1>7. CASE ~e.is_exit_node
  <2>1. d = s
    BY <1>3, <1>4, <1>7, Zenon DEF InitializeBestPath
  <2> HIDE DEF s
  <2> QED BY <1>2, <1>4, <1>5, <1>6, <2>1
<1>8. CASE e.is_exit_node /\ e.has_sent_node_info
  <2> DEFINE t == [s EXCEPT !.stopped = "second NODE_INFO"]
  <2>1. d = t
    BY <1>3, <1>4, <1>8, Zenon DEF InitializeBestPath
  <2> HIDE DEF s
  <2>2. /\ t \in NodeProperties
        /\ t.ns = s.ns /\ t.is_exit_node = s.is_exit_node /\ t.is_reset_mode = s.is_reset_mode
        /\ t.sq = s.sq /\ t.seen = s.seen
    BY <1>5 DEF NodeProperties
  <2> HIDE DEF t
  <2>3. FloodedOn(c, t, p)
    BY <1>6, <2>2, FloodedOnKept
  <2> QED BY <1>2, <1>4, <1>5, <1>8, <2>1, <2>2, <2>3
<1>9. CASE e.is_exit_node /\ ~e.has_sent_node_info
  <2>1. d = UpdateBpnAndSendNodeInfo(s, n)
    BY <1>3, <1>4, <1>9, Zenon DEF InitializeBestPath
  <2> HIDE DEF s
  <2>2. /\ d \in NodeProperties
        /\ d.ns = s.ns /\ d.is_exit_node = s.is_exit_node
        /\ d.is_reset_mode = s.is_reset_mode /\ d.stopped = s.stopped
        /\ s.ns = {} => d.sq = s.sq /\ d.seen = s.seen
        /\ s.ns # {} => /\ d.sq = Append(s.sq, [p |-> OwnInfo(s, n), unacked_ns |-> s.ns])
                        /\ d.seen = s.seen \cup {<<n, s.seqno>>}
    <3>1. s \in NodeProperties
      BY <1>5
    <3> QED BY <2>1, <3>1, TellEffect
  <2>3. FloodedOn(c, d, p)
    <3>1. CASE c.ns = {}
      BY <1>2, <1>5, <1>6, <2>2, <3>1, FloodedOnKept
    <3>2. CASE c.ns # {}
      <4>1. PassedOn(c, s, p) /\ SeesToo(c, s, p)
        BY <1>6, <3>2 DEF FloodedOn
      <4>2. PassedOn(c, d, p)
        <5>1. /\ s \in NodeProperties /\ s.ns = c.ns
              /\ d.sq = Append(s.sq, [p |-> OwnInfo(s, n), unacked_ns |-> s.ns])
          BY <1>2, <1>5, <2>2, <3>2
        <5> QED BY <3>2, <4>1, <5>1, ToldBehind
      <4>3. d.seen = s.seen \cup {<<n, s.seqno>>} /\ n # Sink
        BY <1>2, <1>5, <2>2, <3>2, NodeLifecycleAssumption
      <4>4. SeesToo(c, d, p)
        BY <4>1, <4>3 DEF SeesToo
      <4> QED BY <3>2, <4>2, <4>4 DEF FloodedOn
    <3> QED BY <3>1, <3>2
  <2> QED BY <1>2, <1>4, <1>5, <2>2, <2>3
<1> QED BY <1>7, <1>8, <1>9

LEMMA ResetEffect ==
  ASSUME NEW n \in Node, NEW c \in NodeProperties, NEW p \in Packet,
         flash[n] \in {"blank", "torn", "whole"},
         p.type = "RESET_SYSTEM", NEW d, d = Flooded(c, n, p)
  PROVE  /\ d \in NodeProperties
         /\ d.is_reset_mode /\ d.stopped = c.stopped
         /\ flash[n] = "blank" =>
              /\ d.ns = c.ns /\ d.is_exit_node = c.is_exit_node
              /\ d.has_sent_node_info = c.has_sent_node_info
         /\ flash[n] # "blank" =>
              /\ d.ns = IF flash[n] = "whole" THEN Table[n] ELSE {}
              /\ d.is_exit_node <=> flash[n] = "whole" /\ n \in Exits
              /\ ~d.has_sent_node_info
         /\ FloodedOn(c, d, p)
<1>1. PICK e : e = ReliableBroadcastNs(c, p)
  OBVIOUS
<1>2. /\ e \in NodeProperties
      /\ e.ns = c.ns /\ e.is_exit_node = c.is_exit_node
      /\ e.is_reset_mode = c.is_reset_mode /\ e.stopped = c.stopped
      /\ e.has_sent_node_info = c.has_sent_node_info
      /\ FloodedOn(c, e, p)
  BY <1>1, FloodedFirst
<1>3. d = ResetSystem(e, n)
  BY <1>1 DEF Flooded
<1>4. PICK yes \in BOOLEAN : yes = TRUE
  BY Zenon
<1>5. PICK r : r = Restored(e, n)
  OBVIOUS
<1>6. /\ r \in NodeProperties
      /\ r.sq = e.sq /\ r.seen = e.seen /\ r.stopped = e.stopped
      /\ flash[n] = "blank" => r = e
      /\ flash[n] # "blank" =>
           /\ r.ns = IF flash[n] = "whole" THEN Table[n] ELSE {}
           /\ r.is_exit_node <=> flash[n] = "whole" /\ n \in Exits
           /\ ~r.is_reset_mode /\ ~r.has_sent_node_info
  <2>1. e \in NodeProperties
    BY <1>2
  <2> QED BY <1>5, <2>1, RestoredEffect
<1> DEFINE t == [r EXCEPT !.is_reset_mode = yes]
<1>7. d = t
  BY <1>3, <1>4, <1>5, Zenon DEF ResetSystem
<1>8. /\ t \in NodeProperties
      /\ t.ns = r.ns /\ t.is_exit_node = r.is_exit_node /\ t.is_reset_mode = yes
      /\ t.stopped = r.stopped /\ t.has_sent_node_info = r.has_sent_node_info
      /\ t.sq = r.sq /\ t.seen = r.seen
  BY <1>6 DEF NodeProperties
<1> HIDE DEF t
<1>9. FloodedOn(c, d, p)
  BY <1>2, <1>6, <1>7, <1>8, FloodedOnKept
<1> QED BY <1>2, <1>4, <1>6, <1>7, <1>8, <1>9

\* A node that has heard NODE_INFO tells its own, if it has not yet.
LEMMA TellsOnce ==
  ASSUME NEW n \in Node, NEW c \in NodeProperties, NEW p, NEW t \in NodeProperties,
         t.ns = c.ns, t.is_exit_node = c.is_exit_node, t.is_reset_mode = c.is_reset_mode,
         t.stopped = c.stopped, t.sq = c.sq, t.seen = c.seen \cup {p.key},
         NEW d, d = t \/ d = UpdateBpnAndSendNodeInfo(t, n)
  PROVE  /\ d \in NodeProperties
         /\ d.ns = c.ns /\ d.is_exit_node = c.is_exit_node
         /\ d.is_reset_mode = c.is_reset_mode /\ d.stopped = c.stopped
         /\ c.ns # {} => Told(c, d) /\ SeesToo(c, d, p)
<1>1. Told(c, t) /\ SeesToo(c, t, p)
  <2> DEFINE l == Len(c.sq)
  <2>1. l \in Nat
    BY LenProperties DEF NodeProperties
  <2> HIDE DEF l
  <2>2. l <= l /\ \A i \in (l + 1)..l : FALSE
    BY <2>1
  <2>3. Told(c, t)
    BY <2>2 DEF Told, Longer, l
  <2>4. SeesToo(c, t, p)
    BY DEF SeesToo
  <2> QED BY <2>3, <2>4
<1>2. CASE d = t
  BY <1>1, <1>2
<1>3. CASE d = UpdateBpnAndSendNodeInfo(t, n)
  <2>1. /\ d \in NodeProperties
        /\ d.ns = t.ns /\ d.is_exit_node = t.is_exit_node
        /\ d.is_reset_mode = t.is_reset_mode /\ d.stopped = t.stopped
        /\ t.ns # {} => /\ d.sq = Append(t.sq, [p |-> OwnInfo(t, n), unacked_ns |-> t.ns])
                        /\ d.seen = t.seen \cup {<<n, t.seqno>>}
    BY <1>3, TellEffect
  <2>2. ASSUME c.ns # {} PROVE Told(c, d) /\ SeesToo(c, d, p)
    <3>1. /\ d.sq = Append(t.sq, [p |-> OwnInfo(t, n), unacked_ns |-> t.ns])
          /\ d.seen = t.seen \cup {<<n, t.seqno>>} /\ n # Sink
      BY <2>1, <2>2, NodeLifecycleAssumption
    <3>2. Told(t, d)
      BY <2>2, <3>1, ToldBehind
    <3>3. Told(c, d)
      BY <3>2 DEF Told, Longer
    <3>4. SeesToo(c, d, p)
      BY <1>1, <3>1 DEF SeesToo
    <3> QED BY <3>3, <3>4
  <2> QED BY <2>1, <2>2
<1> QED BY <1>2, <1>3

LEMMA NodeInfoEffect ==
  ASSUME NEW n \in Node, NEW m \in Node, NEW c \in NodeProperties, NEW p \in Packet,
         NEW d, d = NodeInfo([c EXCEPT !.seen = c.seen \cup {p.key}], n, m)
  PROVE  /\ d \in NodeProperties
         /\ d.ns = c.ns /\ d.is_exit_node = c.is_exit_node
         /\ d.is_reset_mode = c.is_reset_mode /\ d.stopped = c.stopped
         /\ c.ns # {} => Told(c, d) /\ SeesToo(c, d, p)
<1>1. PICK seen \in SUBSET Key : seen = c.seen \cup {p.key}
  BY DEF NodeProperties, Packet, Key
<1>2. PICK known \in SUBSET Node : known = c.known \cup {m}
  BY DEF NodeProperties
<1> DEFINE e == [c EXCEPT !.seen = seen]
           t == [c EXCEPT !.seen = seen, !.known = known]
<1>3. t = [e EXCEPT !.known = e.known \cup {m}]
  BY <1>2 DEF NodeProperties
<1>4. /\ t \in NodeProperties
      /\ t.ns = c.ns /\ t.is_exit_node = c.is_exit_node
      /\ t.is_reset_mode = c.is_reset_mode /\ t.stopped = c.stopped
      /\ t.sq = c.sq /\ t.seen = seen
  BY DEF NodeProperties
<1>5. d = NodeInfo(e, n, m)
  BY <1>1
<1> HIDE DEF t, e
<1>6. d = t \/ d = UpdateBpnAndSendNodeInfo(t, n)
  BY <1>3, <1>5, Zenon DEF NodeInfo
<1> QED BY <1>1, <1>4, <1>6, TellsOnce

\* A packet that a node ignores, since it is reset.
LEMMA IgnoredEffect ==
  ASSUME NEW n, NEW m, NEW c \in NodeProperties, NEW p \in Packet,
         p.key \notin c.seen, c.is_reset_mode, p.type # "INITIALIZE_BEST_PATHS",
         NEW d, d = Received(c, n, m, p)
  PROVE  /\ d \in NodeProperties
         /\ d.ns = c.ns /\ d.is_exit_node = c.is_exit_node
         /\ d.is_reset_mode /\ d.stopped = c.stopped
         /\ d.has_sent_node_info = c.has_sent_node_info
         /\ d.sq = c.sq /\ SeesToo(c, d, p)
<1>1. PICK seen \in SUBSET Key : seen = c.seen \cup {p.key}
  BY DEF NodeProperties, Packet, Key
<1> DEFINE e == [c EXCEPT !.seen = seen]
<1>2. d = e
  BY <1>1, Zenon DEF Received
<1>3. /\ e \in NodeProperties
      /\ e.ns = c.ns /\ e.is_exit_node = c.is_exit_node
      /\ e.is_reset_mode = c.is_reset_mode /\ e.stopped = c.stopped
      /\ e.has_sent_node_info = c.has_sent_node_info
      /\ e.sq = c.sq /\ e.seen = seen
  BY DEF NodeProperties
<1> HIDE DEF e
<1>4. SeesToo(c, d, p)
  BY <1>1, <1>2, <1>3 DEF SeesToo
<1> QED BY <1>2, <1>3, <1>4

\* What a packet does to the node that gets it, case by case.
LEMMA ReceivedEffect ==
  ASSUME NEW n \in Node, NEW m \in Node \cup {Sink}, NEW c \in NodeProperties,
         NEW p \in Packet, p.type = "NODE_INFO" => m \in Node,
         flash[n] \in {"blank", "torn", "whole"},
         NEW d, d = Received(c, n, m, p)
  PROVE  /\ d \in NodeProperties
         /\ p.key \in c.seen => d = c
         /\ p.key \notin c.seen /\ c.is_reset_mode /\ p.type # "INITIALIZE_BEST_PATHS" =>
              /\ d.ns = c.ns /\ d.is_exit_node = c.is_exit_node
              /\ d.is_reset_mode /\ d.stopped = c.stopped
              /\ d.has_sent_node_info = c.has_sent_node_info
              /\ d.sq = c.sq /\ SeesToo(c, d, p)
         /\ p.key \notin c.seen /\ ~c.is_reset_mode /\ p.type = "NODE_INFO" =>
              /\ d.ns = c.ns /\ d.is_exit_node = c.is_exit_node
              /\ d.is_reset_mode = c.is_reset_mode /\ d.stopped = c.stopped
              /\ c.ns # {} => Told(c, d) /\ SeesToo(c, d, p)
         /\ p.key \notin c.seen /\ p.type = "INITIALIZE_BEST_PATHS" =>
              /\ d.ns = c.ns /\ d.is_exit_node = c.is_exit_node
              /\ ~d.is_reset_mode
              /\ ~(c.is_exit_node /\ c.has_sent_node_info) => d.stopped = c.stopped
              /\ FloodedOn(c, d, p)
         /\ p.key \notin c.seen /\ ~c.is_reset_mode /\ p.type = "RESET_SYSTEM" =>
              /\ d.is_reset_mode /\ d.stopped = c.stopped
              /\ flash[n] = "blank" =>
                   /\ d.ns = c.ns /\ d.is_exit_node = c.is_exit_node
                   /\ d.has_sent_node_info = c.has_sent_node_info
              /\ flash[n] # "blank" =>
                   /\ d.ns = IF flash[n] = "whole" THEN Table[n] ELSE {}
                   /\ d.is_exit_node <=> flash[n] = "whole" /\ n \in Exits
                   /\ ~d.has_sent_node_info
              /\ FloodedOn(c, d, p)
<1>1. CASE p.key \in c.seen
  <2>1. d = c
    BY <1>1, Zenon DEF Received
  <2> QED BY <1>1, <2>1
<1>2. CASE p.key \notin c.seen /\ c.is_reset_mode /\ p.type # "INITIALIZE_BEST_PATHS"
  <2>1. /\ d \in NodeProperties
        /\ d.ns = c.ns /\ d.is_exit_node = c.is_exit_node
        /\ d.is_reset_mode /\ d.stopped = c.stopped
        /\ d.has_sent_node_info = c.has_sent_node_info
        /\ d.sq = c.sq /\ SeesToo(c, d, p)
    BY <1>2, IgnoredEffect
  <2> QED BY <1>2, <2>1
<1>3. CASE p.key \notin c.seen /\ ~c.is_reset_mode /\ p.type = "NODE_INFO"
  <2>1. d = NodeInfo([c EXCEPT !.seen = c.seen \cup {p.key}], n, m)
    BY <1>3, Zenon DEF Received
  <2>2. /\ d \in NodeProperties
        /\ d.ns = c.ns /\ d.is_exit_node = c.is_exit_node
        /\ d.is_reset_mode = c.is_reset_mode /\ d.stopped = c.stopped
        /\ c.ns # {} => Told(c, d) /\ SeesToo(c, d, p)
    <3>1. m \in Node
      BY <1>3
    <3> QED BY <2>1, <3>1, NodeInfoEffect
  <2> QED BY <1>3, <2>2
<1>4. CASE p.key \notin c.seen /\ p.type = "INITIALIZE_BEST_PATHS"
  <2>1. d = Flooded(c, n, p)
    BY <1>4, Zenon DEF Received
  <2>2. /\ d \in NodeProperties
        /\ d.ns = c.ns /\ d.is_exit_node = c.is_exit_node
        /\ ~d.is_reset_mode
        /\ ~(c.is_exit_node /\ c.has_sent_node_info) => d.stopped = c.stopped
        /\ FloodedOn(c, d, p)
    BY <1>4, <2>1, InitializeEffect
  <2> QED BY <1>4, <2>2
<1>5. CASE p.key \notin c.seen /\ ~c.is_reset_mode /\ p.type = "RESET_SYSTEM"
  <2>1. d = Flooded(c, n, p)
    BY <1>5, Zenon DEF Received
  <2>2. /\ d \in NodeProperties
        /\ d.is_reset_mode /\ d.stopped = c.stopped
        /\ flash[n] = "blank" =>
             /\ d.ns = c.ns /\ d.is_exit_node = c.is_exit_node
             /\ d.has_sent_node_info = c.has_sent_node_info
        /\ flash[n] # "blank" =>
             /\ d.ns = IF flash[n] = "whole" THEN Table[n] ELSE {}
             /\ d.is_exit_node <=> flash[n] = "whole" /\ n \in Exits
             /\ ~d.has_sent_node_info
        /\ FloodedOn(c, d, p)
    BY <1>5, <2>1, ResetEffect
  <2> QED BY <1>5, <2>2
<1> QED
  <2>1. p.type \in {"INITIALIZE_BEST_PATHS", "RESET_SYSTEM", "NODE_INFO"}
    BY DEF Packet
  <2> QED BY <2>1, <1>1, <1>2, <1>3, <1>4, <1>5

\* What an emergency leaves alone: set-up, reset, queue and the sink's packets.
Inert(c, d) ==
  /\ d.ns = c.ns /\ d.is_exit_node = c.is_exit_node
  /\ d.is_reset_mode = c.is_reset_mode /\ d.has_sent_node_info = c.has_sent_node_info
  /\ d.sq = c.sq
  /\ d.stopped = c.stopped \/ d.stopped = "no path"
  /\ \A k : <<Sink, k>> \in d.seen <=> <<Sink, k>> \in c.seen

LEMMA BlinkingEffect ==
  ASSUME NEW c \in NodeProperties, NEW d, d = BlinkingInit(c)
  PROVE  d \in NodeProperties /\ Inert(c, d) /\ d.seqno = c.seqno
<1>1. PICK yes \in BOOLEAN : yes = TRUE
  BY Zenon
<1>2. PICK stopped \in {"no", "second NODE_INFO", "no path"} :
        /\ stopped = IF c.bpn = "null" /\ ~c.is_burning THEN "no path" ELSE c.stopped
        /\ stopped = c.stopped \/ stopped = "no path"
  BY DEF NodeProperties
<1> DEFINE e == [c EXCEPT !.is_blinking = yes, !.stopped = stopped]
<1>3. d = c \/ d = e
  BY <1>1, <1>2, Zenon DEF BlinkingInit
<1>4. e \in NodeProperties /\ Inert(c, e) /\ e.seqno = c.seqno
  BY <1>2 DEF NodeProperties, Inert
<1> HIDE DEF e
<1> QED BY <1>3, <1>4 DEF Inert

LEMMA EmergencyEffect ==
  ASSUME NEW c \in NodeProperties, NEW key \in Node \X Nat,
         NEW d, d = EmergencyReceived(c, key)
  PROVE  d \in NodeProperties /\ Inert(c, d)
<1>1. PICK seen \in SUBSET Key : seen = c.seen \cup {key}
  BY DEF NodeProperties, Key
<1>2. PICK floods \in SUBSET (Node \X Nat) : floods = c.floods \cup {key}
  BY DEF NodeProperties
<1>3. \A k : <<Sink, k>> \in seen <=> <<Sink, k>> \in c.seen
  BY <1>1, NodeLifecycleAssumption
<1> DEFINE e == [c EXCEPT !.seen = seen]
           f == [c EXCEPT !.seen = seen, !.floods = floods]
<1>4. e \in NodeProperties /\ Inert(c, e)
  BY <1>3 DEF NodeProperties, Inert
<1>5. f \in NodeProperties /\ Inert(c, f)
  BY <1>3 DEF NodeProperties, Inert
<1>6. d = c \/ d = e \/ d = BlinkingInit(f)
  BY <1>1, <1>2, Zenon DEF EmergencyReceived
<1> HIDE DEF e, f
<1>7. CASE d = BlinkingInit(f)
  <2>1. d \in NodeProperties /\ Inert(f, d)
    BY <1>5, <1>7, BlinkingEffect
  <2> QED BY <1>5, <2>1 DEF Inert
<1> QED BY <1>4, <1>6, <1>7 DEF Inert

-----------------------------------------------------------------------------
(* Types.                                                                  *)

\* A queue u whose first packet n has acknowledged.
Acknowledged(u, n) ==
  LET unacked == Head(u).unacked_ns \ {n}
  IN  IF unacked = {} THEN Tail(u) ELSE [u EXCEPT ![1].unacked_ns = unacked]

\* Its places are those of u, or those but the first, and wait for the same
\* nodes but n.
Shifted(u, v, n, s) ==
  /\ Len(v) = Len(u) - s
  /\ \A i \in 1..Len(v) :
       /\ v[i].p = u[i + s].p
       /\ v[i].unacked_ns = IF i + s = 1 THEN u[1].unacked_ns \ {n} ELSE u[i + s].unacked_ns
  /\ s = 1 => u[1].unacked_ns \ {n} = {}

LEMMA AcknowledgedEffect ==
  ASSUME NEW u \in Seq(QueuedPacket), u # << >>, NEW n, NEW v, v = Acknowledged(u, n)
  PROVE  /\ v \in Seq(QueuedPacket)
         /\ Head(u) = u[1] /\ 1 \in 1..Len(u) /\ u[1] \in QueuedPacket
         /\ \E s \in {0, 1} : Shifted(u, v, n, s)
<1>1. /\ Len(u) \in Nat /\ 1 \in 1..Len(u) /\ Head(u) = u[1] /\ u[1] \in QueuedPacket
      /\ \A i \in 1..Len(u) : u[i] \in QueuedPacket
  BY EmptySeq, LenProperties, ElementOfSeq
<1> DEFINE unacked == u[1].unacked_ns \ {n}
<1>2. CASE unacked = {}
  <2>1. v = Tail(u)
    BY <1>1, <1>2 DEF Acknowledged
  <2>2. /\ v \in Seq(QueuedPacket) /\ Len(v) = Len(u) - 1
        /\ \A i \in 1..Len(v) : v[i] = u[i + 1]
    BY <2>1, HeadTailProperties
  <2>3. Shifted(u, v, n, 1)
    <3>1. Len(v) \in Nat
      BY <2>2, LenProperties
    <3>2. \A i \in 1..Len(v) : i + 1 # 1
      BY <3>1
    <3> QED BY <1>2, <2>2, <3>2 DEF Shifted
  <2> QED BY <1>1, <2>2, <2>3
<1>3. CASE unacked # {}
  <2> DEFINE x == [u[1] EXCEPT !.unacked_ns = unacked]
  <2>1. v = [u EXCEPT ![1] = x]
    BY <1>1, <1>3 DEF Acknowledged
  <2>2. x \in QueuedPacket /\ x.p = u[1].p /\ x.unacked_ns = unacked
    BY <1>1, <1>3 DEF QueuedPacket
  <2> HIDE DEF x
  <2>3. /\ v \in Seq(QueuedPacket) /\ Len(v) = Len(u)
        /\ v[1] = x /\ \A i \in 1..Len(u) : i # 1 => v[i] = u[i]
    BY <1>1, <2>1, <2>2, ExceptSeq
  <2>4. Shifted(u, v, n, 0)
    <3>1. /\ Len(v) = Len(u) - 0
          /\ \A i \in 1..Len(v) : i + 0 = i
      BY <1>1, <2>3
    <3>2. \A i \in 1..Len(v) :
            /\ v[i].p = u[i].p
            /\ v[i].unacked_ns = IF i = 1 THEN u[1].unacked_ns \ {n} ELSE u[i].unacked_ns
      BY <1>1, <2>2, <2>3
    <3>3. \A i \in 1..Len(v) :
            /\ v[i].p = u[i + 0].p
            /\ v[i].unacked_ns = IF i + 0 = 1 THEN u[1].unacked_ns \ {n} ELSE u[i + 0].unacked_ns
      BY <3>1, <3>2
    <3>4. ~(0 = 1)
      OBVIOUS
    <3> QED BY <3>1, <3>3, <3>4, Zenon DEF Shifted
  <2> QED BY <1>1, <2>3, <2>4
<1> QED BY <1>2, <1>3

\* One node's record is replaced by another.
LEMMA OneProperties ==
  ASSUME TypeOK, NEW n \in Node, NEW d \in NodeProperties, np' = [np EXCEPT ![n] = d]
  PROVE  np' \in [Node -> NodeProperties]
  BY DEF TypeOK

LEMMA FaultsCount ==
  ASSUME TypeOK, NEW S \in SUBSET Node
  PROVE  /\ IsFiniteSet(S) /\ Cardinality(S) \in Nat
         /\ Faults(Cardinality(S)) => faults' \in 0..MaxFaults
<1>1. IsFiniteSet(S)
  BY NodeLifecycleAssumption, FS_Subset
<1>2. Cardinality(S) \in Nat
  BY <1>1, FS_CardinalityType
<1> QED BY <1>1, <1>2, NodeLifecycleAssumption DEF TypeOK, Faults

LEMMA SinkBroadcastsTyped ==
  ASSUME TypeOK, NEW type \in {"INITIALIZE_BEST_PATHS", "RESET_SYSTEM"}, SinkBroadcasts(type)
  PROVE  /\ np' \in [Node -> NodeProperties] /\ faults' \in 0..MaxFaults
         /\ flash' = flash /\ alarms' = alarms
         /\ sink.seqno \in Nat /\ sink.seqno < MaxCommands
<1> DEFINE p == [type |-> type, key |-> <<Sink, sink.seqno>>]
           hearers == {n \in SinkRange : Running(n)}
<1>1. sink.seqno \in Nat /\ p \in Packet /\ p.type = type
  BY NodeLifecycleAssumption DEF TypeOK, Packet
<1>2. PICK lost \in SUBSET hearers :
        /\ Faults(Cardinality(lost))
        /\ np' = [n \in Node |-> IF n \in hearers \ lost
                                 THEN Received(np[n], n, Sink, p) ELSE np[n]]
  BY Zenon DEF SinkBroadcasts
<1>3. lost \in SUBSET Node
  BY NodeLifecycleAssumption
<1> HIDE DEF p, hearers
<1>4. ASSUME NEW n \in Node PROVE Received(np[n], n, Sink, p) \in NodeProperties
  <2>1. np[n] \in NodeProperties /\ flash[n] \in {"blank", "torn", "whole"}
    BY DEF TypeOK
  <2>2. PICK d : d = Received(np[n], n, Sink, p)
    OBVIOUS
  <2>3. (p.type = "NODE_INFO" => Sink \in Node) /\ Sink \in Node \cup {Sink}
    BY <1>1
  <2>4. d \in NodeProperties
    BY <1>1, <2>1, <2>2, <2>3, ReceivedEffect
  <2> QED BY <2>2, <2>4
<1>5. np' \in [Node -> NodeProperties]
  BY <1>2, <1>4 DEF TypeOK
<1>6. faults' \in 0..MaxFaults
  BY <1>2, <1>3, FaultsCount
<1> QED BY <1>1, <1>5, <1>6 DEF SinkBroadcasts

\* The sink's record, and what the commands do to it.
SinkRecord ==
  [seqno : 0..MaxCommands, owes_init : BOOLEAN, initialized : BOOLEAN,
   repeated : BOOLEAN, hasty : BOOLEAN]

\* INITIALIZE.
LEMMA SendInitSink ==
  ASSUME sink \in SinkRecord, sink.seqno < MaxCommands, SendInitPacket
  PROVE  /\ sink' \in SinkRecord /\ sink'.seqno = sink.seqno + 1
         /\ ~sink'.owes_init /\ sink'.initialized
         /\ sink'.repeated <=> sink.repeated \/ sink.initialized
         /\ sink'.hasty = sink.hasty
<1>1. PICK seqno \in 0..MaxCommands : seqno = sink.seqno + 1
  <2>1. sink.seqno + 1 \in 0..MaxCommands
    BY NodeLifecycleAssumption DEF SinkRecord
  <2> QED BY <2>1, Zenon
<1>2. PICK yes \in BOOLEAN, no \in BOOLEAN : yes = TRUE /\ no = FALSE
  BY Zenon
<1>3. PICK repeated \in BOOLEAN : repeated = (sink.repeated \/ sink.initialized)
  BY Zenon
<1> DEFINE t == [sink EXCEPT !.seqno = seqno, !.owes_init = no, !.initialized = yes,
                             !.repeated = repeated]
<1>5. sink' = t
  BY <1>1, <1>2, <1>3, Zenon DEF SendInitPacket
<1>6. /\ t \in SinkRecord /\ t.seqno = seqno
      /\ t.owes_init = no /\ t.initialized = yes
      /\ t.repeated = repeated /\ t.hasty = sink.hasty
  BY DEF SinkRecord
<1> HIDE DEF t
<1> QED BY <1>1, <1>2, <1>3, <1>5, <1>6, Zenon

\* RESET.
LEMMA SendResetSink ==
  ASSUME sink \in SinkRecord, sink.seqno < MaxCommands, SendResetPacket
  PROVE  /\ sink' \in SinkRecord /\ sink'.seqno = sink.seqno + 1
         /\ sink'.owes_init /\ ~sink'.initialized
         /\ sink'.repeated = sink.repeated /\ sink'.hasty = sink.hasty
<1>1. PICK seqno \in 0..MaxCommands : seqno = sink.seqno + 1
  <2>1. sink.seqno + 1 \in 0..MaxCommands
    BY NodeLifecycleAssumption DEF SinkRecord
  <2> QED BY <2>1, Zenon
<1>2. PICK yes \in BOOLEAN, no \in BOOLEAN : yes = TRUE /\ no = FALSE
  BY Zenon
<1> DEFINE t == [sink EXCEPT !.seqno = seqno, !.owes_init = yes, !.initialized = no]
<1>5. sink' = t
  BY <1>1, <1>2, Zenon DEF SendResetPacket
<1>6. /\ t \in SinkRecord /\ t.seqno = seqno
      /\ t.owes_init = yes /\ t.initialized = no
      /\ t.repeated = sink.repeated /\ t.hasty = sink.hasty
  BY DEF SinkRecord
<1> HIDE DEF t
<1> QED BY <1>1, <1>2, <1>5, <1>6, Zenon

\* A set-up packet.
LEMMA SetupSink ==
  ASSUME NEW n \in Node, sink \in SinkRecord, sink.seqno < MaxCommands, SendSetupPacket(n)
  PROVE  /\ sink' \in SinkRecord /\ sink'.seqno = sink.seqno + 1
         /\ sink'.owes_init /\ sink'.initialized = sink.initialized
         /\ sink'.repeated = sink.repeated
         /\ sink'.hasty <=> sink.hasty \/ \E m \in Node : np[m].sq # << >>
<1>1. PICK seqno \in 0..MaxCommands : seqno = sink.seqno + 1
  <2>1. sink.seqno + 1 \in 0..MaxCommands
    BY NodeLifecycleAssumption DEF SinkRecord
  <2> QED BY <2>1, Zenon
<1>2. PICK yes \in BOOLEAN, no \in BOOLEAN : yes = TRUE /\ no = FALSE
  BY Zenon
<1>3. PICK hasty \in BOOLEAN : hasty = (sink.hasty \/ \E m \in Node : np[m].sq # << >>)
  BY Zenon
<1> DEFINE t == [sink EXCEPT !.seqno = seqno, !.owes_init = yes, !.hasty = hasty]
<1>5. sink' = t
  BY <1>1, <1>2, <1>3, Zenon DEF SendSetupPacket
<1>6. /\ t \in SinkRecord /\ t.seqno = seqno
      /\ t.owes_init = yes /\ t.initialized = sink.initialized
      /\ t.repeated = sink.repeated /\ t.hasty = hasty
  BY DEF SinkRecord
<1> HIDE DEF t
<1> QED BY <1>1, <1>2, <1>3, <1>5, <1>6, Zenon

LEMMA InitTyped == Init => TypeOK
<1> SUFFICES ASSUME Init PROVE TypeOK
  OBVIOUS
<1>1. flash \in [Node -> {"blank", "torn", "whole"}]
  BY DEF Init
<1>2. np \in [Node -> NodeProperties]
  <2>1. ASSUME NEW n \in Node PROVE ResetNodeProperties(n) \in NodeProperties
    <3>1. PICK d : d = ResetNodeProperties(n)
      OBVIOUS
    <3>2. flash[n] \in {"blank", "torn", "whole"}
      BY <1>1
    <3> QED BY <3>1, <3>2, BootEffect
  <2> QED BY <2>1 DEF Init
<1>3. sink \in [seqno : 0..MaxCommands, owes_init : BOOLEAN,
                initialized : BOOLEAN, repeated : BOOLEAN, hasty : BOOLEAN]
  <2>1. {FALSE} \subseteq BOOLEAN /\ {0} \subseteq 0..MaxCommands
    BY NodeLifecycleAssumption
  <2> DEFINE F == {FALSE}
  <2>2. sink \in [seqno : {0}, owes_init : BOOLEAN, initialized : F, repeated : F, hasty : F]
    BY Zenon DEF Init
  <2>3. F \subseteq BOOLEAN
    BY <2>1
  <2> HIDE DEF F
  <2> QED BY <2>1, <2>2, <2>3
<1>4. alarms \in 0..MaxAlarms /\ faults \in 0..MaxFaults
  BY NodeLifecycleAssumption DEF Init
<1> QED BY <1>1, <1>2, <1>3, <1>4 DEF TypeOK

LEMMA CommandTyped ==
  ASSUME TypeOK, SendInitPacket \/ SendResetPacket PROVE TypeOK'
<1>0. /\ sink \in SinkRecord
      /\ flash \in [Node -> {"blank", "torn", "whole"}] /\ alarms \in 0..MaxAlarms
  BY DEF TypeOK, SinkRecord
<1>1. /\ np' \in [Node -> NodeProperties] /\ faults' \in 0..MaxFaults
      /\ flash' = flash /\ alarms' = alarms
      /\ sink.seqno < MaxCommands
  BY SinkBroadcastsTyped DEF SendInitPacket, SendResetPacket
<1>2. sink' \in SinkRecord
  BY <1>0, <1>1, SendInitSink, SendResetSink
<1> QED BY <1>0, <1>1, <1>2 DEF TypeOK, SinkRecord

\* The button and emergencies change nothing of what the commands are about.
LEMMA PushButtonEffect ==
  ASSUME TypeOK, NEW n \in Node, PushButton(n)
  PROVE  np' \in [Node -> NodeProperties] /\ \A m \in Node : Inert(np[m], np'[m])
<1>1. PICK yes \in BOOLEAN : yes = TRUE
  BY Zenon
<1>2. PICK c \in NodeProperties : c = np[n]
  BY DEF TypeOK
<1> DEFINE d == [c EXCEPT !.is_awaiting_setup_packet = yes]
<1>3. np' = [np EXCEPT ![n] = d]
  BY <1>1, <1>2, Zenon DEF PushButton
<1>4. d \in NodeProperties /\ Inert(c, d)
  BY DEF NodeProperties, Inert
<1> HIDE DEF d
<1>5. np' \in [Node -> NodeProperties]
  BY <1>3, <1>4, OneProperties
<1>6. ASSUME NEW m \in Node PROVE Inert(np[m], np'[m])
  <2>1. CASE m = n
    BY <1>2, <1>3, <1>4, <2>1 DEF TypeOK
  <2>2. CASE m # n
    BY <1>3, <2>2 DEF TypeOK, Inert
  <2> QED BY <2>1, <2>2
<1> QED BY <1>5, <1>6

LEMMA SenseEmergencyEffect ==
  ASSUME TypeOK, NEW n \in Node, SenseEmergency(n)
  PROVE  np' \in [Node -> NodeProperties] /\ \A m \in Node : Inert(np[m], np'[m])
<1>1. PICK yes \in BOOLEAN : yes = TRUE
  BY Zenon
<1>2. PICK c \in NodeProperties : c = np[n]
  BY DEF TypeOK
<1> DEFINE key == <<n, c.seqno>>
           b == [c EXCEPT !.is_burning = yes]
<1>3. b \in NodeProperties /\ Inert(c, b) /\ b.seqno = c.seqno
  BY DEF NodeProperties, Inert
<1>4. PICK e : e = BlinkingInit(b)
  OBVIOUS
<1>5. key \in Node \X Nat /\ key \in Key
  BY DEF NodeProperties, Key
<1>6. np' = [np EXCEPT ![n] = [e EXCEPT !.floods = @ \cup {key}, !.seen = @ \cup {key},
                                        !.seqno = @ + 1]]
  BY <1>1, <1>2, <1>4, Zenon DEF SenseEmergency
<1> HIDE DEF b, key
<1>7. e \in NodeProperties /\ Inert(b, e) /\ e.seqno = b.seqno
  BY <1>3, <1>4, BlinkingEffect
<1>8. PICK floods \in SUBSET (Node \X Nat), seen \in SUBSET Key :
        floods = e.floods \cup {key} /\ seen = e.seen \cup {key}
  BY <1>5, <1>7 DEF NodeProperties
<1>9. PICK seqno \in Nat : seqno = e.seqno + 1
  <2>1. e.seqno \in Nat
    BY <1>7 DEF NodeProperties
  <2>2. e.seqno + 1 \in Nat
    BY <2>1
  <2> QED BY <2>2, Zenon
<1> DEFINE d == [e EXCEPT !.floods = floods, !.seen = seen, !.seqno = seqno]
<1>10. np' = [np EXCEPT ![n] = d]
  BY <1>6, <1>8, <1>9, Zenon
<1>11. d \in NodeProperties /\ Inert(c, d)
  <2>1. \A k : <<Sink, k>> # key
    BY NodeLifecycleAssumption DEF key
  <2>2. d \in NodeProperties
    BY <1>7 DEF NodeProperties
  <2>3. /\ d.ns = e.ns /\ d.is_exit_node = e.is_exit_node
        /\ d.is_reset_mode = e.is_reset_mode /\ d.has_sent_node_info = e.has_sent_node_info
        /\ d.sq = e.sq /\ d.stopped = e.stopped /\ d.seen = seen
    BY <1>7 DEF NodeProperties
  <2> HIDE DEF d
  <2>4. Inert(e, d)
    BY <1>8, <2>1, <2>3 DEF Inert
  <2>5. Inert(c, d)
    BY <1>3, <1>7, <2>4 DEF Inert
  <2> QED BY <2>2, <2>5
<1> HIDE DEF d
<1>12. np' \in [Node -> NodeProperties]
  BY <1>10, <1>11, OneProperties
<1>13. ASSUME NEW m \in Node PROVE Inert(np[m], np'[m])
  <2>1. CASE m = n
    BY <1>2, <1>10, <1>11, <2>1 DEF TypeOK
  <2>2. CASE m # n
    BY <1>10, <2>2 DEF TypeOK, Inert
  <2> QED BY <2>1, <2>2
<1> QED BY <1>12, <1>13

LEMMA SendFloodEffect ==
  ASSUME TypeOK, NEW n \in Node, SendFlood(n)
  PROVE  /\ np' \in [Node -> NodeProperties] /\ faults' \in 0..MaxFaults
         /\ \A m \in Node : Inert(np[m], np'[m])
<1> DEFINE hearers == {m \in Table[n] : Running(m)}
<1>1. PICK key \in np[n].floods :
        \E lost \in SUBSET hearers :
           /\ Faults(Cardinality(lost))
           /\ np' = [m \in Node |->
                CASE m = n -> [np[n] EXCEPT !.floods = @ \ {key}]
                  [] m \in hearers \ lost -> EmergencyReceived(np[m], key)
                  [] m \notin hearers \ lost /\ m # n -> np[m]]
  BY Zenon DEF SendFlood
<1>2. PICK lost \in SUBSET hearers :
           /\ Faults(Cardinality(lost))
           /\ np' = [m \in Node |->
                CASE m = n -> [np[n] EXCEPT !.floods = @ \ {key}]
                  [] m \in hearers \ lost -> EmergencyReceived(np[m], key)
                  [] m \notin hearers \ lost /\ m # n -> np[m]]
  BY <1>1, Zenon
<1>3. hearers \in SUBSET Node /\ n \notin hearers /\ lost \in SUBSET Node
  BY NodeLifecycleAssumption
<1>4. key \in Node \X Nat
  BY DEF TypeOK, NodeProperties
<1> HIDE DEF hearers
<1>5. ASSUME NEW m \in Node PROVE np'[m] \in NodeProperties /\ Inert(np[m], np'[m])
  <2>0. np[m] \in NodeProperties
    BY DEF TypeOK
  <2>1. CASE m = n
    <3>1. PICK c \in NodeProperties : c = np[n]
      BY <2>0, <2>1
    <3>2. PICK floods \in SUBSET (Node \X Nat) : floods = c.floods \ {key}
      BY DEF NodeProperties
    <3> DEFINE d == [c EXCEPT !.floods = floods]
    <3>3. np'[m] = [np[n] EXCEPT !.floods = @ \ {key}]
      BY <1>2, <1>3, <2>1
    <3>4. np'[m] = d
      BY <3>1, <3>2, <3>3, Zenon
    <3>5. d \in NodeProperties /\ Inert(c, d)
      BY DEF NodeProperties, Inert
    <3> HIDE DEF d
    <3> QED BY <2>1, <3>1, <3>4, <3>5
  <2>2. CASE m \in hearers \ lost
    <3>1. np'[m] = EmergencyReceived(np[m], key)
      BY <1>2, <1>3, <2>2
    <3> QED BY <1>4, <2>0, <3>1, EmergencyEffect
  <2>3. CASE m \notin hearers \ lost /\ m # n
    <3>1. np'[m] = np[m]
      BY <1>2, <2>3
    <3> QED BY <2>0, <3>1 DEF Inert
  <2> QED BY <2>1, <2>2, <2>3
<1>6. np' \in [Node -> NodeProperties]
  BY <1>2, <1>5
<1>7. faults' \in 0..MaxFaults
  BY <1>2, <1>3, FaultsCount
<1> QED BY <1>5, <1>6, <1>7

\* All but the queue is as it was.
QueueOnly(c, d) ==
  /\ d.ns = c.ns /\ d.is_exit_node = c.is_exit_node
  /\ d.is_reset_mode = c.is_reset_mode /\ d.has_sent_node_info = c.has_sent_node_info
  /\ d.stopped = c.stopped /\ d.seen = c.seen

LEMMA QueueReplaced ==
  ASSUME NEW c \in NodeProperties, NEW v \in Seq(QueuedPacket), NEW d, d = [c EXCEPT !.sq = v]
  PROVE  d \in NodeProperties /\ QueueOnly(c, d) /\ d.sq = v
  BY DEF NodeProperties, QueueOnly

LEMMA GiveUpEffect ==
  ASSUME TypeOK, NEW m \in Node, GiveUp(m)
  PROVE  /\ np' \in [Node -> NodeProperties] /\ faults' \in 0..MaxFaults
         /\ QueueOnly(np[m], np'[m]) /\ np'[m].sq = Tail(np[m].sq)
         /\ \A n \in Node : n # m => np'[n] = np[n]
<1>1. PICK c \in NodeProperties : c = np[m]
  BY DEF TypeOK
<1>2. c.sq \in Seq(QueuedPacket) /\ c.sq # << >>
  BY <1>1 DEF GiveUp, NodeProperties
<1>3. PICK v \in Seq(QueuedPacket) : v = Tail(c.sq)
  <2>1. Tail(c.sq) \in Seq(QueuedPacket)
    BY <1>2, HeadTailProperties
  <2> QED BY <2>1, Zenon
<1> DEFINE d == [c EXCEPT !.sq = v]
<1>4. np' = [np EXCEPT ![m] = d]
  BY <1>1, <1>3, Zenon DEF GiveUp
<1>5. d \in NodeProperties /\ QueueOnly(c, d) /\ d.sq = v
  BY QueueReplaced
<1> HIDE DEF d
<1>6. np' \in [Node -> NodeProperties]
  BY <1>4, <1>5, OneProperties
<1>7. np'[m] = d /\ \A n \in Node : n # m => np'[n] = np[n]
  BY <1>4 DEF TypeOK
<1>8. faults' \in 0..MaxFaults
  <2> DEFINE S == {n \in Head(np[m].sq).unacked_ns : Running(n) /\ m \in np[n].ns}
  <2>1. Head(c.sq) \in QueuedPacket
    BY <1>2
  <2>2. S \in SUBSET Node
    BY <1>1, <2>1 DEF QueuedPacket
  <2>3. Faults(Cardinality(S))
    BY DEF GiveUp
  <2> HIDE DEF S
  <2> QED BY <2>2, <2>3, FaultsCount
<1> QED BY <1>1, <1>3, <1>5, <1>6, <1>7, <1>8

LEMMA DeliverEffect ==
  ASSUME TypeOK, NEW m \in Node, NEW n \in Node, Deliver(m, n)
  PROVE  /\ np' \in [Node -> NodeProperties]
         /\ np[m].sq # << >> /\ n \in Head(np[m].sq).unacked_ns /\ m \in np[n].ns
         /\ Running(m) /\ Running(n)
         /\ Head(np[m].sq).p \in Packet
         /\ m # n => /\ QueueOnly(np[m], np'[m])
                     /\ np'[m].sq = Acknowledged(np[m].sq, n)
                     /\ np'[n] = Received(np[n], n, m, Head(np[m].sq).p)
         /\ \A k \in Node : k # m /\ k # n => np'[k] = np[k]
<1>1. PICK c \in NodeProperties : c = np[m]
  BY DEF TypeOK
<1>2. c.sq \in Seq(QueuedPacket) /\ c.sq # << >>
  BY <1>1 DEF Deliver, NodeProperties
<1>3. PICK v : v = Acknowledged(c.sq, n)
  OBVIOUS
<1>4. v \in Seq(QueuedPacket)
  BY <1>2, <1>3, AcknowledgedEffect
<1> DEFINE d == [c EXCEPT !.sq = v]
           p == Head(c.sq).p
<1>5. d \in NodeProperties /\ QueueOnly(c, d) /\ d.sq = v
  BY <1>4, QueueReplaced
<1>6. p \in Packet
  <2>1. Head(c.sq) \in QueuedPacket
    BY <1>2
  <2> QED BY <2>1 DEF QueuedPacket
<1>7. PICK s : s = [np EXCEPT ![m] = d]
  OBVIOUS
<1>8. np' = [s EXCEPT ![n] = Received(s[n], n, m, p)]
  BY <1>1, <1>3, <1>7, Zenon DEF Deliver, Acknowledged
<1> HIDE DEF d, p
<1>10. ASSUME NEW e \in NodeProperties PROVE Received(e, n, m, p) \in NodeProperties
  <2>1. flash[n] \in {"blank", "torn", "whole"}
    BY DEF TypeOK
  <2>2. PICK r : r = Received(e, n, m, p)
    OBVIOUS
  <2>3. (p.type = "NODE_INFO" => m \in Node) /\ m \in Node \cup {Sink}
    OBVIOUS
  <2>4. r \in NodeProperties
    BY <1>6, <2>1, <2>2, <2>3, ReceivedEffect
  <2> QED BY <2>2, <2>4
<1>9. np \in [Node -> NodeProperties]
  BY DEF TypeOK
<1>11. s \in [Node -> NodeProperties] /\ s[m] = d /\ \A k \in Node : k # m => s[k] = np[k]
  BY <1>5, <1>7, <1>9
<1>13. Received(s[n], n, m, p) \in NodeProperties
  BY <1>10, <1>11
<1>14. /\ np' \in [Node -> NodeProperties] /\ np'[n] = Received(s[n], n, m, p)
       /\ \A k \in Node : k # n => np'[k] = s[k]
  BY <1>8, <1>11, <1>13
<1>15. m # n => /\ QueueOnly(np[m], np'[m])
                /\ np'[m].sq = Acknowledged(np[m].sq, n)
                /\ np'[n] = Received(np[n], n, m, Head(np[m].sq).p)
  BY <1>1, <1>3, <1>5, <1>11, <1>14 DEF p
<1> QED BY <1>1, <1>6, <1>11, <1>14, <1>15 DEF p, Deliver

\* Power is lost while flash is written: the node boots from what is there.
LEMMA BootLater ==
  ASSUME NEW n \in Node, flash'[n] \in {"blank", "torn", "whole"},
         NEW d, d = ResetNodeProperties(n)'
  PROVE  d \in NodeProperties
<1>1. PICK no \in BOOLEAN : no = FALSE
  BY Zenon
<1> DEFINE c == [ns |-> {}, known |-> {}, is_exit_node |-> no, bpn |-> "null",
                 is_awaiting_setup_packet |-> no, is_reset_mode |-> no,
                 has_sent_node_info |-> no, is_blinking |-> no,
                 is_burning |-> no, seqno |-> 0, sq |-> << >>, seen |-> {},
                 floods |-> {}, stopped |-> "no"]
<1>2. PICK whole \in BOOLEAN : whole = (flash'[n] = "whole")
  BY Zenon
<1>3. d = IF flash'[n] = "blank" THEN c ELSE SetupParse(c, n, whole)
  BY <1>1, <1>2, Zenon DEF ResetNodeProperties, Restored
<1>4. c \in NodeProperties
  BY DEF NodeProperties
<1> HIDE DEF c
<1>5. CASE flash'[n] = "blank"
  BY <1>3, <1>4, <1>5
<1>6. CASE flash'[n] # "blank"
  BY <1>3, <1>4, <1>6, SetupParseEffect
<1> QED BY <1>5, <1>6

\* A set-up packet is taken, or power is lost while flash is written, or it is
\* not taken.
LEMMA SendSetupPacketEffect ==
  ASSUME TypeOK, NEW n \in Node, SendSetupPacket(n)
  PROVE  /\ np' \in [Node -> NodeProperties] /\ faults' \in 0..MaxFaults
         /\ flash' \in [Node -> {"blank", "torn", "whole"}]
         /\ \A m \in Node : m # n => np'[m] = np[m] /\ flash'[m] = flash[m]
         /\ \/ /\ flash'[n] = "whole" /\ np'[n] = SetupParse(np[n], n, TRUE)
            \/ faults' > 0
            \/ np' = np /\ flash' = flash
<1>0. /\ np \in [Node -> NodeProperties] /\ flash \in [Node -> {"blank", "torn", "whole"}]
      /\ faults \in 0..MaxFaults /\ MaxFaults \in Nat
  BY NodeLifecycleAssumption DEF TypeOK
<1>1. CASE /\ flash' = [flash EXCEPT ![n] = "whole"]
           /\ np' = [np EXCEPT ![n] = SetupParse(@, n, TRUE)]
           /\ Faults(0)
  <2>1. PICK d : d = SetupParse(np[n], n, TRUE)
    OBVIOUS
  <2>2. d \in NodeProperties
    <3>1. np[n] \in NodeProperties /\ TRUE \in BOOLEAN
      BY <1>0
    <3> QED BY <2>1, <3>1, SetupParseEffect
  <2>3. np' = [np EXCEPT ![n] = d]
    BY <1>1, <2>1, Zenon
  <2>4. np' \in [Node -> NodeProperties] /\ np'[n] = d /\ \A m \in Node : m # n => np'[m] = np[m]
    BY <1>0, <2>2, <2>3
  <2>5. /\ flash' \in [Node -> {"blank", "torn", "whole"}] /\ flash'[n] = "whole"
        /\ \A m \in Node : m # n => flash'[m] = flash[m]
    BY <1>0, <1>1
  <2>6. faults' \in 0..MaxFaults
    BY <1>0, <1>1 DEF Faults
  <2> QED BY <2>1, <2>4, <2>5, <2>6
<1>2. CASE /\ \E torn \in {"blank", "torn"} : flash' = [flash EXCEPT ![n] = torn]
           /\ np' = [np EXCEPT ![n] = ResetNodeProperties(n)']
           /\ Faults(1)
  <2>1. /\ flash' \in [Node -> {"blank", "torn", "whole"}]
        /\ \A m \in Node : m # n => flash'[m] = flash[m]
    BY <1>0, <1>2
  <2>2. \A d : d = ResetNodeProperties(n)' => d \in NodeProperties
    <3>1. ASSUME NEW d, d = ResetNodeProperties(n)', flash'[n] \in {"blank", "torn", "whole"}
          PROVE  d \in NodeProperties
      BY <3>1, BootLater
    <3> QED BY <2>1, <3>1
  <2>3. PICK d : d = ResetNodeProperties(n)'
    OBVIOUS
  <2>4. d \in NodeProperties /\ np' = [np EXCEPT ![n] = d]
    BY <1>2, <2>2, <2>3
  <2>5. np' \in [Node -> NodeProperties] /\ \A m \in Node : m # n => np'[m] = np[m]
    BY <1>0, <2>4
  <2>6. faults' \in 0..MaxFaults /\ faults' > 0
    BY <1>0, <1>2 DEF Faults
  <2> QED BY <2>1, <2>5, <2>6
<1>3. CASE Faults(IF np[n].is_reset_mode THEN 0 ELSE 1) /\ UNCHANGED <<np, flash>>
  <2>1. faults' \in 0..MaxFaults
    BY <1>0, <1>3 DEF Faults
  <2> QED BY <1>0, <1>3, <2>1
<1> QED BY <1>1, <1>2, <1>3, Zenon DEF SendSetupPacket

LEMMA PowerLossEffect ==
  ASSUME TypeOK, NEW n \in Node, PowerLoss(n)
  PROVE  np' \in [Node -> NodeProperties] /\ faults' \in 0..MaxFaults /\ faults' > 0
<1>1. PICK d : d = ResetNodeProperties(n)
  OBVIOUS
<1>2. d \in NodeProperties
  <2>1. flash[n] \in {"blank", "torn", "whole"}
    BY DEF TypeOK
  <2> QED BY <1>1, <2>1, BootEffect
<1>3. np' = [np EXCEPT ![n] = d]
  BY <1>1 DEF PowerLoss
<1>4. faults' \in 0..MaxFaults /\ faults' > 0
  BY NodeLifecycleAssumption DEF PowerLoss, Faults, TypeOK
<1> QED BY <1>2, <1>3, <1>4, OneProperties

LEMMA NextTyped == TypeOK /\ [Next]_vars => TypeOK'
<1> SUFFICES ASSUME TypeOK, [Next]_vars PROVE TypeOK'
  OBVIOUS
<1>0. /\ np \in [Node -> NodeProperties]
      /\ flash \in [Node -> {"blank", "torn", "whole"}]
      /\ sink \in SinkRecord /\ alarms \in 0..MaxAlarms /\ faults \in 0..MaxFaults
  BY DEF TypeOK, SinkRecord
<1>1. ASSUME /\ np' \in [Node -> NodeProperties]
             /\ flash' \in [Node -> {"blank", "torn", "whole"}]
             /\ sink' \in SinkRecord /\ alarms' \in 0..MaxAlarms /\ faults' \in 0..MaxFaults
      PROVE  TypeOK'
  BY <1>1 DEF TypeOK, SinkRecord
<1>2. CASE SendInitPacket \/ SendResetPacket
  BY <1>2, CommandTyped
<1>3. ASSUME NEW n \in Node, PushButton(n) PROVE TypeOK'
  BY <1>0, <1>1, <1>3, PushButtonEffect DEF PushButton
<1>4. ASSUME NEW n \in Node, SendSetupPacket(n) PROVE TypeOK'
  <2>1. sink.seqno < MaxCommands /\ alarms' = alarms
    BY <1>4 DEF SendSetupPacket
  <2> QED BY <1>0, <1>1, <1>4, <2>1, SendSetupPacketEffect, SetupSink
<1>5. ASSUME NEW m \in Node, NEW n \in Node, Deliver(m, n) PROVE TypeOK'
  <2>1. UNCHANGED <<flash, sink, alarms, faults>>
    BY <1>5, Zenon DEF Deliver
  <2> QED BY <1>0, <1>1, <1>5, <2>1, DeliverEffect
<1>6. ASSUME NEW n \in Node, GiveUp(n) PROVE TypeOK'
  BY <1>0, <1>1, <1>6, GiveUpEffect DEF GiveUp
<1>7. ASSUME NEW n \in Node, SenseEmergency(n) PROVE TypeOK'
  <2>1. alarms' \in 0..MaxAlarms /\ UNCHANGED <<flash, sink, faults>>
    BY <1>0, <1>7, NodeLifecycleAssumption DEF SenseEmergency
  <2> QED BY <1>0, <1>1, <1>7, <2>1, SenseEmergencyEffect
<1>8. ASSUME NEW n \in Node, SendFlood(n) PROVE TypeOK'
  <2>1. UNCHANGED <<flash, sink, alarms>>
    BY <1>8, Zenon DEF SendFlood
  <2> QED BY <1>0, <1>1, <1>8, <2>1, SendFloodEffect
<1>9. ASSUME NEW n \in Node, PowerLoss(n) PROVE TypeOK'
  BY <1>0, <1>1, <1>9, PowerLossEffect DEF PowerLoss
<1>10. CASE UNCHANGED vars
  BY <1>0, <1>1, <1>10 DEF vars
<1> QED
  BY <1>2, <1>3, <1>4, <1>5, <1>6, <1>7, <1>8, <1>9, <1>10 DEF Next

\* The node properties, the flash, the sink and the counters keep their types
\* in every network, and no queue holds a packet that waits for nobody (each
\* handler of main_reg_sensor.c, power failures included).
THEOREM NodeLifecycleTyped == Spec => []TypeOK
<1>1. Init => TypeOK
  BY InitTyped
<1>2. TypeOK /\ [Next]_vars => TypeOK'
  BY NextTyped
<1> QED BY <1>1, <1>2, PTL DEF Spec

-----------------------------------------------------------------------------
(* That an exit stops by its second NODE_INFO only if the sink repeats     *)
(* INITIALIZE, a frame or power is lost, or a node is set up too early.    *)
(* The inductive invariant J says in what order the commands of the sink   *)
(* travel: every node sees them in the order they were sent, since what it *)
(* passes on stays in order in its queue.                                  *)
(* The invariant.                                                          *)

\* INITIALIZE and RESET are told by their sequence numbers, I those of INITIALIZE
\* and R those of RESET.  A set-up packet has one, too, but is not flooded.
Saw(c, k) == <<Sink, k>> \in c.seen

\* They alternate, as the interface orders them: after every RESET follows an
\* INITIALIZE, and after that no second one.
HistoryInv(I, R) ==
  /\ I \subseteq 0..(sink.seqno - 1) /\ R \subseteq 0..(sink.seqno - 1)
  /\ ~sink.initialized => \A i \in I : \E r \in R : i < r
  /\ ~sink.owes_init => \A r \in R : \E i \in I : r < i
  /\ ~sink.initialized /\ ~sink.owes_init => sink.seqno = 0

Alternate(I, R) ==
  /\ I \cap R = {}
  /\ \A i, j \in I : i < j => \E r \in R : i < r /\ r < j
  /\ \A r, s \in R : r < s => \E i \in I : r < i /\ i < s

\* The record c of node n: it is set up as flash says, which no power failure tore.
SetUp(c, n) ==
  /\ flash[n] # "torn"
  /\ c.ns = IF flash[n] = "whole" THEN Table[n] ELSE {}
  /\ c.is_exit_node <=> flash[n] = "whole" /\ n \in Exits

\* A packet of the sink, as the sink sent it, or what a node tells of itself.
FromHistory(p, I, R) ==
  /\ p.type = "INITIALIZE_BEST_PATHS" => \E k \in I : p.key = <<Sink, k>>
  /\ p.type = "RESET_SYSTEM" => \E k \in R : p.key = <<Sink, k>>
  /\ p.type = "NODE_INFO" => p.key[1] # Sink

\* What a node has seen and queued was sent, and is for its neighbours.
QueueGood(c, I, R) ==
  /\ \A k : Saw(c, k) => k \in I \cup R
  /\ \A i \in 1..Len(c.sq) : /\ FromHistory(c.sq[i].p, I, R)
                             /\ c.sq[i].unacked_ns \subseteq c.ns

\* The last command the node has seen is one of C and none of D.
LastIs(c, C, D) == \E i \in C : Saw(c, i) /\ \A r \in D : Saw(c, r) => r < i

\* An exit that has told its node information was initialized, and not reset since.
ExitGood(c, n, I, R) ==
  /\ c.stopped # "second NODE_INFO"
  /\ c.stopped = "no" /\ c.is_exit_node /\ c.has_sent_node_info =>
       /\ ~c.is_reset_mode
       /\ c.ns = {} => sink.initialized /\ n \in SinkRange
       /\ c.ns # {} => LastIs(c, I, R)

\* With a command, the node has seen those sent before it.
SeenInOrder(c, K) == \A i, k \in K : Saw(c, i) /\ k < i => Saw(c, k)

\* A node with neighbours has seen the commands in the order they were sent, and
\* is in the mode that the last of them put it into.
NodeGood(c, I, R) ==
  /\ SeenInOrder(c, I \cup R)
  /\ ~c.is_reset_mode => (\A k : ~Saw(c, k)) \/ LastIs(c, I, R)
  /\ c.is_reset_mode => LastIs(c, R, I)

\* Place i of a queue waits for node n, with the sink's packet k.
Carries(c, i, n, k) == n \in c.sq[i].unacked_ns /\ c.sq[i].p.key = <<Sink, k>>

\* What the node with record c has seen its neighbour n, with record e, has seen,
\* too, or is yet to get from it;
Forwarded(c, e, n) ==
  \A k : Saw(c, k) => Saw(e, k) \/ \E i \in 1..Len(c.sq) : Carries(c, i, n, k)

\* it gets the sink's packets in the order they were sent;
Ordered(c, e, n, K) ==
  \A i \in 1..Len(c.sq) : \A j, k \in K :
    Carries(c, i, n, j) /\ k < j => Saw(e, k) \/ \E h \in 1..(i - 1) : Carries(c, h, n, k)

\* and node information after the first of them.
InfoAfter(c, e, n) ==
  \A i \in 1..Len(c.sq) :
    n \in c.sq[i].unacked_ns /\ c.sq[i].p.type = "NODE_INFO" =>
      \/ \E k : Saw(e, k)
      \/ \E h \in 1..(i - 1) : \E k : Carries(c, h, n, k)

Between(c, e, n, K) == Forwarded(c, e, n) /\ Ordered(c, e, n, K) /\ InfoAfter(c, e, n)

\* Node n would take what m sends.
Listens(m, n) == n \in np[m].ns /\ np[n].stopped = "no" /\ m \in np[n].ns

\* A node was set up after INITIALIZE: the next command is a second INITIALIZE.
Over == sink.initialized /\ sink.owes_init

InNetwork(n) == np[n].stopped = "no" /\ np[n].ns # {}

NodesGood(I, R) ==
  \A n \in Node : /\ SetUp(np[n], n)
                  /\ QueueGood(np[n], I, R)
                  /\ ExitGood(np[n], n, I, R)

\* The nodes that hear the sink have seen all commands.
NetworkGood(I, R) ==
  \A n \in Node : InNetwork(n) =>
    /\ NodeGood(np[n], I, R)
    /\ n \in SinkRange => \A k \in I \cup R : Saw(np[n], k)

PairsGood(I, R) ==
  \A m, n \in Node : Listens(m, n) => Between(np[m], np[n], n, I \cup R)

\* What is left of the invariant when a node was set up after INITIALIZE is that
\* nothing is on its way.
J(I, R) ==
  /\ HistoryInv(I, R) /\ Alternate(I, R) /\ NodesGood(I, R)
  /\ Over => \A n \in Node : np[n].sq = << >>
  /\ ~Over => NetworkGood(I, R) /\ PairsGood(I, R)

Excused == sink.repeated \/ sink.hasty \/ faults > 0

JInv == TypeOK /\ (Excused \/ \E I, R \in SUBSET Nat : J(I, R))

-----------------------------------------------------------------------------
(* A queue and the node it waits for.                                      *)

LEMMA ReceiverGrows ==
  ASSUME NEW c, NEW e, NEW f, NEW n, NEW K, Between(c, e, n, K),
         \A k : Saw(e, k) => Saw(f, k)
  PROVE  Between(c, f, n, K)
  BY DEF Between, Forwarded, Ordered, InfoAfter

\* What a packet from outside does to a node's queue: nothing, or it is passed on
\* and what the node tells comes behind it, or the node tells only that.
Grown(c, d, K) ==
  /\ \/ /\ d.sq = c.sq /\ \A k : Saw(d, k) <=> Saw(c, k)
     \/ \E j \in K, p \in Packet :
          /\ p.key = <<Sink, j>> /\ PassedOn(c, d, p) /\ SeesToo(c, d, p)
          /\ p.type # "NODE_INFO"
          /\ \A k \in K : k < j => Saw(c, k)
     \/ /\ Told(c, d) /\ \A k : Saw(d, k) <=> Saw(c, k)
        /\ \E k : Saw(c, k)

\* What is told is not the sink's.
LEMMA OwnInfoIsNot ==
  ASSUME NEW d, NEW i, IsOwnInfo(d.sq[i].p), NEW n, NEW k
  PROVE  ~Carries(d, i, n, k)
  BY DEF IsOwnInfo, Carries

LEMMA SenderGrows ==
  ASSUME NEW c \in NodeProperties, NEW d \in NodeProperties, NEW e, NEW n, n \in c.ns,
         NEW K \in SUBSET Nat, Between(c, e, n, K), Grown(c, d, K)
  PROVE  Between(d, e, n, K)
<1>0. Len(c.sq) \in Nat /\ Len(d.sq) \in Nat
  BY LenProperties DEF NodeProperties
<1>1. CASE d.sq = c.sq /\ \A k : Saw(d, k) <=> Saw(c, k)
  <2>1. \A i, k : Carries(d, i, n, k) <=> Carries(c, i, n, k)
    BY <1>1 DEF Carries
  <2>2. Forwarded(d, e, n)
    BY <1>1, <2>1 DEF Between, Forwarded
  <2>3. Ordered(d, e, n, K)
    BY <1>1, <2>1 DEF Between, Ordered
  <2>4. InfoAfter(d, e, n)
    BY <1>1, <2>1 DEF Between, InfoAfter
  <2> QED BY <2>2, <2>3, <2>4 DEF Between
<1>2. ASSUME Longer(c, d)
      PROVE  \A i \in 1..Len(c.sq) : /\ i \in 1..Len(d.sq) /\ d.sq[i] = c.sq[i]
                                     /\ \A k : Carries(d, i, n, k) <=> Carries(c, i, n, k)
  BY <1>0, <1>2 DEF Longer, Carries
<1>3. CASE \E j \in K, p \in Packet :
             /\ p.key = <<Sink, j>> /\ PassedOn(c, d, p) /\ SeesToo(c, d, p)
             /\ p.type # "NODE_INFO"
             /\ \A k \in K : k < j => Saw(c, k)
  <2>1. PICK j \in K, p \in Packet :
             /\ p.key = <<Sink, j>> /\ PassedOn(c, d, p) /\ SeesToo(c, d, p)
             /\ p.type # "NODE_INFO"
             /\ \A k \in K : k < j => Saw(c, k)
    BY <1>3
  <2> DEFINE l == Len(c.sq) + 1
  <2>2. /\ Longer(c, d) /\ l \in 1..Len(d.sq)
        /\ Carries(d, l, n, j) /\ d.sq[l].p = p
        /\ \A i \in (Len(c.sq) + 2)..Len(d.sq) : IsOwnInfo(d.sq[i].p)
    BY <1>0, <2>1 DEF PassedOn, Longer, Carries
  <2>3. /\ \A i \in 1..Len(c.sq) : i \in 1..(l - 1) /\ i \in Nat
        /\ \A i \in 1..Len(d.sq) : \/ i \in 1..Len(c.sq)
                                   \/ i = l
                                   \/ i \in (Len(c.sq) + 2)..Len(d.sq) /\ l \in 1..(i - 1)
    BY <1>0
  <2>4. \A k : Saw(d, k) <=> Saw(c, k) \/ k = j
    BY <2>1 DEF SeesToo, Saw
  <2> HIDE DEF l
  <2>5. Forwarded(d, e, n)
    BY <1>2, <2>2, <2>4 DEF Between, Forwarded
  <2>6. Ordered(d, e, n, K)
    <3> SUFFICES ASSUME NEW i \in 1..Len(d.sq), NEW q \in K, NEW k \in K,
                        Carries(d, i, n, q), k < q
                 PROVE  Saw(e, k) \/ \E h \in 1..(i - 1) : Carries(d, h, n, k)
      BY DEF Ordered
    <3>1. CASE i \in 1..Len(c.sq)
      <4>1. Carries(c, i, n, q)
        BY <1>2, <2>2, <3>1
      <4>2. Saw(e, k) \/ \E h \in 1..(i - 1) : Carries(c, h, n, k)
        BY <3>1, <4>1 DEF Between, Ordered
      <4>3. \A h \in 1..(i - 1) : h \in 1..Len(c.sq)
        BY <1>0, <3>1
      <4> QED BY <1>2, <2>2, <4>2, <4>3
    <3>2. CASE i = l
      <4>1. q = j
        BY <2>1, <2>2, <3>2 DEF Carries
      <4>2. Saw(c, k)
        BY <2>1, <4>1
      <4>3. Saw(e, k) \/ \E h \in 1..Len(c.sq) : Carries(c, h, n, k)
        BY <4>2 DEF Between, Forwarded
      <4> QED BY <1>2, <2>2, <2>3, <3>2, <4>3
    <3>3. CASE i \in (Len(c.sq) + 2)..Len(d.sq)
      BY <2>2, <3>3, OwnInfoIsNot
    <3> QED BY <2>3, <3>1, <3>2, <3>3
  <2>7. InfoAfter(d, e, n)
    <3> SUFFICES ASSUME NEW i \in 1..Len(d.sq),
                        n \in d.sq[i].unacked_ns, d.sq[i].p.type = "NODE_INFO"
                 PROVE  \/ \E k : Saw(e, k)
                        \/ \E h \in 1..(i - 1) : \E k : Carries(d, h, n, k)
      BY DEF InfoAfter
    <3>1. CASE i \in 1..Len(c.sq)
      <4>1. n \in c.sq[i].unacked_ns /\ c.sq[i].p.type = "NODE_INFO"
        BY <1>2, <2>2, <3>1
      <4>2. \/ \E k : Saw(e, k)
            \/ \E h \in 1..(i - 1) : \E k : Carries(c, h, n, k)
        BY <3>1, <4>1 DEF Between, InfoAfter
      <4>3. \A h \in 1..(i - 1) : h \in 1..Len(c.sq)
        BY <1>0, <3>1
      <4> QED BY <1>2, <2>2, <4>2, <4>3
    <3>2. CASE i = l
      BY <2>1, <2>2, <3>2
    <3>3. CASE l \in 1..(i - 1)
      <4>1. Carries(d, l, n, j)
        BY <2>2
      <4> QED BY <3>3, <4>1
    <3> QED BY <2>3, <3>1, <3>2, <3>3
  <2> QED BY <2>5, <2>6, <2>7 DEF Between
<1>4. CASE /\ Told(c, d) /\ \A k : Saw(d, k) <=> Saw(c, k)
           /\ \E k : Saw(c, k)
  <2>1. Longer(c, d) /\ \A i \in (Len(c.sq) + 1)..Len(d.sq) : IsOwnInfo(d.sq[i].p)
    BY <1>4 DEF Told
  <2>2. \A i \in 1..Len(d.sq) : \/ i \in 1..Len(c.sq)
                                \/ /\ i \in (Len(c.sq) + 1)..Len(d.sq)
                                   /\ \A h \in 1..Len(c.sq) : h \in 1..(i - 1)
    BY <1>0
  <2>3. \A i \in 1..Len(c.sq) : \A h \in 1..(i - 1) : h \in 1..Len(c.sq)
    BY <1>0
  <2>4. Forwarded(d, e, n)
    BY <1>2, <1>4, <2>1 DEF Between, Forwarded
  <2>5. Ordered(d, e, n, K)
    <3> SUFFICES ASSUME NEW i \in 1..Len(d.sq), NEW q \in K, NEW k \in K,
                        Carries(d, i, n, q), k < q
                 PROVE  Saw(e, k) \/ \E h \in 1..(i - 1) : Carries(d, h, n, k)
      BY DEF Ordered
    <3>1. i \in 1..Len(c.sq) /\ Carries(c, i, n, q)
      BY <1>2, <2>1, <2>2, OwnInfoIsNot
    <3>2. Saw(e, k) \/ \E h \in 1..(i - 1) : Carries(c, h, n, k)
      BY <3>1 DEF Between, Ordered
    <3> QED BY <1>2, <2>1, <2>3, <3>1, <3>2
  <2>6. InfoAfter(d, e, n)
    <3> SUFFICES ASSUME NEW i \in 1..Len(d.sq),
                        n \in d.sq[i].unacked_ns, d.sq[i].p.type = "NODE_INFO"
                 PROVE  \/ \E k : Saw(e, k)
                        \/ \E h \in 1..(i - 1) : \E k : Carries(d, h, n, k)
      BY DEF InfoAfter
    <3>1. CASE i \in 1..Len(c.sq)
      <4>1. n \in c.sq[i].unacked_ns /\ c.sq[i].p.type = "NODE_INFO"
        BY <1>2, <2>1, <3>1
      <4>2. \/ \E k : Saw(e, k)
            \/ \E h \in 1..(i - 1) : \E k : Carries(c, h, n, k)
        BY <3>1, <4>1 DEF Between, InfoAfter
      <4> QED BY <1>2, <2>1, <2>3, <3>1, <4>2
    <3>2. CASE \A h \in 1..Len(c.sq) : h \in 1..(i - 1)
      <4>1. PICK k : Saw(c, k)
        BY <1>4
      <4>2. Saw(e, k) \/ \E h \in 1..Len(c.sq) : Carries(c, h, n, k)
        BY <4>1 DEF Between, Forwarded
      <4> QED BY <1>2, <2>1, <3>2, <4>2
    <3> QED BY <2>2, <3>1, <3>2
  <2> QED BY <2>4, <2>5, <2>6 DEF Between
<1> QED BY <1>1, <1>3, <1>4 DEF Grown

\* The first place waits for n no more, or is gone: n has got what it held.
LEMMA SenderShifts ==
  ASSUME NEW c \in NodeProperties, NEW d \in NodeProperties, NEW e, NEW n,
         NEW K \in SUBSET Nat, NEW s \in {0, 1}, Between(c, e, n, K),
         \A k : Saw(d, k) <=> Saw(c, k),
         Len(d.sq) = Len(c.sq) - s,
         \A i \in 1..Len(d.sq) :
           /\ d.sq[i].p = c.sq[i + s].p
           /\ n \in d.sq[i].unacked_ns => n \in c.sq[i + s].unacked_ns
           /\ i + s # 1 /\ n \in c.sq[i + s].unacked_ns => n \in d.sq[i].unacked_ns,
         n \in c.sq[1].unacked_ns =>
           \/ s = 0 /\ n \in d.sq[1].unacked_ns
           \/ \A k : c.sq[1].p.key = <<Sink, k>> => Saw(e, k)
  PROVE  Between(d, e, n, K)
<1>0. Len(c.sq) \in Nat /\ Len(d.sq) \in Nat
  BY LenProperties DEF NodeProperties
<1>1. ASSUME NEW i \in 1..Len(d.sq)
      PROVE  i + s \in 1..Len(c.sq) /\ \A k : Carries(d, i, n, k) => Carries(c, i + s, n, k)
  BY <1>0 DEF Carries
<1>2. ASSUME NEW h \in 1..Len(c.sq), NEW k, Carries(c, h, n, k)
      PROVE  Saw(e, k) \/ (h - s \in 1..Len(d.sq) /\ Carries(d, h - s, n, k))
  <2>1. CASE h = 1
    <3>1. CASE \A q : c.sq[1].p.key = <<Sink, q>> => Saw(e, q)
      BY <1>2, <2>1, <3>1 DEF Carries
    <3>2. CASE s = 0 /\ n \in d.sq[1].unacked_ns
      <4>1. 1 \in 1..Len(d.sq) /\ 1 + s = 1 /\ h - s = 1
        BY <1>0, <2>1, <3>2
      <4>2. Carries(d, 1, n, k)
        BY <1>2, <2>1, <3>2, <4>1 DEF Carries
      <4> QED BY <4>1, <4>2
    <3> QED BY <1>2, <2>1, <3>1, <3>2 DEF Carries
  <2>2. CASE h # 1
    <3>1. h - s \in 1..Len(d.sq) /\ (h - s) + s = h
      BY <1>0, <2>2
    <3>2. Carries(d, h - s, n, k)
      BY <1>2, <2>2, <3>1 DEF Carries
    <3> QED BY <3>1, <3>2
  <2> QED BY <2>1, <2>2
<1>3. ASSUME NEW i \in 1..Len(d.sq), NEW h \in 1..(i + s - 1), NEW k, Carries(c, h, n, k)
      PROVE  Saw(e, k) \/ \E g \in 1..(i - 1) : Carries(d, g, n, k)
  <2>1. h \in 1..Len(c.sq)
    BY <1>0
  <2>2. h - s \in 1..Len(d.sq) => h - s \in 1..(i - 1)
    BY <1>0
  <2> QED BY <1>2, <1>3, <2>1, <2>2
<1>4. Forwarded(d, e, n)
  <2> SUFFICES ASSUME NEW k, Saw(d, k)
               PROVE  Saw(e, k) \/ \E i \in 1..Len(d.sq) : Carries(d, i, n, k)
    BY DEF Forwarded
  <2>1. Saw(e, k) \/ \E i \in 1..Len(c.sq) : Carries(c, i, n, k)
    BY DEF Between, Forwarded
  <2> QED BY <1>2, <2>1
<1>5. Ordered(d, e, n, K)
  <2> SUFFICES ASSUME NEW i \in 1..Len(d.sq), NEW q \in K, NEW k \in K,
                      Carries(d, i, n, q), k < q
               PROVE  Saw(e, k) \/ \E h \in 1..(i - 1) : Carries(d, h, n, k)
    BY DEF Ordered
  <2>1. i + s \in 1..Len(c.sq) /\ Carries(c, i + s, n, q)
    BY <1>1
  <2>2. Saw(e, k) \/ \E h \in 1..(i + s - 1) : Carries(c, h, n, k)
    BY <2>1 DEF Between, Ordered
  <2> QED BY <1>3, <2>2
<1>6. InfoAfter(d, e, n)
  <2> SUFFICES ASSUME NEW i \in 1..Len(d.sq),
                      n \in d.sq[i].unacked_ns, d.sq[i].p.type = "NODE_INFO"
               PROVE  \/ \E k : Saw(e, k)
                      \/ \E h \in 1..(i - 1) : \E k : Carries(d, h, n, k)
    BY DEF InfoAfter
  <2>1. /\ i + s \in 1..Len(c.sq)
        /\ n \in c.sq[i + s].unacked_ns /\ c.sq[i + s].p.type = "NODE_INFO"
    BY <1>1
  <2>2. \/ \E k : Saw(e, k)
        \/ \E h \in 1..(i + s - 1) : \E k : Carries(c, h, n, k)
    BY <2>1 DEF Between, InfoAfter
  <2> QED BY <1>3, <2>2
<1> QED BY <1>4, <1>5, <1>6 DEF Between

\* An acknowledgement of node x.
LEMMA AcknowledgedBetween ==
  ASSUME NEW c \in NodeProperties, NEW d \in NodeProperties, NEW e, NEW n, NEW x,
         NEW K \in SUBSET Nat, NEW s \in {0, 1}, Between(c, e, n, K),
         QueueOnly(c, d), 1 \in 1..Len(c.sq), Shifted(c.sq, d.sq, x, s),
         n = x => \A k : c.sq[1].p.key = <<Sink, k>> => Saw(e, k)
  PROVE  Between(d, e, n, K)
<1>1. /\ \A k : Saw(d, k) <=> Saw(c, k)
      /\ Len(d.sq) = Len(c.sq) - s
  BY DEF QueueOnly, Saw, Shifted
<1>2. \A i \in 1..Len(d.sq) :
        /\ d.sq[i].p = c.sq[i + s].p
        /\ n \in d.sq[i].unacked_ns => n \in c.sq[i + s].unacked_ns
        /\ i + s # 1 /\ n \in c.sq[i + s].unacked_ns => n \in d.sq[i].unacked_ns
  BY DEF Shifted
<1>3. n \in c.sq[1].unacked_ns =>
        \/ s = 0 /\ n \in d.sq[1].unacked_ns
        \/ \A k : c.sq[1].p.key = <<Sink, k>> => Saw(e, k)
  <2>1. CASE n = x
    BY <2>1
  <2>2. CASE n # x /\ s = 0
    <3>0. Len(c.sq) \in Nat
      BY LenProperties DEF NodeProperties
    <3>1. 1 \in 1..Len(d.sq) /\ 1 + s = 1
      BY <1>1, <2>2, <3>0
    <3> QED BY <2>2, <3>1 DEF Shifted
  <2>3. CASE n # x /\ s = 1
    BY <2>3 DEF Shifted
  <2> QED BY <2>1, <2>2, <2>3
<1> QED BY <1>1, <1>2, <1>3, SenderShifts

\* A packet given up that does not wait for n.
LEMMA GivenUpBetween ==
  ASSUME NEW c \in NodeProperties, NEW d \in NodeProperties, NEW e, NEW n,
         NEW K \in SUBSET Nat, Between(c, e, n, K),
         QueueOnly(c, d), c.sq # << >>, d.sq = Tail(c.sq), n \notin Head(c.sq).unacked_ns
  PROVE  Between(d, e, n, K)
<1>1. \A k : Saw(d, k) <=> Saw(c, k)
  BY DEF QueueOnly, Saw
<1>2. c.sq \in Seq(QueuedPacket)
  BY DEF NodeProperties
<1>3. /\ Len(d.sq) = Len(c.sq) - 1 /\ Head(c.sq) = c.sq[1]
      /\ \A i \in 1..Len(d.sq) : d.sq[i] = c.sq[i + 1]
  BY <1>2, HeadTailProperties
<1>4. n \notin c.sq[1].unacked_ns
  BY <1>3
<1>5. \A i \in 1..Len(d.sq) :
        /\ d.sq[i].p = c.sq[i + 1].p
        /\ n \in d.sq[i].unacked_ns => n \in c.sq[i + 1].unacked_ns
        /\ i + 1 # 1 /\ n \in c.sq[i + 1].unacked_ns => n \in d.sq[i].unacked_ns
  BY <1>3
<1>6. PICK s \in {0, 1} : s = 1
  OBVIOUS
<1> QED
  <2>1. /\ Len(d.sq) = Len(c.sq) - s
        /\ \A i \in 1..Len(d.sq) :
             /\ d.sq[i].p = c.sq[i + s].p
             /\ n \in d.sq[i].unacked_ns => n \in c.sq[i + s].unacked_ns
             /\ i + s # 1 /\ n \in c.sq[i + s].unacked_ns => n \in d.sq[i].unacked_ns
    BY <1>3, <1>5, <1>6
  <2> QED BY <1>1, <1>4, <2>1, SenderShifts

-----------------------------------------------------------------------------
(* A packet that comes in its turn.                                        *)

\* A command comes after those sent before it, and node information after some.
InTurn(c, p, K) ==
  /\ p.type = "NODE_INFO" => \E k : Saw(c, k)
  /\ p.type # "NODE_INFO" => \A j, k \in K : p.key = <<Sink, j>> /\ k < j => Saw(c, k)

\* A node that comes to the last command of C it has seen does not come to another
\* before it has seen one of D.
LEMMA NoneTwice ==
  ASSUME NEW C \in SUBSET Nat, NEW D \in SUBSET Nat, NEW c, NEW j \in C,
         \A i \in C : i < j => \E r \in D : i < r /\ r < j,
         SeenInOrder(c, C \cup D), LastIs(c, C, D), ~Saw(c, j)
  PROVE  ~(\A k \in C \cup D : k < j => Saw(c, k))
<1> SUFFICES ASSUME \A k \in C \cup D : k < j => Saw(c, k) PROVE FALSE
  OBVIOUS
<1>1. PICK i \in C : Saw(c, i) /\ \A r \in D : Saw(c, r) => r < i
  BY DEF LastIs
<1>2. i < j
  <2>1. ~(j < i)
    BY <1>1 DEF SeenInOrder
  <2>2. i # j
    BY <1>1
  <2> QED BY <2>1, <2>2
<1>3. PICK r \in D : i < r /\ r < j
  BY <1>2
<1>4. Saw(c, r)
  BY <1>3
<1>5. r < i
  BY <1>1, <1>4
<1> QED BY <1>3, <1>5

\* The command a node comes to is the last it has seen.
LEMMA LastSeen ==
  ASSUME NEW C \in SUBSET Nat, NEW D \in SUBSET Nat, NEW c, NEW d, NEW j \in C, C \cap D = {},
         SeenInOrder(c, C \cup D), ~Saw(c, j), \A k \in C \cup D : k < j => Saw(c, k),
         \A k : Saw(d, k) <=> Saw(c, k) \/ k = j
  PROVE  SeenInOrder(d, C \cup D) /\ LastIs(d, C, D)
<1>1. SeenInOrder(d, C \cup D)
  BY DEF SeenInOrder
<1>2. ASSUME NEW r \in D, Saw(d, r) PROVE r < j
  <2>1. r # j /\ Saw(c, r)
    BY <1>2
  <2>2. ~(j < r)
    BY <2>1 DEF SeenInOrder
  <2> QED BY <2>1, <2>2
<1>3. Saw(d, j)
  OBVIOUS
<1> QED BY <1>1, <1>2, <1>3 DEF LastIs

LEMMA PassedOnQueue ==
  ASSUME NEW c \in NodeProperties, NEW d \in NodeProperties, NEW p \in Packet, NEW I, NEW R,
         QueueGood(c, I, R), FromHistory(p, I, R), p.type # "NODE_INFO", d.ns = c.ns,
         PassedOn(c, d, p), SeesToo(c, d, p)
  PROVE  QueueGood(d, I, R)
<1>0. Len(c.sq) \in Nat /\ Len(d.sq) \in Nat
  BY LenProperties DEF NodeProperties
<1>1. ASSUME NEW k, Saw(d, k) PROVE k \in I \cup R
  <2>1. Saw(c, k) \/ p.key = <<Sink, k>>
    BY <1>1 DEF SeesToo, Saw
  <2>2. p.key = <<Sink, k>> => k \in I \cup R
    BY DEF FromHistory, Packet
  <2> QED BY <2>1, <2>2 DEF QueueGood
<1>2. ASSUME NEW i \in 1..Len(d.sq)
      PROVE  FromHistory(d.sq[i].p, I, R) /\ d.sq[i].unacked_ns \subseteq d.ns
  <2>1. CASE i \in 1..Len(c.sq)
    BY <2>1 DEF QueueGood, PassedOn, Longer
  <2>2. CASE i = Len(c.sq) + 1
    <3>1. i \in (Len(c.sq) + 1)..Len(d.sq)
      BY <1>0, <2>2
    <3> QED BY <2>2, <3>1 DEF PassedOn, Longer
  <2>3. CASE i \in (Len(c.sq) + 2)..Len(d.sq)
    <3>1. i \in (Len(c.sq) + 1)..Len(d.sq)
      BY <1>0, <2>3
    <3>2. d.sq[i].unacked_ns = c.ns /\ IsOwnInfo(d.sq[i].p)
      BY <2>3, <3>1 DEF PassedOn, Longer
    <3> QED BY <3>2 DEF IsOwnInfo, FromHistory
  <2> QED BY <1>0, <2>1, <2>2, <2>3
<1> QED BY <1>1, <1>2 DEF QueueGood

LEMMA ToldQueue ==
  ASSUME NEW c \in NodeProperties, NEW d \in NodeProperties, NEW I, NEW R,
         QueueGood(c, I, R), d.ns = c.ns, Told(c, d), \A k : Saw(d, k) => Saw(c, k)
  PROVE  QueueGood(d, I, R)
<1>0. Len(c.sq) \in Nat /\ Len(d.sq) \in Nat
  BY LenProperties DEF NodeProperties
<1>1. \A k : Saw(d, k) => k \in I \cup R
  BY DEF QueueGood
<1>2. ASSUME NEW i \in 1..Len(d.sq)
      PROVE  FromHistory(d.sq[i].p, I, R) /\ d.sq[i].unacked_ns \subseteq d.ns
  <2>1. CASE i \in 1..Len(c.sq)
    BY <2>1 DEF QueueGood, Told, Longer
  <2>2. CASE i \in (Len(c.sq) + 1)..Len(d.sq)
    <3>1. d.sq[i].unacked_ns = c.ns /\ IsOwnInfo(d.sq[i].p)
      BY <2>2 DEF Told, Longer
    <3> QED BY <3>1 DEF IsOwnInfo, FromHistory
  <2> QED BY <1>0, <2>1, <2>2
<1> QED BY <1>1, <1>2 DEF QueueGood

\* Node n may get packet p now.
Ready(c, n, p, I, R) ==
  /\ SetUp(c, n) /\ QueueGood(c, I, R) /\ FromHistory(p, I, R) /\ c.stopped = "no"
  /\ c.is_exit_node /\ c.has_sent_node_info =>
       /\ ~c.is_reset_mode
       /\ c.ns = {} => p.type # "INITIALIZE_BEST_PATHS"
       /\ c.ns # {} => LastIs(c, I, R)
  /\ c.ns = {} => p.key \notin c.seen /\ p.type # "NODE_INFO"
  /\ c.ns # {} => NodeGood(c, I, R) /\ InTurn(c, p, I \cup R)

\* It got packet p.
Got(c, d, p, I, R) ==
  /\ d \in NodeProperties /\ d.stopped = "no" /\ d.ns = c.ns
  /\ d.is_exit_node = c.is_exit_node
  /\ QueueGood(d, I, R)
  /\ d.is_exit_node /\ d.has_sent_node_info =>
       /\ ~d.is_reset_mode
       /\ d.ns = {} => p.type = "INITIALIZE_BEST_PATHS"
       /\ d.ns # {} => LastIs(d, I, R)
  /\ d.ns # {} => /\ NodeGood(d, I, R) /\ Grown(c, d, I \cup R)
                  /\ \A k : Saw(d, k) <=> Saw(c, k) \/ p.key = <<Sink, k>>

\* It had seen the packet, or is reset and ignores it.
LEMMA ReceiptIgnored ==
  ASSUME NEW n \in Node, NEW c \in NodeProperties, NEW p \in Packet,
         NEW I \in SUBSET Nat, NEW R \in SUBSET Nat, Alternate(I, R), Ready(c, n, p, I, R),
         NEW d \in NodeProperties,
         \/ p.key \in c.seen /\ d = c
         \/ /\ p.key \notin c.seen /\ c.is_reset_mode /\ p.type # "INITIALIZE_BEST_PATHS"
            /\ d.ns = c.ns /\ d.is_exit_node = c.is_exit_node
            /\ d.is_reset_mode /\ d.stopped = c.stopped
            /\ d.has_sent_node_info = c.has_sent_node_info
            /\ d.sq = c.sq /\ SeesToo(c, d, p)
  PROVE  Got(c, d, p, I, R)
<1>1. CASE p.key \in c.seen /\ d = c
  <2>1. c.ns # {} /\ \A k : p.key = <<Sink, k>> => Saw(c, k)
    BY <1>1 DEF Ready, Saw
  <2>2. Grown(c, c, I \cup R)
    BY DEF Grown
  <2> QED BY <1>1, <2>1, <2>2 DEF Got, Ready
<1>2. CASE /\ p.key \notin c.seen /\ c.is_reset_mode /\ p.type # "INITIALIZE_BEST_PATHS"
           /\ d.ns = c.ns /\ d.is_exit_node = c.is_exit_node
           /\ d.is_reset_mode /\ d.stopped = c.stopped
           /\ d.has_sent_node_info = c.has_sent_node_info
           /\ d.sq = c.sq /\ SeesToo(c, d, p)
  <2>1. p.type = "NODE_INFO" \/ p.type = "RESET_SYSTEM"
    BY <1>2 DEF Packet
  <2>2. \A k : Saw(d, k) <=> Saw(c, k) \/ p.key = <<Sink, k>>
    BY <1>2 DEF SeesToo, Saw
  <2>3. \A k : p.key = <<Sink, k>> => k \in I \cup R
    BY <1>2, <2>1 DEF Ready, FromHistory
  <2>4. QueueGood(d, I, R)
    BY <1>2, <2>2, <2>3 DEF Ready, QueueGood
  <2>5. c.ns # {} => p.type = "NODE_INFO"
    <3> SUFFICES ASSUME c.ns # {}, p.type = "RESET_SYSTEM" PROVE FALSE
      BY <2>1
    <3>1. PICK j \in R : p.key = <<Sink, j>>
      BY DEF Ready, FromHistory
    <3>2. /\ SeenInOrder(c, R \cup I) /\ LastIs(c, R, I) /\ ~Saw(c, j)
          /\ \A k \in R \cup I : k < j => Saw(c, k)
      <4>1. R \cup I = I \cup R
        OBVIOUS
      <4>2. NodeGood(c, I, R) /\ InTurn(c, p, I \cup R)
        BY DEF Ready
      <4> QED BY <1>2, <3>1, <4>1, <4>2 DEF NodeGood, InTurn, Saw
    <3>3. \A i \in R : i < j => \E r \in I : i < r /\ r < j
      BY DEF Alternate
    <3> QED BY <3>2, <3>3, NoneTwice
  <2>6. ASSUME c.ns # {}
        PROVE  /\ NodeGood(d, I, R) /\ Grown(c, d, I \cup R)
    <3>1. \A k : Saw(d, k) <=> Saw(c, k)
      BY <2>2, <2>5, <2>6 DEF Ready, FromHistory
    <3>2. NodeGood(c, I, R)
      BY <2>6 DEF Ready
    <3>3. NodeGood(d, I, R)
      BY <1>2, <3>1, <3>2 DEF NodeGood, SeenInOrder, LastIs
    <3>4. Grown(c, d, I \cup R)
      BY <1>2, <3>1 DEF Grown
    <3> QED BY <3>3, <3>4
  <2> QED BY <1>2, <2>2, <2>4, <2>6 DEF Got, Ready
<1> QED BY <1>1, <1>2

\* Node information, by which a node may tell its own.
LEMMA ReceiptOfInfo ==
  ASSUME NEW n \in Node, NEW c \in NodeProperties, NEW p \in Packet,
         NEW I \in SUBSET Nat, NEW R \in SUBSET Nat, Ready(c, n, p, I, R),
         NEW d \in NodeProperties,
         ~c.is_reset_mode, p.type = "NODE_INFO",
         d.ns = c.ns, d.is_exit_node = c.is_exit_node,
         d.is_reset_mode = c.is_reset_mode, d.stopped = c.stopped,
         c.ns # {} => Told(c, d) /\ SeesToo(c, d, p)
  PROVE  Got(c, d, p, I, R)
<1>1. c.ns # {}
  BY DEF Ready
<1>2. /\ NodeGood(c, I, R) /\ \E k : Saw(c, k)
      /\ \A k : p.key # <<Sink, k>>
  BY <1>1 DEF Ready, InTurn, FromHistory
<1>3. \A k : Saw(d, k) <=> Saw(c, k)
  BY <1>1, <1>2 DEF SeesToo, Saw
<1>4. QueueGood(d, I, R)
  BY <1>1, <1>3, ToldQueue DEF Ready
<1>5. Grown(c, d, I \cup R)
  BY <1>1, <1>2, <1>3 DEF Grown
<1>6. NodeGood(d, I, R) /\ LastIs(d, I, R)
  <2>1. LastIs(c, I, R)
    BY <1>2 DEF NodeGood
  <2> QED BY <1>2, <1>3, <2>1 DEF NodeGood, SeenInOrder, LastIs
<1> QED BY <1>1, <1>2, <1>3, <1>4, <1>5, <1>6 DEF Got, Ready

\* A command that is passed on.
LEMMA ReceiptPassedOn ==
  ASSUME NEW n \in Node, NEW c \in NodeProperties, NEW p \in Packet,
         NEW I \in SUBSET Nat, NEW R \in SUBSET Nat, Alternate(I, R), Ready(c, n, p, I, R),
         NEW d \in NodeProperties, p.type # "NODE_INFO", p.key \notin c.seen,
         d.ns = c.ns, FloodedOn(c, d, p)
  PROVE  /\ QueueGood(d, I, R)
         /\ c.ns # {} =>
              /\ \A k : Saw(d, k) <=> Saw(c, k) \/ p.key = <<Sink, k>>
              /\ SeenInOrder(d, I \cup R) /\ Grown(c, d, I \cup R)
              /\ p.type = "INITIALIZE_BEST_PATHS" =>
                   LastIs(d, I, R) /\ ~(c.is_exit_node /\ c.has_sent_node_info)
              /\ p.type = "RESET_SYSTEM" => LastIs(d, R, I)
<1>1. CASE c.ns = {}
  BY <1>1 DEF FloodedOn, Ready, QueueGood, Saw
<1>2. CASE c.ns # {}
  <2>1. PassedOn(c, d, p) /\ SeesToo(c, d, p)
    BY <1>2 DEF FloodedOn
  <2>2. QueueGood(d, I, R)
    BY <2>1, PassedOnQueue DEF Ready
  <2>3. PICK j \in I \cup R : p.key = <<Sink, j>>
    BY DEF Ready, FromHistory, Packet
  <2>4. /\ p.type = "INITIALIZE_BEST_PATHS" => j \in I
        /\ p.type = "RESET_SYSTEM" => j \in R
    BY <2>3 DEF Ready, FromHistory
  <2>5. \A k : Saw(d, k) <=> Saw(c, k) \/ k = j
    BY <2>1, <2>3 DEF SeesToo, Saw
  <2>6. ~Saw(c, j)
    BY <2>3 DEF Saw
  <2>7. SeenInOrder(c, I \cup R) /\ \A k \in I \cup R : k < j => Saw(c, k)
    BY <1>2, <2>3 DEF Ready, NodeGood, InTurn
  <2>8. R \cup I = I \cup R
    OBVIOUS
  <2>9. CASE p.type = "INITIALIZE_BEST_PATHS"
    <3>1. SeenInOrder(d, I \cup R) /\ LastIs(d, I, R)
      BY <2>4, <2>5, <2>6, <2>7, <2>9, LastSeen DEF Alternate
    <3>2. ~LastIs(c, I, R)
      <4>1. \A i \in I : i < j => \E r \in R : i < r /\ r < j
        BY <2>4, <2>9 DEF Alternate
      <4> QED BY <2>4, <2>6, <2>7, <2>9, <4>1, NoneTwice
    <3>3. ~(c.is_exit_node /\ c.has_sent_node_info)
      BY <1>2, <3>2 DEF Ready
    <3>4. Grown(c, d, I \cup R)
      BY <2>1, <2>3, <2>7 DEF Grown
    <3> QED BY <2>2, <2>3, <2>5, <2>9, <3>1, <3>3, <3>4
  <2>10. CASE p.type = "RESET_SYSTEM"
    <3>1. SeenInOrder(d, R \cup I) /\ LastIs(d, R, I)
      <4>1. R \cap I = {}
        BY DEF Alternate
      <4> QED BY <2>4, <2>5, <2>6, <2>7, <2>8, <2>10, <4>1, LastSeen
    <3>2. Grown(c, d, I \cup R)
      BY <2>1, <2>3, <2>7 DEF Grown
    <3> QED BY <2>2, <2>3, <2>5, <2>8, <2>10, <3>1, <3>2
  <2> QED BY <2>9, <2>10 DEF Packet
<1> QED BY <1>1, <1>2

LEMMA ReceiptOfInitialize ==
  ASSUME NEW n \in Node, NEW c \in NodeProperties, NEW p \in Packet,
         NEW I \in SUBSET Nat, NEW R \in SUBSET Nat, Alternate(I, R), Ready(c, n, p, I, R),
         NEW d \in NodeProperties, p.type = "INITIALIZE_BEST_PATHS", p.key \notin c.seen,
         d.ns = c.ns, d.is_exit_node = c.is_exit_node, ~d.is_reset_mode,
         ~(c.is_exit_node /\ c.has_sent_node_info) => d.stopped = c.stopped,
         FloodedOn(c, d, p)
  PROVE  Got(c, d, p, I, R)
<1>1. /\ QueueGood(d, I, R)
      /\ c.ns # {} =>
           /\ \A k : Saw(d, k) <=> Saw(c, k) \/ p.key = <<Sink, k>>
           /\ SeenInOrder(d, I \cup R) /\ Grown(c, d, I \cup R)
           /\ LastIs(d, I, R) /\ ~(c.is_exit_node /\ c.has_sent_node_info)
  <2>1. p.type # "NODE_INFO"
    OBVIOUS
  <2> QED BY <2>1, ReceiptPassedOn
<1>2. d.stopped = "no"
  BY <1>1 DEF Ready
<1>3. c.ns # {} => NodeGood(d, I, R)
  BY <1>1 DEF NodeGood
<1> QED BY <1>1, <1>2, <1>3 DEF Got

LEMMA ReceiptOfReset ==
  ASSUME NEW n \in Node, NEW c \in NodeProperties, NEW p \in Packet,
         NEW I \in SUBSET Nat, NEW R \in SUBSET Nat, Alternate(I, R), Ready(c, n, p, I, R),
         NEW d \in NodeProperties, p.type = "RESET_SYSTEM", p.key \notin c.seen,
         flash[n] \in {"blank", "torn", "whole"},
         d.is_reset_mode, d.stopped = c.stopped,
         flash[n] = "blank" =>
           /\ d.ns = c.ns /\ d.is_exit_node = c.is_exit_node
           /\ d.has_sent_node_info = c.has_sent_node_info,
         flash[n] # "blank" =>
           /\ d.ns = IF flash[n] = "whole" THEN Table[n] ELSE {}
           /\ d.is_exit_node <=> flash[n] = "whole" /\ n \in Exits
           /\ ~d.has_sent_node_info,
         FloodedOn(c, d, p)
  PROVE  Got(c, d, p, I, R)
<1>0. /\ SetUp(c, n) /\ (flash[n] = "blank" \/ flash[n] = "whole")
      /\ c.is_exit_node \in BOOLEAN /\ d.is_exit_node \in BOOLEAN
  BY DEF Ready, SetUp, NodeProperties
<1>1. /\ d.ns = c.ns /\ d.is_exit_node = c.is_exit_node
      /\ ~(d.is_exit_node /\ d.has_sent_node_info)
  <2>1. CASE flash[n] = "blank"
    BY <1>0, <2>1 DEF SetUp
  <2>2. CASE flash[n] = "whole"
    <3>1. /\ c.ns = Table[n] /\ d.ns = Table[n] /\ ~d.has_sent_node_info
          /\ c.is_exit_node <=> n \in Exits
          /\ d.is_exit_node <=> n \in Exits
      BY <1>0, <2>2 DEF SetUp
    <3> QED BY <1>0, <3>1
  <2> QED BY <1>0, <2>1, <2>2
<1>2. /\ QueueGood(d, I, R)
      /\ c.ns # {} =>
           /\ \A k : Saw(d, k) <=> Saw(c, k) \/ p.key = <<Sink, k>>
           /\ SeenInOrder(d, I \cup R) /\ Grown(c, d, I \cup R)
           /\ LastIs(d, R, I)
  BY <1>1, ReceiptPassedOn
<1>3. c.ns # {} => NodeGood(d, I, R)
  BY <1>2 DEF NodeGood
<1> QED BY <1>1, <1>2, <1>3 DEF Got, Ready

LEMMA Receipt ==
  ASSUME NEW n \in Node, NEW m \in Node \cup {Sink}, NEW c \in NodeProperties, NEW p \in Packet,
         p.type = "NODE_INFO" => m \in Node,
         flash[n] \in {"blank", "torn", "whole"},
         NEW I \in SUBSET Nat, NEW R \in SUBSET Nat, Alternate(I, R), Ready(c, n, p, I, R),
         NEW d, d = Received(c, n, m, p)
  PROVE  Got(c, d, p, I, R)
<1>1. d \in NodeProperties
  BY ReceivedEffect
<1>2. CASE p.key \in c.seen
  <2>1. d = c
    BY <1>2, ReceivedEffect
  <2> QED BY <1>1, <1>2, <2>1, ReceiptIgnored
<1>3. CASE p.key \notin c.seen /\ c.is_reset_mode /\ p.type # "INITIALIZE_BEST_PATHS"
  <2>1. /\ d.ns = c.ns /\ d.is_exit_node = c.is_exit_node
        /\ d.is_reset_mode /\ d.stopped = c.stopped
        /\ d.has_sent_node_info = c.has_sent_node_info
        /\ d.sq = c.sq /\ SeesToo(c, d, p)
    BY <1>3, IgnoredEffect
  <2> QED BY <1>1, <1>3, <2>1, ReceiptIgnored
<1>4. CASE p.key \notin c.seen /\ ~c.is_reset_mode /\ p.type = "NODE_INFO"
  <2>1. /\ d.ns = c.ns /\ d.is_exit_node = c.is_exit_node
        /\ d.is_reset_mode = c.is_reset_mode /\ d.stopped = c.stopped
        /\ c.ns # {} => Told(c, d) /\ SeesToo(c, d, p)
    BY <1>4, ReceivedEffect
  <2> QED BY <1>1, <1>4, <2>1, ReceiptOfInfo
<1>5. CASE p.key \notin c.seen /\ p.type = "INITIALIZE_BEST_PATHS"
  <2>1. /\ d.ns = c.ns /\ d.is_exit_node = c.is_exit_node
        /\ ~d.is_reset_mode
        /\ ~(c.is_exit_node /\ c.has_sent_node_info) => d.stopped = c.stopped
        /\ FloodedOn(c, d, p)
    BY <1>5, ReceivedEffect
  <2> QED BY <1>1, <1>5, <2>1, ReceiptOfInitialize
<1>6. CASE p.key \notin c.seen /\ ~c.is_reset_mode /\ p.type = "RESET_SYSTEM"
  <2>1. /\ d.is_reset_mode /\ d.stopped = c.stopped
        /\ flash[n] = "blank" =>
             /\ d.ns = c.ns /\ d.is_exit_node = c.is_exit_node
             /\ d.has_sent_node_info = c.has_sent_node_info
        /\ flash[n] # "blank" =>
             /\ d.ns = IF flash[n] = "whole" THEN Table[n] ELSE {}
             /\ d.is_exit_node <=> flash[n] = "whole" /\ n \in Exits
             /\ ~d.has_sent_node_info
        /\ FloodedOn(c, d, p)
    BY <1>6, ReceivedEffect
  <2> QED BY <1>1, <1>6, <2>1, ReceiptOfReset
<1> QED
  <2>1. p.type \in {"INITIALIZE_BEST_PATHS", "RESET_SYSTEM", "NODE_INFO"}
    BY DEF Packet
  <2> QED BY <2>1, <1>2, <1>3, <1>4, <1>5, <1>6

-----------------------------------------------------------------------------
(* Steps that change nothing of what the invariant is about.               *)

LEMMA InertKeepsJ ==
  ASSUME NEW I \in SUBSET Nat, NEW R \in SUBSET Nat, TypeOK, TypeOK', J(I, R),
         \A n \in Node : Inert(np[n], np'[n]), flash' = flash, sink' = sink
  PROVE  J(I, R)'
<1>1. ASSUME NEW n \in Node
      PROVE  /\ np'[n].ns = np[n].ns /\ np'[n].is_exit_node = np[n].is_exit_node
             /\ np'[n].is_reset_mode = np[n].is_reset_mode
             /\ np'[n].has_sent_node_info = np[n].has_sent_node_info
             /\ np'[n].sq = np[n].sq
             /\ np'[n].stopped = np[n].stopped \/ np'[n].stopped = "no path"
             /\ \A k : Saw(np'[n], k) <=> Saw(np[n], k)
  BY DEF Inert, Saw
<1>2. HistoryInv(I, R)' /\ Alternate(I, R)' /\ (Over' <=> Over)
  BY DEF J, HistoryInv, Alternate, Over
<1>3. NodesGood(I, R)'
  <2> SUFFICES ASSUME NEW n \in Node
               PROVE  /\ SetUp(np[n], n)'
                      /\ QueueGood(np[n], I, R)'
                      /\ ExitGood(np[n], n, I, R)'
    BY DEF NodesGood
  <2>0. SetUp(np[n], n) /\ QueueGood(np[n], I, R) /\ ExitGood(np[n], n, I, R)
    BY DEF J, NodesGood
  <2>1. SetUp(np[n], n)'
    BY <1>1, <2>0 DEF SetUp
  <2>2. QueueGood(np[n], I, R)'
    BY <1>1, <2>0 DEF QueueGood, FromHistory
  <2>3. LastIs(np[n], I, R)' <=> LastIs(np[n], I, R)
    BY <1>1 DEF LastIs
  <2>4. ExitGood(np[n], n, I, R)'
    BY <1>1, <2>0, <2>3 DEF ExitGood
  <2> QED BY <2>1, <2>2, <2>4
<1>4. ASSUME NetworkGood(I, R) PROVE NetworkGood(I, R)'
  <2> SUFFICES ASSUME NEW n \in Node, InNetwork(n)'
               PROVE  /\ NodeGood(np[n], I, R)'
                      /\ (n \in SinkRange => \A k \in I \cup R : Saw(np[n], k))'
    BY DEF NetworkGood
  <2>1. InNetwork(n)
    BY <1>1 DEF InNetwork
  <2>2. NodeGood(np[n], I, R) /\ (n \in SinkRange => \A k \in I \cup R : Saw(np[n], k))
    BY <1>4, <2>1 DEF NetworkGood
  <2>3. NodeGood(np[n], I, R)'
    BY <1>1, <2>2 DEF NodeGood, SeenInOrder, LastIs
  <2> QED BY <1>1, <2>2, <2>3
<1>5. ASSUME PairsGood(I, R) PROVE PairsGood(I, R)'
  <2> SUFFICES ASSUME NEW m \in Node, NEW n \in Node, Listens(m, n)'
               PROVE  Between(np[m], np[n], n, I \cup R)'
    BY DEF PairsGood
  <2>1. Listens(m, n)
    BY <1>1 DEF Listens
  <2>2. Between(np[m], np[n], n, I \cup R)
    BY <1>5, <2>1 DEF PairsGood
  <2>3. \A i, k : Carries(np[m], i, n, k)' <=> Carries(np[m], i, n, k)
    BY <1>1 DEF Carries
  <2>4. Forwarded(np[m], np[n], n)'
    BY <1>1, <2>2, <2>3 DEF Between, Forwarded
  <2>5. Ordered(np[m], np[n], n, I \cup R)'
    BY <1>1, <2>2, <2>3 DEF Between, Ordered
  <2>6. InfoAfter(np[m], np[n], n)'
    BY <1>1, <2>2, <2>3 DEF Between, InfoAfter
  <2> QED BY <2>4, <2>5, <2>6 DEF Between
<1>6. Over => \A n \in Node : np'[n].sq = << >>
  BY <1>1 DEF J
<1> QED BY <1>2, <1>3, <1>4, <1>5, <1>6 DEF J

\* At first no command was sent.
LEMMA InitJ == Init => \E I, R \in SUBSET Nat : J(I, R)
<1> SUFFICES ASSUME Init PROVE J({}, {})
  OBVIOUS
<1>1. TypeOK
  BY InitTyped
<1>2. sink.seqno = 0 /\ ~sink.initialized
  BY DEF Init
<1>3. ASSUME NEW n \in Node
      PROVE  /\ SetUp(np[n], n) /\ np[n].sq = << >> /\ np[n].seen = {}
             /\ np[n].stopped = "no" /\ ~np[n].has_sent_node_info /\ ~np[n].is_reset_mode
  <2>1. np[n] = ResetNodeProperties(n) /\ flash[n] \in {"blank", "whole"}
    BY DEF Init
  <2>2. flash[n] \in {"blank", "torn", "whole"}
    BY <2>1
  <2>3. PICK d : d = ResetNodeProperties(n)
    OBVIOUS
  <2>4. /\ d.sq = << >> /\ d.seen = {} /\ d.stopped = "no"
        /\ ~d.is_reset_mode /\ ~d.has_sent_node_info
        /\ d.ns = IF flash[n] = "whole" THEN Table[n] ELSE {}
        /\ d.is_exit_node <=> flash[n] = "whole" /\ n \in Exits
    BY <2>2, <2>3, BootEffect
  <2> QED BY <2>1, <2>3, <2>4 DEF SetUp
<1>4. \A n \in Node : Len(np[n].sq) = 0 /\ \A k : ~Saw(np[n], k)
  BY <1>3, EmptySeq DEF Saw
<1>5. HistoryInv({}, {}) /\ Alternate({}, {})
  BY <1>2 DEF HistoryInv, Alternate
<1>6. NodesGood({}, {})
  <2>1. \A n \in Node : QueueGood(np[n], {}, {})
    BY <1>4 DEF QueueGood
  <2>2. \A n \in Node : ExitGood(np[n], n, {}, {})
    BY <1>3 DEF ExitGood
  <2> QED BY <1>3, <2>1, <2>2 DEF NodesGood
<1>7. NetworkGood({}, {})
  BY <1>3, <1>4 DEF NetworkGood, NodeGood, SeenInOrder
<1>8. PairsGood({}, {})
  BY <1>4 DEF PairsGood, Between, Forwarded, Ordered, InfoAfter
<1> QED BY <1>2, <1>5, <1>6, <1>7, <1>8 DEF J, Over

-----------------------------------------------------------------------------
(* Faults only grow in number, and what excuses a second NODE_INFO stays.  *)

\* The sink loses no frame, or that is a fault.
LEMMA SinkFaults ==
  ASSUME TypeOK, NEW type \in {"INITIALIZE_BEST_PATHS", "RESET_SYSTEM"}, SinkBroadcasts(type)
  PROVE  /\ faults' >= faults
         /\ ~(faults' > 0) =>
              np' = [n \in Node |->
                       IF n \in SinkRange /\ Running(n)
                       THEN Received(np[n], n, Sink, [type |-> type, key |-> <<Sink, sink.seqno>>])
                       ELSE np[n]]
<1> DEFINE p == [type |-> type, key |-> <<Sink, sink.seqno>>]
           hearers == {n \in SinkRange : Running(n)}
<1>1. PICK lost \in SUBSET hearers :
        /\ Faults(Cardinality(lost))
        /\ np' = [n \in Node |-> IF n \in hearers \ lost
                                 THEN Received(np[n], n, Sink, p) ELSE np[n]]
  BY Zenon DEF SinkBroadcasts
<1>2. lost \in SUBSET Node
  BY NodeLifecycleAssumption
<1>3. IsFiniteSet(lost) /\ Cardinality(lost) \in Nat
  BY <1>2, FaultsCount
<1>4. faults \in Nat /\ faults' = faults + Cardinality(lost)
  BY <1>1, NodeLifecycleAssumption DEF TypeOK, Faults
<1>5. ASSUME ~(faults' > 0) PROVE lost = {}
  <2>1. Cardinality(lost) = 0
    BY <1>3, <1>4, <1>5
  <2> QED BY <1>3, <2>1, FS_EmptySet
<1>6. ASSUME ~(faults' > 0)
      PROVE  np' = [n \in Node |-> IF n \in SinkRange /\ Running(n)
                                   THEN Received(np[n], n, Sink, p) ELSE np[n]]
  <2> HIDE DEF p
  <2> QED BY <1>1, <1>5, <1>6
<1> QED BY <1>3, <1>4, <1>6

\* A packet is given up without a fault only if nobody would have taken it.
LEMMA GiveUpFaults ==
  ASSUME TypeOK, NEW m \in Node, GiveUp(m)
  PROVE  /\ faults' >= faults
         /\ ~(faults' > 0) =>
              \A n \in Node : Running(n) /\ m \in np[n].ns => n \notin Head(np[m].sq).unacked_ns
<1> DEFINE S == {n \in Head(np[m].sq).unacked_ns : Running(n) /\ m \in np[n].ns}
<1>1. S \in SUBSET Node
  <2>1. np[m].sq \in Seq(QueuedPacket) /\ np[m].sq # << >>
    BY DEF TypeOK, NodeProperties, GiveUp
  <2>2. Head(np[m].sq) \in QueuedPacket
    BY <2>1
  <2> QED BY <2>2 DEF QueuedPacket
<1>2. Faults(Cardinality(S))
  BY DEF GiveUp
<1> HIDE DEF S
<1>3. IsFiniteSet(S) /\ Cardinality(S) \in Nat
  BY <1>1, FaultsCount
<1>4. faults \in Nat /\ faults' = faults + Cardinality(S)
  BY <1>2, NodeLifecycleAssumption DEF TypeOK, Faults
<1>5. ASSUME ~(faults' > 0) PROVE S = {}
  <2>1. Cardinality(S) = 0
    BY <1>3, <1>4, <1>5
  <2> QED BY <1>3, <2>1, FS_EmptySet
<1> QED BY <1>3, <1>4, <1>5 DEF S

LEMMA FloodFaults ==
  ASSUME TypeOK, NEW n \in Node, SendFlood(n)
  PROVE  faults' >= faults
<1> DEFINE hearers == {m \in Table[n] : Running(m)}
<1>1. PICK lost \in SUBSET hearers : Faults(Cardinality(lost))
  BY Zenon DEF SendFlood
<1>2. lost \in SUBSET Node
  BY NodeLifecycleAssumption
<1>3. Cardinality(lost) \in Nat
  BY <1>2, FaultsCount
<1> QED BY <1>1, <1>3, NodeLifecycleAssumption DEF TypeOK, Faults

LEMMA ExcusedStays ==
  ASSUME TypeOK, [Next]_vars, Excused
  PROVE  Excused'
<1>0. sink \in SinkRecord /\ faults \in Nat /\ faults' \in Nat
  BY NextTyped DEF TypeOK, SinkRecord
<1>1. CASE UNCHANGED <<sink, faults>>
  BY <1>1 DEF Excused
<1>2. CASE sink' = sink /\ faults' >= faults
  BY <1>0, <1>2 DEF Excused
<1>3. CASE SendInitPacket
  <2>1. sink.seqno < MaxCommands /\ faults' >= faults
    BY <1>3, SinkFaults DEF SendInitPacket, SinkBroadcasts
  <2>2. (sink.repeated => sink'.repeated) /\ (sink.hasty => sink'.hasty)
    BY <1>0, <1>3, <2>1, SendInitSink
  <2> QED BY <1>0, <2>1, <2>2 DEF Excused
<1>4. CASE SendResetPacket
  <2>1. sink.seqno < MaxCommands /\ faults' >= faults
    BY <1>4, SinkFaults DEF SendResetPacket, SinkBroadcasts
  <2>2. (sink.repeated => sink'.repeated) /\ (sink.hasty => sink'.hasty)
    BY <1>0, <1>4, <2>1, SendResetSink
  <2> QED BY <1>0, <2>1, <2>2 DEF Excused
<1>5. ASSUME NEW n \in Node, SendSetupPacket(n) PROVE Excused'
  <2>1. sink.seqno < MaxCommands
    BY <1>5 DEF SendSetupPacket
  <2>2. (sink.repeated => sink'.repeated) /\ (sink.hasty => sink'.hasty)
    BY <1>0, <1>5, <2>1, SetupSink
  <2>3. faults' >= faults
    <3>1. Faults(0) \/ Faults(1) \/ Faults(IF np[n].is_reset_mode THEN 0 ELSE 1)
      BY <1>5, Zenon DEF SendSetupPacket
    <3> QED BY <1>0, <3>1 DEF Faults
  <2> QED BY <1>0, <2>2, <2>3 DEF Excused
<1>6. ASSUME NEW n \in Node,
             \/ PushButton(n) \/ GiveUp(n) \/ SenseEmergency(n) \/ SendFlood(n) \/ PowerLoss(n)
             \/ \E m \in Node : Deliver(m, n)
      PROVE  sink' = sink /\ faults' >= faults
  <2>1. CASE PushButton(n)
    BY <1>0, <2>1 DEF PushButton
  <2>2. CASE GiveUp(n)
    BY <2>2, GiveUpFaults DEF GiveUp
  <2>3. CASE SenseEmergency(n)
    BY <1>0, <2>3 DEF SenseEmergency
  <2>4. CASE SendFlood(n)
    BY <2>4, FloodFaults DEF SendFlood
  <2>5. CASE PowerLoss(n)
    BY <1>0, <2>5 DEF PowerLoss, Faults
  <2>6. ASSUME NEW m \in Node, Deliver(m, n) PROVE sink' = sink /\ faults' >= faults
    <3>1. UNCHANGED <<flash, sink, alarms, faults>>
      BY <2>6, Zenon DEF Deliver
    <3> QED BY <1>0, <3>1
  <2> QED BY <1>6, <2>1, <2>2, <2>3, <2>4, <2>5, <2>6
<1>7. CASE UNCHANGED vars
  BY <1>1, <1>7 DEF vars
<1> QED BY <1>2, <1>3, <1>4, <1>5, <1>6, <1>7 DEF Next

-----------------------------------------------------------------------------
(* A node is set up.                                                       *)

LEMMA SetupKeepsJ ==
  ASSUME NEW I \in SUBSET Nat, NEW R \in SUBSET Nat, TypeOK, TypeOK', J(I, R),
         NEW n \in Node, SendSetupPacket(n), ~Excused'
  PROVE  J(I, R)'
<1>0. /\ sink \in SinkRecord /\ sink' \in SinkRecord /\ sink.seqno \in Nat
      /\ sink.seqno < MaxCommands /\ ~sink.owes_init
  BY DEF TypeOK, SinkRecord, SendSetupPacket
<1>1. /\ sink'.seqno = sink.seqno + 1 /\ sink'.owes_init
      /\ sink'.initialized <=> sink.initialized
      /\ \A m \in Node : np[m].sq = << >>
  <2>1. /\ sink'.seqno = sink.seqno + 1 /\ sink'.owes_init
        /\ sink'.initialized = sink.initialized
        /\ sink'.hasty <=> sink.hasty \/ \E m \in Node : np[m].sq # << >>
    BY <1>0, SetupSink
  <2>2. ~sink'.hasty
    BY DEF Excused
  <2> QED BY <2>1, <2>2
<1>2. /\ \A m \in Node : m # n => np'[m] = np[m] /\ flash'[m] = flash[m]
      /\ \/ /\ flash'[n] = "whole" /\ np'[n] = SetupParse(np[n], n, TRUE)
         \/ np' = np /\ flash' = flash
  BY SendSetupPacketEffect DEF Excused
<1>3. np[n] \in NodeProperties /\ SetUp(np[n], n)
  BY DEF TypeOK, J, NodesGood
<1>4. /\ SetUp(np[n], n)'
      /\ np'[n].sq = np[n].sq /\ np'[n].seen = np[n].seen /\ np'[n].stopped = np[n].stopped
      /\ \/ np'[n] = np[n]
         \/ ~np'[n].is_reset_mode /\ ~np'[n].has_sent_node_info
  <2>1. CASE flash'[n] = "whole" /\ np'[n] = SetupParse(np[n], n, TRUE)
    <3>1. PICK whole \in BOOLEAN : whole = TRUE
      BY Zenon
    <3>2. PICK c, d : c = np[n] /\ d = np'[n]
      OBVIOUS
    <3>3. c \in NodeProperties /\ d = SetupParse(c, n, whole)
      BY <1>3, <2>1, <3>1, <3>2
    <3>4. /\ d.ns = IF whole THEN Table[n] ELSE {}
          /\ d.is_exit_node <=> whole /\ n \in Exits
          /\ ~d.is_reset_mode /\ ~d.has_sent_node_info
          /\ d.sq = c.sq /\ d.seen = c.seen /\ d.stopped = c.stopped
      BY <3>3, SetupParseEffect
    <3>5. d.ns = Table[n] /\ (d.is_exit_node <=> n \in Exits)
      BY <3>1, <3>4
    <3>6. SetUp(np[n], n)'
      BY <2>1, <3>2, <3>5 DEF SetUp
    <3> QED BY <3>2, <3>4, <3>6
  <2>2. CASE np' = np /\ flash' = flash
    BY <1>3, <2>2 DEF SetUp
  <2> QED BY <1>2, <2>1, <2>2
<1>5. ASSUME NEW m \in Node
      PROVE  /\ SetUp(np[m], m)' /\ np'[m].sq = << >> /\ Len(np'[m].sq) = 0
             /\ np'[m].stopped = np[m].stopped /\ \A k : Saw(np'[m], k) <=> Saw(np[m], k)
             /\ \/ np'[m] = np[m]
                \/ ~np'[m].is_reset_mode /\ ~np'[m].has_sent_node_info
  <2>1. CASE m = n
    BY <1>1, <1>4, <2>1, EmptySeq DEF Saw
  <2>2. CASE m # n
    <3>1. SetUp(np[m], m)
      BY DEF J, NodesGood
    <3>2. SetUp(np[m], m)'
      BY <1>2, <2>2, <3>1 DEF SetUp
    <3> QED BY <1>1, <1>2, <2>2, <3>2, EmptySeq DEF Saw
  <2> QED BY <2>1, <2>2
<1>6. HistoryInv(I, R)' /\ Alternate(I, R)'
  <2>1. HistoryInv(I, R) /\ Alternate(I, R)
    BY DEF J
  <2>2. 0..(sink.seqno - 1) \subseteq 0..(sink'.seqno - 1)
    BY <1>0, <1>1
  <2> QED BY <1>1, <2>1, <2>2 DEF HistoryInv, Alternate
<1>7. NodesGood(I, R)'
  <2> SUFFICES ASSUME NEW m \in Node
               PROVE  QueueGood(np[m], I, R)' /\ ExitGood(np[m], m, I, R)'
    BY <1>5 DEF NodesGood
  <2>1. QueueGood(np[m], I, R) /\ ExitGood(np[m], m, I, R)
    BY DEF J, NodesGood
  <2>2. QueueGood(np[m], I, R)'
    <3>1. \A i \in 1..Len(np'[m].sq) : FALSE
      BY <1>5
    <3>2. \A k : Saw(np'[m], k) => k \in I \cup R
      BY <1>5, <2>1 DEF QueueGood
    <3> QED BY <3>1, <3>2 DEF QueueGood
  <2>3. ExitGood(np[m], m, I, R)'
    <3>1. CASE np'[m] = np[m]
      <4>1. LastIs(np[m], I, R)' <=> LastIs(np[m], I, R)
        BY <1>5 DEF LastIs
      <4>2. /\ np'[m].stopped = np[m].stopped /\ np'[m].is_exit_node = np[m].is_exit_node
            /\ np'[m].has_sent_node_info = np[m].has_sent_node_info
            /\ np'[m].is_reset_mode = np[m].is_reset_mode /\ np'[m].ns = np[m].ns
        BY <3>1
      <4> QED BY <1>1, <2>1, <4>1, <4>2 DEF ExitGood
    <3>2. CASE ~np'[m].is_reset_mode /\ ~np'[m].has_sent_node_info
      BY <1>5, <2>1, <3>2 DEF ExitGood
    <3> QED BY <1>5, <3>1, <3>2
  <2> QED BY <2>2, <2>3
<1>8. ASSUME ~Over' PROVE NetworkGood(I, R)' /\ PairsGood(I, R)'
  <2>1. ~sink.initialized /\ ~Over
    BY <1>1, <1>8 DEF Over
  <2>2. I = {} /\ R = {}
    <3>1. sink.seqno = 0
      BY <1>0, <2>1 DEF J, HistoryInv
    <3>2. I \subseteq 0..(0 - 1) /\ R \subseteq 0..(0 - 1)
      BY <3>1 DEF J, HistoryInv
    <3> QED BY <3>2
  <2>3. \A m \in Node : \A k : ~Saw(np'[m], k)
    BY <1>5, <2>2 DEF J, NodesGood, QueueGood
  <2>4. NetworkGood(I, R)'
    <3> SUFFICES ASSUME NEW m \in Node, InNetwork(m)'
                 PROVE  ~np'[m].is_reset_mode
      BY <2>2, <2>3 DEF NetworkGood, NodeGood, SeenInOrder
    <3>1. CASE np'[m] = np[m]
      <4>1. NodeGood(np[m], I, R)
        BY <2>1, <3>1 DEF J, NetworkGood, InNetwork
      <4> QED BY <2>2, <3>1, <4>1 DEF NodeGood, LastIs
    <3> QED BY <1>5, <3>1
  <2>5. PairsGood(I, R)'
    <3>1. \A m \in Node : \A i \in 1..Len(np'[m].sq) : FALSE
      BY <1>5
    <3> QED BY <2>3, <3>1 DEF PairsGood, Between, Forwarded, Ordered, InfoAfter
  <2> QED BY <2>4, <2>5
<1> QED BY <1>5, <1>6, <1>7, <1>8 DEF J

-----------------------------------------------------------------------------
(* The sink sends a command.                                               *)

\* Command s comes after those of I0 and R0.
Later(I0, R0, I, R, s) ==
  /\ \A k \in I0 \cup R0 : k < s
  /\ (I = I0 \cup {s} /\ R = R0) \/ (I = I0 /\ R = R0 \cup {s})

\* A new command, which nobody has seen, changes nothing of what holds.
LEMMA NewCommand ==
  ASSUME NEW I0 \in SUBSET Nat, NEW R0 \in SUBSET Nat, NEW I \in SUBSET Nat, NEW R \in SUBSET Nat,
         NEW s \in Nat, Later(I0, R0, I, R, s),
         NEW c \in NodeProperties, QueueGood(c, I0, R0)
  PROVE  /\ QueueGood(c, I, R) /\ ~Saw(c, s)
         /\ LastIs(c, I0, R0) => LastIs(c, I, R)
         /\ LastIs(c, R0, I0) => LastIs(c, R, I)
         /\ NodeGood(c, I0, R0) => NodeGood(c, I, R)
         /\ \A n, e : Between(c, e, n, I0 \cup R0) => Between(c, e, n, I \cup R)
<1>1. /\ I0 \subseteq I /\ R0 \subseteq R /\ I \cup R = I0 \cup R0 \cup {s}
      /\ I \subseteq I0 \cup {s} /\ R \subseteq R0 \cup {s}
      /\ \A k \in I0 \cup R0 : k < s
  BY DEF Later
<1>2. ~Saw(c, s)
  <2>1. s \notin I0 \cup R0
    BY <1>1
  <2> QED BY <2>1 DEF QueueGood
<1>3. QueueGood(c, I, R)
  <2>1. \A i \in 1..Len(c.sq) : FromHistory(c.sq[i].p, I, R)
    BY <1>1 DEF QueueGood, FromHistory
  <2> QED BY <1>1, <2>1 DEF QueueGood
<1>4. LastIs(c, I0, R0) => LastIs(c, I, R)
  BY <1>1, <1>2 DEF LastIs
<1>5. LastIs(c, R0, I0) => LastIs(c, R, I)
  BY <1>1, <1>2 DEF LastIs
<1>6. ASSUME NodeGood(c, I0, R0) PROVE NodeGood(c, I, R)
  <2>1. SeenInOrder(c, I \cup R)
    <3> SUFFICES ASSUME NEW i \in I \cup R, NEW k \in I \cup R, Saw(c, i), k < i
                 PROVE  Saw(c, k)
      BY DEF SeenInOrder
    <3>1. i \in I0 \cup R0 /\ i < s
      BY <1>1, <1>2
    <3>2. k \in I0 \cup R0
      BY <1>1, <3>1
    <3> QED BY <1>6, <3>1, <3>2 DEF NodeGood, SeenInOrder
  <2> QED BY <1>4, <1>5, <1>6, <2>1 DEF NodeGood
<1>7. ASSUME NEW n, NEW e, Between(c, e, n, I0 \cup R0) PROVE Between(c, e, n, I \cup R)
  <2>1. Ordered(c, e, n, I \cup R)
    <3> SUFFICES ASSUME NEW i \in 1..Len(c.sq), NEW j \in I \cup R, NEW k \in I \cup R,
                        Carries(c, i, n, j), k < j
                 PROVE  Saw(e, k) \/ \E h \in 1..(i - 1) : Carries(c, h, n, k)
      BY DEF Ordered
    <3>1. j \in I0 \cup R0
      <4>1. c.sq[i].p \in Packet
        <5>1. c.sq \in Seq(QueuedPacket)
          BY DEF NodeProperties
        <5>2. c.sq[i] \in QueuedPacket
          BY <5>1, ElementOfSeq
        <5> QED BY <5>2 DEF QueuedPacket
      <4>2. FromHistory(c.sq[i].p, I0, R0) /\ c.sq[i].p.key = <<Sink, j>>
        BY DEF QueueGood, Carries
      <4> QED BY <4>1, <4>2 DEF FromHistory, Packet
    <3>2. k \in I0 \cup R0
      BY <1>1, <3>1
    <3> QED BY <1>7, <3>1, <3>2 DEF Between, Ordered
  <2> QED BY <1>7, <2>1 DEF Between
<1> QED BY <1>2, <1>3, <1>4, <1>5, <1>6, <1>7

LEMMA CommandKeepsJ ==
  ASSUME NEW I0 \in SUBSET Nat, NEW R0 \in SUBSET Nat, NEW I \in SUBSET Nat, NEW R \in SUBSET Nat,
         TypeOK, TypeOK', J(I0, R0), ~Over, ~Over',
         NEW type \in {"INITIALIZE_BEST_PATHS", "RESET_SYSTEM"}, SinkBroadcasts(type),
         ~(faults' > 0),
         type = "INITIALIZE_BEST_PATHS" =>
           /\ I = I0 \cup {sink.seqno} /\ R = R0
           /\ ~sink.initialized /\ sink'.initialized,
         type = "RESET_SYSTEM" => I = I0 /\ R = R0 \cup {sink.seqno},
         Alternate(I, R), HistoryInv(I, R)'
  PROVE  J(I, R)'
<1> DEFINE s == sink.seqno
           p == [type |-> type, key |-> <<Sink, s>>]
<1>0. /\ s \in Nat /\ p \in Packet /\ p.type = type /\ p.key = <<Sink, s>>
      /\ np \in [Node -> NodeProperties] /\ flash \in [Node -> {"blank", "torn", "whole"}]
      /\ flash' = flash
  BY DEF TypeOK, Packet, SinkBroadcasts
<1>1. np' = [n \in Node |-> IF n \in SinkRange /\ Running(n)
                            THEN Received(np[n], n, Sink, p) ELSE np[n]]
  BY SinkFaults
<1>2. /\ \A k \in I0 \cup R0 : k < s
      /\ (I = I0 \cup {s} /\ R = R0) \/ (I = I0 /\ R = R0 \cup {s})
  <2>1. \A k \in 0..(s - 1) : k < s
    BY <1>0
  <2>2. I0 \subseteq 0..(s - 1) /\ R0 \subseteq 0..(s - 1)
    BY DEF J, HistoryInv
  <2> QED BY <2>1, <2>2
<1> HIDE DEF s, p
<1>3. ASSUME NEW n \in Node
      PROVE  /\ np[n] \in NodeProperties
             /\ SetUp(np[n], n) /\ QueueGood(np[n], I0, R0) /\ ExitGood(np[n], n, I0, R0)
             /\ QueueGood(np[n], I, R) /\ ~Saw(np[n], s)
             /\ LastIs(np[n], I0, R0) => LastIs(np[n], I, R)
             /\ NodeGood(np[n], I0, R0) => NodeGood(np[n], I, R)
             /\ \A x, e : Between(np[n], e, x, I0 \cup R0) => Between(np[n], e, x, I \cup R)
  <2>1. /\ np[n] \in NodeProperties
        /\ SetUp(np[n], n) /\ QueueGood(np[n], I0, R0) /\ ExitGood(np[n], n, I0, R0)
    BY <1>0 DEF J, NodesGood
  <2>2. PICK c \in NodeProperties : c = np[n] /\ QueueGood(c, I0, R0)
    BY <2>1
  <2>3. s \in Nat
    BY <1>0
  <2>4. /\ QueueGood(c, I, R) /\ ~Saw(c, s)
        /\ LastIs(c, I0, R0) => LastIs(c, I, R)
        /\ NodeGood(c, I0, R0) => NodeGood(c, I, R)
        /\ \A x, e : Between(c, e, x, I0 \cup R0) => Between(c, e, x, I \cup R)
    <3>1. Later(I0, R0, I, R, s)
      BY <1>2 DEF Later
    <3>2. c \in NodeProperties /\ QueueGood(c, I0, R0)
      BY <2>2
    <3>3. QueueGood(c, I, R)
      BY <2>3, <3>1, <3>2, NewCommand
    <3>4. ~Saw(c, s)
      <4>1. s \notin I0 \cup R0
        BY <1>2, <2>3
      <4> QED BY <3>2, <4>1 DEF QueueGood
    <3>5. LastIs(c, I0, R0) => LastIs(c, I, R)
      BY <2>2, <2>3, <3>1, NewCommand
    <3>6. NodeGood(c, I0, R0) => NodeGood(c, I, R)
      BY <2>2, <2>3, <3>1, NewCommand
    <3>7. \A x, e : Between(c, e, x, I0 \cup R0) => Between(c, e, x, I \cup R)
      BY <2>2, <2>3, <3>1, NewCommand
    <3> QED BY <3>3, <3>4, <3>5, <3>6, <3>7
  <2> QED BY <2>1, <2>2, <2>4
<1>4. NetworkGood(I0, R0) /\ PairsGood(I0, R0)
  BY DEF J
<1>5. ASSUME NEW n \in Node, n \in SinkRange, Running(n)
      PROVE  Got(np[n], np'[n], p, I, R)
  <2>1. FromHistory(p, I, R)
    BY <1>0, <1>2 DEF FromHistory, s
  <2>2. p.key \notin np[n].seen
    BY <1>0, <1>3 DEF Saw
  <2>3. np[n].ns # {} => NodeGood(np[n], I, R) /\ InTurn(np[n], p, I \cup R)
    <3> SUFFICES ASSUME np[n].ns # {} PROVE NodeGood(np[n], I, R) /\ InTurn(np[n], p, I \cup R)
      OBVIOUS
    <3>1. NodeGood(np[n], I0, R0) /\ \A k \in I0 \cup R0 : Saw(np[n], k)
      BY <1>4, <1>5 DEF NetworkGood, InNetwork, Running
    <3>2. InTurn(np[n], p, I \cup R)
      <4>1. ASSUME NEW j \in I \cup R, NEW k \in I \cup R, p.key = <<Sink, j>>, k < j
            PROVE  Saw(np[n], k)
        <5>1. j = s
          BY <1>0, <4>1
        <5>2. k \in I0 \cup R0
          BY <1>0, <1>2, <4>1, <5>1
        <5> QED BY <3>1, <5>2
      <4> QED BY <1>0, <4>1 DEF InTurn
    <3> QED BY <1>3, <3>1, <3>2
  <2>4. np[n].is_exit_node /\ np[n].has_sent_node_info =>
          /\ ~np[n].is_reset_mode
          /\ np[n].ns = {} => p.type # "INITIALIZE_BEST_PATHS"
          /\ np[n].ns # {} => LastIs(np[n], I, R)
    BY <1>0, <1>3, <1>5 DEF ExitGood, Running
  <2>5. Ready(np[n], n, p, I, R)
    BY <1>0, <1>3, <1>5, <2>1, <2>2, <2>3, <2>4 DEF Ready, Running
  <2>6. PICK c, d : c = np[n] /\ d = np'[n]
    OBVIOUS
  <2>7. d = Received(c, n, Sink, p) /\ c \in NodeProperties /\ Ready(c, n, p, I, R)
    BY <1>1, <1>3, <1>5, <2>5, <2>6
  <2>8. Got(c, d, p, I, R)
    <3>1. (p.type = "NODE_INFO" => Sink \in Node) /\ Sink \in Node \cup {Sink}
      BY <1>0
    <3>2. flash[n] \in {"blank", "torn", "whole"}
      BY <1>0
    <3> QED BY <1>0, <2>7, <3>1, <3>2, Receipt
  <2> QED BY <2>6, <2>8
<1>6. ASSUME NEW n \in Node, n \notin SinkRange \/ ~Running(n) PROVE np'[n] = np[n]
  BY <1>1, <1>6
<1>7. ASSUME NEW n \in Node
      PROVE  /\ np'[n].ns = np[n].ns /\ np'[n].is_exit_node = np[n].is_exit_node
             /\ np'[n].stopped = np[n].stopped /\ QueueGood(np'[n], I, R)
             /\ \A k : Saw(np[n], k) => np[n].ns = {} \/ Saw(np'[n], k)
  <2>1. CASE n \in SinkRange /\ Running(n)
    BY <1>5, <2>1 DEF Got, Running
  <2>2. CASE n \notin SinkRange \/ ~Running(n)
    BY <1>3, <1>6, <2>2
  <2> QED BY <2>1, <2>2
<1>8. NodesGood(I, R)'
  <2> SUFFICES ASSUME NEW n \in Node
               PROVE  SetUp(np[n], n)' /\ QueueGood(np[n], I, R)' /\ ExitGood(np[n], n, I, R)'
    BY DEF NodesGood
  <2>1. SetUp(np[n], n)'
    BY <1>0, <1>3, <1>7 DEF SetUp
  <2>2. QueueGood(np[n], I, R)'
    BY <1>7 DEF QueueGood, FromHistory
  <2>3. ExitGood(np[n], n, I, R)'
    <3>1. CASE n \in SinkRange /\ Running(n)
      BY <1>0, <1>5, <3>1 DEF Got, ExitGood, LastIs
    <3>2. CASE n \notin SinkRange \/ ~Running(n)
      BY <1>3, <1>6, <3>2 DEF ExitGood, Running, LastIs
    <3> QED BY <3>1, <3>2
  <2> QED BY <2>1, <2>2, <2>3
<1>9. NetworkGood(I, R)'
  <2> SUFFICES ASSUME NEW n \in Node, InNetwork(n)'
               PROVE  /\ NodeGood(np'[n], I, R)
                      /\ n \in SinkRange => \A k \in I \cup R : Saw(np'[n], k)
    BY DEF NetworkGood, NodeGood, SeenInOrder, LastIs
  <2>0. InNetwork(n) /\ Running(n) /\ np[n].ns # {} /\ np'[n].ns # {}
    BY <1>7 DEF InNetwork, Running
  <2>1. NodeGood(np[n], I0, R0) /\ (n \in SinkRange => \A k \in I0 \cup R0 : Saw(np[n], k))
    BY <1>4, <2>0 DEF NetworkGood
  <2>2. CASE n \in SinkRange
    <3>1. Got(np[n], np'[n], p, I, R)
      BY <1>5, <2>0, <2>2
    <3> QED BY <1>0, <1>2, <2>0, <2>1, <2>2, <3>1 DEF Got
  <2>3. CASE n \notin SinkRange
    BY <1>3, <1>6, <2>1, <2>3
  <2> QED BY <2>2, <2>3
<1>10. PairsGood(I, R)'
  <2> SUFFICES ASSUME NEW m \in Node, NEW n \in Node, Listens(m, n)'
               PROVE  Between(np'[m], np'[n], n, I \cup R)
    BY DEF PairsGood, Between, Forwarded, Ordered, InfoAfter
  <2>1. Listens(m, n) /\ n \in np[m].ns /\ np[n].ns # {}
    BY <1>7 DEF Listens
  <2>2. Between(np[m], np[n], n, I \cup R)
    BY <1>3, <1>4, <2>1 DEF PairsGood
  <2>3. Between(np[m], np'[n], n, I \cup R)
    BY <1>7, <2>1, <2>2, ReceiverGrows
  <2>4. CASE m \in SinkRange /\ Running(m)
    <3>1. Got(np[m], np'[m], p, I, R)
      BY <1>5, <2>4
    <3>2. np'[m] \in NodeProperties /\ Grown(np[m], np'[m], I \cup R)
      BY <2>1, <3>1 DEF Got
    <3>3. I \cup R \in SUBSET Nat
      OBVIOUS
    <3>4. np[m] \in NodeProperties /\ n \in np[m].ns
      BY <1>3, <2>1
    <3> QED BY <2>3, <3>2, <3>3, <3>4, SenderGrows
  <2>5. CASE m \notin SinkRange \/ ~Running(m)
    BY <1>6, <2>3, <2>5
  <2> QED BY <2>4, <2>5
<1> QED BY <1>8, <1>9, <1>10 DEF J

LEMMA SendInitKeepsJ ==
  ASSUME NEW I \in SUBSET Nat, NEW R \in SUBSET Nat, TypeOK, TypeOK', J(I, R),
         SendInitPacket, ~Excused'
  PROVE  \E I1, R1 \in SUBSET Nat : J(I1, R1)'
<1>1. /\ sink \in SinkRecord /\ sink.seqno \in Nat /\ faults' \in Nat
      /\ SinkBroadcasts("INITIALIZE_BEST_PATHS") /\ sink.seqno < MaxCommands
  BY DEF TypeOK, SinkRecord, SendInitPacket, SinkBroadcasts
<1>2. /\ sink'.seqno = sink.seqno + 1
      /\ ~sink'.owes_init /\ sink'.initialized /\ ~sink.initialized
  <2>1. /\ sink'.seqno = sink.seqno + 1 /\ ~sink'.owes_init /\ sink'.initialized
        /\ sink'.repeated <=> sink.repeated \/ sink.initialized
    BY <1>1, SendInitSink
  <2>2. ~sink'.repeated
    BY DEF Excused
  <2> QED BY <2>1, <2>2
<1>3. ~(faults' > 0) /\ ~Over /\ ~Over'
  BY <1>2 DEF Excused, Over
<1>4. PICK s \in Nat : s = sink.seqno
  BY <1>1
<1>5. PICK I1 \in SUBSET Nat : I1 = I \cup {s}
  BY <1>4
<1>6. HistoryInv(I, R) /\ Alternate(I, R) /\ I \subseteq 0..(s - 1) /\ R \subseteq 0..(s - 1)
  BY <1>4 DEF J, HistoryInv
<1>7. (\A i \in I \cup R : i < s) /\ s \notin R
  BY <1>4, <1>6
<1>8. Alternate(I1, R)
  <2>1. I1 \cap R = {}
    BY <1>5, <1>6, <1>7 DEF Alternate
  <2>2. ASSUME NEW i \in I1, NEW j \in I1, i < j PROVE \E r \in R : i < r /\ r < j
    <3>1. i \in I
      BY <1>4, <1>5, <1>7, <2>2
    <3>2. CASE j \in I
      BY <1>6, <2>2, <3>1, <3>2 DEF Alternate
    <3>3. CASE j = s
      <4>1. \E r \in R : i < r
        BY <1>2, <1>6, <3>1 DEF HistoryInv
      <4> QED BY <1>7, <3>3, <4>1
    <3> QED BY <1>5, <3>2, <3>3
  <2>3. \A r, q \in R : r < q => \E i \in I1 : r < i /\ i < q
    BY <1>5, <1>6 DEF Alternate
  <2> QED BY <2>1, <2>2, <2>3 DEF Alternate
<1>9. HistoryInv(I1, R)'
  <2>1. I1 \subseteq 0..(sink'.seqno - 1) /\ R \subseteq 0..(sink'.seqno - 1)
    <3>1. sink'.seqno - 1 = s /\ 0..(s - 1) \subseteq 0..s /\ s \in 0..s
      BY <1>2, <1>4
    <3> QED BY <1>5, <1>6, <3>1
  <2>2. \A r \in R : \E i \in I1 : r < i
    BY <1>5, <1>7
  <2> QED BY <1>2, <2>1, <2>2 DEF HistoryInv
<1>10. J(I1, R)'
  <2> DEFINE type == "INITIALIZE_BEST_PATHS"
  <2>1. type \in {"INITIALIZE_BEST_PATHS", "RESET_SYSTEM"}
    OBVIOUS
  <2>2. type = "INITIALIZE_BEST_PATHS" =>
          /\ I1 = I \cup {sink.seqno} /\ R = R
          /\ ~sink.initialized /\ sink'.initialized
    BY <1>2, <1>4, <1>5
  <2>3. type = "RESET_SYSTEM" => I1 = I /\ R = R \cup {sink.seqno}
    OBVIOUS
  <2>4. SinkBroadcasts(type)
    BY <1>1
  <2> HIDE DEF type
  <2> QED BY <1>3, <1>8, <1>9, <2>1, <2>2, <2>3, <2>4, CommandKeepsJ
<1> QED BY <1>10

LEMMA SendResetKeepsJ ==
  ASSUME NEW I \in SUBSET Nat, NEW R \in SUBSET Nat, TypeOK, TypeOK', J(I, R),
         SendResetPacket, ~Excused'
  PROVE  \E I1, R1 \in SUBSET Nat : J(I1, R1)'
<1>1. /\ sink \in SinkRecord /\ sink.seqno \in Nat /\ faults' \in Nat /\ ~sink.owes_init
      /\ SinkBroadcasts("RESET_SYSTEM") /\ sink.seqno < MaxCommands
  BY DEF TypeOK, SinkRecord, SendResetPacket, SinkBroadcasts
<1>2. /\ sink'.seqno = sink.seqno + 1
      /\ sink'.owes_init /\ ~sink'.initialized
  BY <1>1, SendResetSink
<1>3. ~(faults' > 0) /\ ~Over /\ ~Over'
  BY <1>1, <1>2 DEF Excused, Over
<1>4. PICK s \in Nat : s = sink.seqno
  BY <1>1
<1>5. PICK R1 \in SUBSET Nat : R1 = R \cup {s}
  BY <1>4
<1>6. HistoryInv(I, R) /\ Alternate(I, R) /\ I \subseteq 0..(s - 1) /\ R \subseteq 0..(s - 1)
  BY <1>4 DEF J, HistoryInv
<1>7. (\A i \in I \cup R : i < s) /\ s \notin I
  BY <1>4, <1>6
<1>8. Alternate(I, R1)
  <2>1. I \cap R1 = {}
    BY <1>5, <1>6, <1>7 DEF Alternate
  <2>2. ASSUME NEW r \in R1, NEW q \in R1, r < q PROVE \E i \in I : r < i /\ i < q
    <3>1. r \in R
      BY <1>4, <1>5, <1>7, <2>2
    <3>2. CASE q \in R
      BY <1>6, <2>2, <3>1, <3>2 DEF Alternate
    <3>3. CASE q = s
      <4>1. \E i \in I : r < i
        BY <1>1, <1>6, <3>1 DEF HistoryInv
      <4> QED BY <1>7, <3>3, <4>1
    <3> QED BY <1>5, <3>2, <3>3
  <2>3. \A i, j \in I : i < j => \E r \in R1 : i < r /\ r < j
    BY <1>5, <1>6 DEF Alternate
  <2> QED BY <2>1, <2>2, <2>3 DEF Alternate
<1>9. HistoryInv(I, R1)'
  <2>1. I \subseteq 0..(sink'.seqno - 1) /\ R1 \subseteq 0..(sink'.seqno - 1)
    <3>1. sink'.seqno - 1 = s /\ 0..(s - 1) \subseteq 0..s /\ s \in 0..s
      BY <1>2, <1>4
    <3> QED BY <1>5, <1>6, <3>1
  <2>2. \A i \in I : \E r \in R1 : i < r
    BY <1>5, <1>7
  <2> QED BY <1>2, <2>1, <2>2 DEF HistoryInv
<1>10. J(I, R1)'
  <2> DEFINE type == "RESET_SYSTEM"
  <2>1. type \in {"INITIALIZE_BEST_PATHS", "RESET_SYSTEM"}
    OBVIOUS
  <2>2. type = "INITIALIZE_BEST_PATHS" =>
          /\ I = I \cup {sink.seqno} /\ R1 = R
          /\ ~sink.initialized /\ sink'.initialized
    OBVIOUS
  <2>3. type = "RESET_SYSTEM" => I = I /\ R1 = R \cup {sink.seqno}
    BY <1>4, <1>5
  <2>4. SinkBroadcasts(type)
    BY <1>1
  <2> HIDE DEF type
  <2> QED BY <1>3, <1>8, <1>9, <2>1, <2>2, <2>3, <2>4, CommandKeepsJ
<1> QED BY <1>10

-----------------------------------------------------------------------------
(* A packet is given up.                                                   *)

\* A queue that loses its first place, or waits for fewer nodes there.
LEMMA LessQueued ==
  ASSUME NEW c, NEW d, NEW I, NEW R, QueueGood(c, I, R), QueueOnly(c, d),
         \A i \in 1..Len(d.sq) : \E j \in 1..Len(c.sq) :
           d.sq[i].p = c.sq[j].p /\ d.sq[i].unacked_ns \subseteq c.sq[j].unacked_ns
  PROVE  /\ QueueGood(d, I, R) /\ \A k : Saw(d, k) <=> Saw(c, k)
         /\ LastIs(d, I, R) <=> LastIs(c, I, R)
         /\ NodeGood(c, I, R) => NodeGood(d, I, R)
<1>1. \A k : Saw(d, k) <=> Saw(c, k)
  BY DEF QueueOnly, Saw
<1>2. QueueGood(d, I, R)
  <2>1. \A k : Saw(d, k) => k \in I \cup R
    BY <1>1 DEF QueueGood
  <2>2. ASSUME NEW i \in 1..Len(d.sq)
        PROVE  FromHistory(d.sq[i].p, I, R) /\ d.sq[i].unacked_ns \subseteq d.ns
    <3>1. PICK j \in 1..Len(c.sq) :
            d.sq[i].p = c.sq[j].p /\ d.sq[i].unacked_ns \subseteq c.sq[j].unacked_ns
      OBVIOUS
    <3> QED BY <3>1 DEF QueueGood, QueueOnly
  <2> QED BY <2>1, <2>2 DEF QueueGood
<1>3. LastIs(d, I, R) <=> LastIs(c, I, R)
  BY <1>1 DEF LastIs
<1>4. LastIs(d, R, I) <=> LastIs(c, R, I)
  BY <1>1 DEF LastIs
<1>5. SeenInOrder(d, I \cup R) <=> SeenInOrder(c, I \cup R)
  BY <1>1 DEF SeenInOrder
<1>6. NodeGood(c, I, R) => NodeGood(d, I, R)
  BY <1>1, <1>3, <1>4, <1>5 DEF NodeGood, QueueOnly
<1> QED BY <1>1, <1>2, <1>3, <1>6

LEMMA GiveUpKeepsJ ==
  ASSUME NEW I \in SUBSET Nat, NEW R \in SUBSET Nat, TypeOK, TypeOK', J(I, R),
         NEW m \in Node, GiveUp(m), ~Excused'
  PROVE  J(I, R)'
<1>0. /\ flash' = flash /\ sink' = sink /\ np[m].sq # << >>
      /\ np[m] \in NodeProperties /\ np'[m] \in NodeProperties
      /\ I \cup R \in SUBSET Nat
  BY DEF TypeOK, GiveUp
<1>1. /\ QueueOnly(np[m], np'[m]) /\ np'[m].sq = Tail(np[m].sq)
      /\ \A n \in Node : n # m => np'[n] = np[n]
  BY GiveUpEffect
<1>2. \A n \in Node : Running(n) /\ m \in np[n].ns => n \notin Head(np[m].sq).unacked_ns
  BY GiveUpFaults DEF Excused
<1>3. ~Over /\ ~Over'
  BY <1>0 DEF J, Over
<1>4. NetworkGood(I, R) /\ PairsGood(I, R) /\ NodesGood(I, R)
  BY <1>3 DEF J
<1>5. /\ QueueGood(np'[m], I, R) /\ \A k : Saw(np'[m], k) <=> Saw(np[m], k)
      /\ LastIs(np'[m], I, R) <=> LastIs(np[m], I, R)
      /\ NodeGood(np[m], I, R) => NodeGood(np'[m], I, R)
  <2>1. PICK c, d : c = np[m] /\ d = np'[m]
    OBVIOUS
  <2>2. c.sq \in Seq(QueuedPacket) /\ c.sq # << >> /\ d.sq = Tail(c.sq)
    BY <1>0, <1>1, <2>1 DEF NodeProperties
  <2>3. /\ Len(c.sq) \in Nat /\ Len(d.sq) = Len(c.sq) - 1
        /\ \A i \in 1..Len(d.sq) : d.sq[i] = c.sq[i + 1]
    BY <2>2, HeadTailProperties, LenProperties
  <2>4. \A i \in 1..Len(d.sq) : i + 1 \in 1..Len(c.sq)
    BY <2>3
  <2>5. \A i \in 1..Len(d.sq) : \E j \in 1..Len(c.sq) :
          d.sq[i].p = c.sq[j].p /\ d.sq[i].unacked_ns \subseteq c.sq[j].unacked_ns
    BY <2>3, <2>4
  <2>6. QueueGood(c, I, R) /\ QueueOnly(c, d)
    BY <1>1, <1>4, <2>1 DEF NodesGood
  <2>7. /\ QueueGood(d, I, R) /\ \A k : Saw(d, k) <=> Saw(c, k)
        /\ LastIs(d, I, R) <=> LastIs(c, I, R)
        /\ NodeGood(c, I, R) => NodeGood(d, I, R)
    BY <2>5, <2>6, LessQueued
  <2> QED BY <2>1, <2>7
<1>6. ASSUME NEW n \in Node
      PROVE  /\ np'[n].ns = np[n].ns /\ np'[n].is_exit_node = np[n].is_exit_node
             /\ np'[n].is_reset_mode = np[n].is_reset_mode
             /\ np'[n].has_sent_node_info = np[n].has_sent_node_info
             /\ np'[n].stopped = np[n].stopped
             /\ \A k : Saw(np'[n], k) <=> Saw(np[n], k)
             /\ QueueGood(np'[n], I, R)
             /\ LastIs(np'[n], I, R) <=> LastIs(np[n], I, R)
             /\ NodeGood(np[n], I, R) => NodeGood(np'[n], I, R)
  <2>1. CASE n = m
    BY <1>1, <1>5, <2>1 DEF QueueOnly
  <2>2. CASE n # m
    BY <1>1, <1>4, <2>2 DEF NodesGood
  <2> QED BY <2>1, <2>2
<1>7. NodesGood(I, R)'
  <2> SUFFICES ASSUME NEW n \in Node
               PROVE  SetUp(np[n], n)' /\ QueueGood(np[n], I, R)' /\ ExitGood(np[n], n, I, R)'
    BY DEF NodesGood
  <2>1. SetUp(np[n], n) /\ ExitGood(np[n], n, I, R)
    BY <1>4 DEF NodesGood
  <2>2. SetUp(np[n], n)'
    BY <1>0, <1>6, <2>1 DEF SetUp
  <2>3. QueueGood(np[n], I, R)'
    BY <1>6 DEF QueueGood, FromHistory
  <2>4. LastIs(np[n], I, R)' <=> LastIs(np[n], I, R)
    BY <1>6 DEF LastIs
  <2>5. ExitGood(np[n], n, I, R)'
    BY <1>0, <1>6, <2>1, <2>4 DEF ExitGood
  <2> QED BY <2>2, <2>3, <2>5
<1>8. NetworkGood(I, R)'
  <2> SUFFICES ASSUME NEW n \in Node, InNetwork(n)'
               PROVE  /\ NodeGood(np'[n], I, R)
                      /\ n \in SinkRange => \A k \in I \cup R : Saw(np'[n], k)
    BY DEF NetworkGood, NodeGood, SeenInOrder, LastIs
  <2>1. InNetwork(n)
    BY <1>6 DEF InNetwork
  <2> QED BY <1>4, <1>6, <2>1 DEF NetworkGood
<1>9. PairsGood(I, R)'
  <2> SUFFICES ASSUME NEW x \in Node, NEW y \in Node, Listens(x, y)'
               PROVE  Between(np'[x], np'[y], y, I \cup R)
    BY DEF PairsGood, Between, Forwarded, Ordered, InfoAfter
  <2>1. Listens(x, y)
    BY <1>6 DEF Listens
  <2>2. Between(np[x], np[y], y, I \cup R)
    BY <1>4, <2>1 DEF PairsGood
  <2>3. Between(np[x], np'[y], y, I \cup R)
    BY <1>6, <2>2, ReceiverGrows
  <2>4. CASE x = m
    <3>1. y \notin Head(np[m].sq).unacked_ns
      BY <1>2, <2>1, <2>4 DEF Listens, Running
    <3>2. Between(np[m], np'[y], y, I \cup R)
      BY <2>3, <2>4
    <3>3. Between(np'[m], np'[y], y, I \cup R)
      BY <1>0, <1>1, <3>1, <3>2, GivenUpBetween
    <3> QED BY <2>4, <3>3
  <2>5. CASE x # m
    BY <1>1, <2>3, <2>5
  <2> QED BY <2>4, <2>5
<1>10. HistoryInv(I, R)' /\ Alternate(I, R)'
  BY <1>0 DEF J, HistoryInv, Alternate
<1> QED BY <1>3, <1>7, <1>8, <1>9, <1>10 DEF J

-----------------------------------------------------------------------------
(* A packet is delivered.                                                  *)

\* What it finds at its receiver.
LEMMA DeliveredInTurn ==
  ASSUME NEW I \in SUBSET Nat, NEW R \in SUBSET Nat, NEW m, NEW n,
         NEW c \in NodeProperties, NEW e \in NodeProperties,
         QueueGood(c, I, R), Between(c, e, n, I \cup R), 1 \in 1..Len(c.sq), n \in c.sq[1].unacked_ns,
         SetUp(e, n), QueueGood(e, I, R), ExitGood(e, n, I, R), NodeGood(e, I, R),
         e.stopped = "no", e.ns # {}
  PROVE  Ready(e, n, c.sq[1].p, I, R)
<1>0. \A h : h \notin 1..(1 - 1)
  OBVIOUS
<1>1. FromHistory(c.sq[1].p, I, R)
  BY DEF QueueGood
<1>2. c.sq[1].p.type = "NODE_INFO" => \E k : Saw(e, k)
  BY <1>0 DEF Between, InfoAfter
<1>3. ASSUME NEW j \in I \cup R, NEW k \in I \cup R, c.sq[1].p.key = <<Sink, j>>, k < j
      PROVE  Saw(e, k)
  <2>1. Carries(c, 1, n, j)
    BY <1>3 DEF Carries
  <2> QED BY <1>0, <1>3, <2>1 DEF Between, Ordered
<1>4. InTurn(e, c.sq[1].p, I \cup R)
  BY <1>2, <1>3 DEF InTurn
<1>5. e.is_exit_node /\ e.has_sent_node_info => ~e.is_reset_mode /\ LastIs(e, I, R)
  BY DEF ExitGood
<1> QED BY <1>1, <1>4, <1>5 DEF Ready

LEMMA DeliverKeepsJ ==
  ASSUME NEW I \in SUBSET Nat, NEW R \in SUBSET Nat, TypeOK, TypeOK', J(I, R),
         NEW m \in Node, NEW n \in Node, Deliver(m, n)
  PROVE  J(I, R)'
<1> DEFINE p == np[m].sq[1].p
<1>0. /\ flash' = flash /\ sink' = sink
      /\ \A x \in Node : np[x] \in NodeProperties /\ np'[x] \in NodeProperties
      /\ flash[n] \in {"blank", "torn", "whole"}
      /\ I \cup R \in SUBSET Nat
  <2>1. UNCHANGED <<flash, sink, alarms, faults>>
    BY Zenon DEF Deliver
  <2> QED BY <2>1 DEF TypeOK
<1>1. /\ np[m].sq # << >> /\ n \in Head(np[m].sq).unacked_ns /\ m \in np[n].ns
      /\ Running(m) /\ Running(n)
      /\ Head(np[m].sq).p \in Packet
      /\ m # n => /\ QueueOnly(np[m], np'[m])
                  /\ np'[m].sq = Acknowledged(np[m].sq, n)
                  /\ np'[n] = Received(np[n], n, m, Head(np[m].sq).p)
      /\ \A x \in Node : x # m /\ x # n => np'[x] = np[x]
  BY DeliverEffect
<1>2. ~Over /\ ~Over'
  BY <1>0, <1>1 DEF J, Over
<1>3. NetworkGood(I, R) /\ PairsGood(I, R) /\ NodesGood(I, R) /\ Alternate(I, R)
  BY <1>2 DEF J
<1>4. /\ Head(np[m].sq) = np[m].sq[1] /\ 1 \in 1..Len(np[m].sq)
      /\ \E s \in {0, 1} : Shifted(np[m].sq, Acknowledged(np[m].sq, n), n, s)
  <2>1. np[m].sq \in Seq(QueuedPacket)
    BY <1>0 DEF NodeProperties
  <2>2. PICK v : v = Acknowledged(np[m].sq, n)
    OBVIOUS
  <2> QED BY <1>1, <2>1, <2>2, AcknowledgedEffect
<1>5. n \in np[m].ns /\ m # n
  <2>1. n \in np[m].ns
    BY <1>1, <1>3, <1>4 DEF NodesGood, QueueGood
  <2>2. n \in Table[m]
    BY <1>3, <2>1 DEF NodesGood, SetUp
  <2> QED BY <2>1, <2>2, NodeLifecycleAssumption
<1>6. /\ QueueOnly(np[m], np'[m])
      /\ np'[n] = Received(np[n], n, m, p) /\ p \in Packet
      /\ \E s \in {0, 1} : Shifted(np[m].sq, np'[m].sq, n, s)
  BY <1>1, <1>4, <1>5
<1>7. Got(np[n], np'[n], p, I, R)
  <2>1. Listens(m, n) /\ InNetwork(n)
    BY <1>1, <1>5 DEF Listens, InNetwork, Running
  <2>2. PICK c \in NodeProperties, e \in NodeProperties : c = np[m] /\ e = np[n]
    BY <1>0
  <2>3. /\ QueueGood(c, I, R) /\ Between(c, e, n, I \cup R)
        /\ 1 \in 1..Len(c.sq) /\ n \in c.sq[1].unacked_ns
        /\ SetUp(e, n) /\ QueueGood(e, I, R) /\ ExitGood(e, n, I, R) /\ NodeGood(e, I, R)
        /\ e.stopped = "no" /\ e.ns # {}
    BY <1>1, <1>3, <1>4, <2>1, <2>2 DEF NodesGood, PairsGood, NetworkGood, InNetwork
  <2>4. Ready(e, n, p, I, R)
    BY <2>2, <2>3, DeliveredInTurn
  <2>5. PICK d : d = np'[n]
    OBVIOUS
  <2>6. d = Received(e, n, m, p)
    BY <1>6, <2>2, <2>5
  <2>7. m \in Node \cup {Sink} /\ (p.type = "NODE_INFO" => m \in Node)
    OBVIOUS
  <2> HIDE DEF p
  <2>8. Got(e, d, p, I, R)
    BY <1>0, <1>3, <1>6, <2>4, <2>6, <2>7, Receipt
  <2> QED BY <2>2, <2>5, <2>8
<1>8. /\ QueueGood(np'[m], I, R) /\ \A k : Saw(np'[m], k) <=> Saw(np[m], k)
      /\ LastIs(np'[m], I, R) <=> LastIs(np[m], I, R)
      /\ NodeGood(np[m], I, R) => NodeGood(np'[m], I, R)
  <2>1. PICK c, d : c = np[m] /\ d = np'[m]
    OBVIOUS
  <2>2. PICK s \in {0, 1} : Shifted(c.sq, d.sq, n, s)
    BY <1>6, <2>1
  <2>3. Len(c.sq) \in Nat /\ Len(d.sq) = Len(c.sq) - s
    <3>1. c.sq \in Seq(QueuedPacket)
      BY <1>0, <2>1 DEF NodeProperties
    <3> QED BY <2>2, <3>1, LenProperties DEF Shifted
  <2>4. ASSUME NEW i \in 1..Len(d.sq)
        PROVE  \E j \in 1..Len(c.sq) :
                 d.sq[i].p = c.sq[j].p /\ d.sq[i].unacked_ns \subseteq c.sq[j].unacked_ns
    <3>1. i + s \in 1..Len(c.sq)
      BY <2>3
    <3>2. d.sq[i].p = c.sq[i + s].p /\ d.sq[i].unacked_ns \subseteq c.sq[i + s].unacked_ns
      BY <2>2 DEF Shifted
    <3> QED BY <3>1, <3>2
  <2>5. QueueGood(c, I, R) /\ QueueOnly(c, d)
    BY <1>3, <1>6, <2>1 DEF NodesGood
  <2>6. /\ QueueGood(d, I, R) /\ \A k : Saw(d, k) <=> Saw(c, k)
        /\ LastIs(d, I, R) <=> LastIs(c, I, R)
        /\ NodeGood(c, I, R) => NodeGood(d, I, R)
    BY <2>4, <2>5, LessQueued
  <2> QED BY <2>1, <2>6
<1> HIDE DEF p
<1>9. /\ np'[n].ns = np[n].ns /\ np'[n].ns # {} /\ np'[n].stopped = np[n].stopped
      /\ np'[n].is_exit_node = np[n].is_exit_node
      /\ QueueGood(np'[n], I, R) /\ NodeGood(np'[n], I, R) /\ Grown(np[n], np'[n], I \cup R)
      /\ \A k : Saw(np'[n], k) <=> Saw(np[n], k) \/ p.key = <<Sink, k>>
      /\ np'[n].is_exit_node /\ np'[n].has_sent_node_info =>
           ~np'[n].is_reset_mode /\ LastIs(np'[n], I, R)
  BY <1>1, <1>7 DEF Got, Running
<1>10. ASSUME NEW x \in Node, x # n
       PROVE  /\ np'[x].ns = np[x].ns /\ np'[x].is_exit_node = np[x].is_exit_node
              /\ np'[x].is_reset_mode = np[x].is_reset_mode
              /\ np'[x].has_sent_node_info = np[x].has_sent_node_info
              /\ np'[x].stopped = np[x].stopped
              /\ \A k : Saw(np'[x], k) <=> Saw(np[x], k)
              /\ QueueGood(np'[x], I, R)
              /\ LastIs(np'[x], I, R) <=> LastIs(np[x], I, R)
              /\ NodeGood(np[x], I, R) => NodeGood(np'[x], I, R)
  <2>1. CASE x = m
    BY <1>6, <1>8, <2>1 DEF QueueOnly
  <2>2. CASE x # m
    BY <1>1, <1>3, <1>10, <2>2 DEF NodesGood
  <2> QED BY <2>1, <2>2
<1>11. ASSUME NEW x \in Node
       PROVE  /\ np'[x].ns = np[x].ns /\ np'[x].is_exit_node = np[x].is_exit_node
              /\ np'[x].stopped = np[x].stopped /\ QueueGood(np'[x], I, R)
              /\ \A k : Saw(np[x], k) => Saw(np'[x], k)
  BY <1>9, <1>10
<1>12. NodesGood(I, R)'
  <2> SUFFICES ASSUME NEW x \in Node
               PROVE  SetUp(np[x], x)' /\ QueueGood(np[x], I, R)' /\ ExitGood(np[x], x, I, R)'
    BY DEF NodesGood
  <2>1. SetUp(np[x], x) /\ ExitGood(np[x], x, I, R)
    BY <1>3 DEF NodesGood
  <2>2. SetUp(np[x], x)'
    BY <1>0, <1>11, <2>1 DEF SetUp
  <2>3. QueueGood(np[x], I, R)'
    BY <1>11 DEF QueueGood, FromHistory
  <2>4. LastIs(np[x], I, R)' <=> LastIs(np'[x], I, R)
    BY DEF LastIs
  <2>5. ExitGood(np[x], x, I, R)'
    <3>1. CASE x = n
      BY <1>1, <1>9, <2>4, <3>1 DEF ExitGood, Running
    <3>2. CASE x # n
      BY <1>0, <1>10, <2>1, <2>4, <3>2 DEF ExitGood
    <3> QED BY <3>1, <3>2
  <2> QED BY <2>2, <2>3, <2>5
<1>13. NetworkGood(I, R)'
  <2> SUFFICES ASSUME NEW x \in Node, InNetwork(x)'
               PROVE  /\ NodeGood(np'[x], I, R)
                      /\ x \in SinkRange => \A k \in I \cup R : Saw(np'[x], k)
    BY DEF NetworkGood, NodeGood, SeenInOrder, LastIs
  <2>1. InNetwork(x)
    BY <1>11 DEF InNetwork
  <2>2. NodeGood(np[x], I, R) /\ (x \in SinkRange => \A k \in I \cup R : Saw(np[x], k))
    BY <1>3, <2>1 DEF NetworkGood
  <2> QED BY <1>9, <1>10, <1>11, <2>2
<1>14. PairsGood(I, R)'
  <2> SUFFICES ASSUME NEW x \in Node, NEW y \in Node, Listens(x, y)'
               PROVE  Between(np'[x], np'[y], y, I \cup R)
    BY DEF PairsGood, Between, Forwarded, Ordered, InfoAfter
  <2>1. Listens(x, y) /\ y \in np[x].ns
    BY <1>11 DEF Listens
  <2>2. Between(np[x], np[y], y, I \cup R)
    BY <1>3, <2>1 DEF PairsGood
  <2>3. Between(np[x], np'[y], y, I \cup R)
    BY <1>11, <2>2, ReceiverGrows
  <2>4. CASE x = n
    <3>1. np[n] \in NodeProperties /\ np'[n] \in NodeProperties /\ y \in np[n].ns
      BY <1>0, <2>1, <2>4
    <3>2. Between(np[n], np'[y], y, I \cup R)
      BY <2>3, <2>4
    <3>3. Between(np'[n], np'[y], y, I \cup R)
      BY <1>0, <1>9, <3>1, <3>2, SenderGrows
    <3> QED BY <2>4, <3>3
  <2>5. CASE x = m
    <3>1. y = n => \A k : np[m].sq[1].p.key = <<Sink, k>> => Saw(np'[y], k)
      BY <1>9 DEF p
    <3>2. PICK s \in {0, 1} : Shifted(np[m].sq, np'[m].sq, n, s)
      BY <1>6
    <3>3. Between(np[m], np'[y], y, I \cup R)
      BY <2>3, <2>5
    <3>4. Between(np'[m], np'[y], y, I \cup R)
      BY <1>0, <1>4, <1>6, <3>1, <3>2, <3>3, AcknowledgedBetween
    <3> QED BY <2>5, <3>4
  <2>6. CASE x # n /\ x # m
    BY <1>1, <2>3, <2>6
  <2> QED BY <2>4, <2>5, <2>6
<1>15. HistoryInv(I, R)' /\ Alternate(I, R)'
  BY <1>0 DEF J, HistoryInv, Alternate
<1> QED BY <1>2, <1>12, <1>13, <1>14, <1>15 DEF J

-----------------------------------------------------------------------------
(* The theorem.                                                            *)

LEMMA NextJ == JInv /\ [Next]_vars => JInv'
<1> SUFFICES ASSUME JInv, [Next]_vars PROVE JInv'
  OBVIOUS
<1>0. TypeOK /\ TypeOK'
  BY NextTyped DEF JInv
<1>1. CASE Excused
  <2>1. Excused'
    BY <1>0, <1>1, ExcusedStays
  <2> QED BY <1>0, <2>1 DEF JInv
<1>2. CASE ~Excused /\ ~Excused'
  <2>0. PICK I \in SUBSET Nat, R \in SUBSET Nat : J(I, R)
    BY <1>2 DEF JInv
  <2>1. ASSUME \A n \in Node : Inert(np[n], np'[n]), flash' = flash, sink' = sink
        PROVE  J(I, R)'
    BY <1>0, <2>0, <2>1, InertKeepsJ
  <2>2. ASSUME J(I, R)' PROVE JInv'
    BY <1>0, <2>2 DEF JInv
  <2>3. CASE SendInitPacket
    <3>1. \E I1, R1 \in SUBSET Nat : J(I1, R1)'
      BY <1>0, <1>2, <2>0, <2>3, SendInitKeepsJ
    <3> QED BY <1>0, <3>1 DEF JInv
  <2>4. CASE SendResetPacket
    <3>1. \E I1, R1 \in SUBSET Nat : J(I1, R1)'
      BY <1>0, <1>2, <2>0, <2>4, SendResetKeepsJ
    <3> QED BY <1>0, <3>1 DEF JInv
  <2>5. ASSUME NEW n \in Node, PushButton(n) PROVE J(I, R)'
    BY <1>0, <2>1, <2>5, PushButtonEffect DEF PushButton
  <2>6. ASSUME NEW n \in Node, SendSetupPacket(n) PROVE J(I, R)'
    BY <1>0, <1>2, <2>0, <2>6, SetupKeepsJ
  <2>7. ASSUME NEW m \in Node, NEW n \in Node, Deliver(m, n) PROVE J(I, R)'
    BY <1>0, <2>0, <2>7, DeliverKeepsJ
  <2>8. ASSUME NEW n \in Node, GiveUp(n) PROVE J(I, R)'
    BY <1>0, <1>2, <2>0, <2>8, GiveUpKeepsJ
  <2>9. ASSUME NEW n \in Node, SenseEmergency(n) PROVE J(I, R)'
    BY <1>0, <2>1, <2>9, SenseEmergencyEffect DEF SenseEmergency
  <2>10. ASSUME NEW n \in Node, SendFlood(n) PROVE J(I, R)'
    <3>1. UNCHANGED <<flash, sink, alarms>>
      BY <2>10, Zenon DEF SendFlood
    <3> QED BY <1>0, <2>1, <2>10, <3>1, SendFloodEffect
  <2>11. ASSUME NEW n \in Node, PowerLoss(n) PROVE FALSE
    BY <1>0, <1>2, <2>11, PowerLossEffect DEF Excused
  <2>12. ASSUME UNCHANGED vars PROVE J(I, R)'
    BY <2>1, <2>12 DEF vars, Inert
  <2>13. ASSUME NEW n \in Node,
                \/ PushButton(n) \/ SendSetupPacket(n) \/ GiveUp(n) \/ SenseEmergency(n)
                \/ SendFlood(n) \/ PowerLoss(n) \/ \E m \in Node : Deliver(m, n)
         PROVE  JInv'
    <3>1. J(I, R)'
      BY <2>5, <2>6, <2>7, <2>8, <2>9, <2>10, <2>11, <2>13
    <3> QED BY <2>2, <3>1
  <2>14. CASE UNCHANGED vars
    <3>1. J(I, R)'
      BY <2>12, <2>14
    <3> QED BY <2>2, <3>1
  <2> QED BY <2>3, <2>4, <2>13, <2>14 DEF Next
<1>3. CASE Excused'
  BY <1>0, <1>3 DEF JInv
<1> QED BY <1>1, <1>2, <1>3

\* The ASSERT at main_reg_sensor.c:536 ("this packet is only sent once to the
\* node's neighbors") holds in every network, as often as it is reset and
\* initialized again, unless the sink initialized it twice without a reset in
\* between, a node was set up while a flood was on its way, or a frame or power
\* was lost.
THEOREM NoSecondNodeInfo == Spec => []ResetAllowsInit
<1>1. Init => JInv
  BY InitTyped, InitJ DEF JInv
<1>2. JInv /\ [Next]_vars => JInv'
  BY NextJ
<1>3. JInv => ResetAllowsInit
  <2> SUFFICES ASSUME JInv, ~Excused, NEW n \in Node
               PROVE  np[n].stopped # "second NODE_INFO"
    BY DEF ResetAllowsInit, Excused
  <2>1. PICK I \in SUBSET Nat, R \in SUBSET Nat : J(I, R)
    BY DEF JInv
  <2> QED BY <2>1 DEF J, NodesGood, ExitGood
<1> QED BY <1>1, <1>2, <1>3, PTL DEF Spec

-----------------------------------------------------------------------------
(* What the start-up does to the rest of a node's record.                  *)

LEMMA TellRest ==
  ASSUME NEW n \in Node, NEW c \in NodeProperties,
         NEW d, d = UpdateBpnAndSendNodeInfo(c, n)
  PROVE  /\ d.known = c.known /\ d.floods = c.floods
         /\ d.bpn = "path" /\ d.seqno = c.seqno + 1
<1> DEFINE e == [c EXCEPT !.bpn = "path", !.has_sent_node_info = TRUE, !.seqno = @ + 1]
           p == OwnInfo(c, n)
<1>1. d = ReliableBroadcastNs(e, p)
  BY Zenon DEF UpdateBpnAndSendNodeInfo, OwnInfo
<1>2. /\ e.known = c.known /\ e.floods = c.floods
      /\ e.bpn = "path" /\ e.seqno = c.seqno + 1
      /\ DOMAIN e = DOMAIN c
  BY DEF NodeProperties
<1> HIDE DEF e, p
<1>3. d.known = e.known /\ d.floods = e.floods /\ d.bpn = e.bpn /\ d.seqno = e.seqno
  BY <1>1, <1>2 DEF ReliableBroadcastNs, NodeProperties
<1> QED BY <1>2, <1>3

LEMMA BroadcastRest ==
  ASSUME NEW c \in NodeProperties, NEW p, NEW d, d = ReliableBroadcastNs(c, p)
  PROVE  d.known = c.known /\ d.floods = c.floods /\ d.bpn = c.bpn
  BY DEF ReliableBroadcastNs, NodeProperties

LEMMA RestoredRest ==
  ASSUME NEW n \in Node, NEW c \in NodeProperties, NEW d, d = Restored(c, n)
  PROVE  d.floods = c.floods /\ d.seqno = c.seqno /\ (flash[n] # "blank" => d.known = {})
  BY DEF Restored, SetupParse, NodeProperties

\* A packet queued, and remembered, unless there are no neighbours.
Queued(c, u, p) == IF c.ns = {} THEN u ELSE Append(u, [p |-> p, unacked_ns |-> c.ns])
Marked(c, s, key) == IF c.ns = {} THEN s ELSE s \cup {key}

SameMode(c, d) ==
  /\ d.is_reset_mode = c.is_reset_mode /\ d.bpn = c.bpn
  /\ d.has_sent_node_info = c.has_sent_node_info

\* What packet p can do to node n, whose record it turns from c into d: it is
\* ignored; or it is node information, for a node that has told its own or one
\* that has not; or INITIALIZE, for a node that is no exit or one that is; or
\* RESET.
Noted(c, d, p) ==
  /\ p.key \in c.seen \/ (c.is_reset_mode /\ p.type # "INITIALIZE_BEST_PATHS")
  /\ SameMode(c, d) /\ d.known = c.known
  /\ d.sq = c.sq /\ d.seqno = c.seqno /\ d.seen = c.seen \cup {p.key}

Learned(c, d, m, p) ==
  /\ p.type = "NODE_INFO" /\ c.has_sent_node_info
  /\ SameMode(c, d) /\ d.known = c.known \cup {m}
  /\ d.sq = c.sq /\ d.seqno = c.seqno /\ d.seen = c.seen \cup {p.key}

Answered(c, d, n, m, p) ==
  /\ p.type = "NODE_INFO" /\ ~c.has_sent_node_info
  /\ ~d.is_reset_mode /\ d.bpn = "path" /\ d.has_sent_node_info
  /\ d.known = c.known \cup {m} /\ d.seqno = c.seqno + 1
  /\ d.sq = Queued(c, c.sq, OwnInfo(c, n))
  /\ d.seen = Marked(c, c.seen \cup {p.key}, <<n, c.seqno>>)

Initialized(c, d, p) ==
  /\ p.type = "INITIALIZE_BEST_PATHS" /\ p.key \notin c.seen
  /\ ~d.is_exit_node
  /\ ~d.is_reset_mode /\ d.bpn = c.bpn /\ d.has_sent_node_info = c.has_sent_node_info
  /\ d.known = c.known /\ d.seqno = c.seqno
  /\ d.sq = Queued(c, c.sq, p) /\ d.seen = Marked(c, c.seen, p.key)

ExitInitialized(c, d, n, p) ==
  /\ p.type = "INITIALIZE_BEST_PATHS" /\ p.key \notin c.seen
  /\ ~c.has_sent_node_info
  /\ ~d.is_reset_mode /\ d.bpn = "path" /\ d.has_sent_node_info
  /\ d.known = c.known /\ d.seqno = c.seqno + 1
  /\ d.sq = Queued(c, Queued(c, c.sq, p), OwnInfo(c, n))
  /\ d.seen = Marked(c, Marked(c, c.seen, p.key), <<n, c.seqno>>)

WasReset(c, d, n, p) ==
  /\ p.type = "RESET_SYSTEM" /\ p.key \notin c.seen /\ d.is_reset_mode
  /\ flash[n] = "whole" => d.known = {} /\ ~d.has_sent_node_info
  /\ d.seqno = c.seqno
  /\ d.sq = Queued(c, c.sq, p) /\ d.seen = Marked(c, c.seen, p.key)

Kind(c, d, n, m, p) ==
  \/ Noted(c, d, p) \/ Learned(c, d, m, p) \/ Answered(c, d, n, m, p)
  \/ Initialized(c, d, p) \/ ExitInitialized(c, d, n, p) \/ WasReset(c, d, n, p)

LEMMA QueuedEffect ==
  ASSUME NEW c \in NodeProperties, NEW p \in Packet, NEW d, d = ReliableBroadcastNs(c, p)
  PROVE  /\ d \in NodeProperties
         /\ d.ns = c.ns /\ d.is_exit_node = c.is_exit_node
         /\ SameMode(c, d) /\ d.seqno = c.seqno /\ d.known = c.known
         /\ d.floods = c.floods /\ d.stopped = c.stopped
         /\ d.sq = Queued(c, c.sq, p) /\ d.seen = Marked(c, c.seen, p.key)
<1>1. /\ d \in NodeProperties
      /\ d.ns = c.ns /\ d.is_exit_node = c.is_exit_node
      /\ d.is_reset_mode = c.is_reset_mode /\ d.stopped = c.stopped
      /\ d.has_sent_node_info = c.has_sent_node_info /\ d.seqno = c.seqno
      /\ c.ns = {} => d.sq = c.sq /\ d.seen = c.seen
      /\ c.ns # {} => /\ d.sq = Append(c.sq, [p |-> p, unacked_ns |-> c.ns])
                      /\ d.seen = c.seen \cup {p.key}
  BY BroadcastEffect
<1>2. d.known = c.known /\ d.floods = c.floods /\ d.bpn = c.bpn
  BY BroadcastRest
<1> QED BY <1>1, <1>2, Zenon DEF Queued, Marked, SameMode

LEMMA ToldEffect ==
  ASSUME NEW n \in Node, NEW c \in NodeProperties,
         NEW d, d = UpdateBpnAndSendNodeInfo(c, n)
  PROVE  /\ d \in NodeProperties
         /\ d.is_exit_node = c.is_exit_node /\ d.is_reset_mode = c.is_reset_mode
         /\ d.bpn = "path" /\ d.has_sent_node_info
         /\ d.seqno = c.seqno + 1 /\ d.known = c.known /\ d.floods = c.floods
         /\ d.sq = Queued(c, c.sq, OwnInfo(c, n))
         /\ d.seen = Marked(c, c.seen, <<n, c.seqno>>)
<1>1. /\ d \in NodeProperties
      /\ d.is_exit_node = c.is_exit_node /\ d.is_reset_mode = c.is_reset_mode
      /\ d.has_sent_node_info
      /\ c.ns = {} => d.sq = c.sq /\ d.seen = c.seen
      /\ c.ns # {} => /\ d.sq = Append(c.sq, [p |-> OwnInfo(c, n), unacked_ns |-> c.ns])
                      /\ d.seen = c.seen \cup {<<n, c.seqno>>}
  BY TellEffect
<1>2. /\ d.known = c.known /\ d.floods = c.floods
      /\ d.bpn = "path" /\ d.seqno = c.seqno + 1
  BY TellRest
<1> QED BY <1>1, <1>2, Zenon DEF Queued, Marked

LEMMA InfoKinds ==
  ASSUME NEW n \in Node, NEW m \in Node, NEW c \in NodeProperties, NEW p \in Packet,
         p.type = "NODE_INFO", ~c.is_reset_mode,
         NEW d, d = NodeInfo([c EXCEPT !.seen = @ \cup {p.key}], n, m)
  PROVE  d.floods = c.floods /\ (Learned(c, d, m, p) \/ Answered(c, d, n, m, p))
<1> DEFINE t == [c EXCEPT !.seen = c.seen \cup {p.key}, !.known = c.known \cup {m}]
<1>1. t = [[c EXCEPT !.seen = @ \cup {p.key}] EXCEPT !.known = @ \cup {m}]
  BY DEF NodeProperties
<1>2. /\ t \in NodeProperties
      /\ t.ns = c.ns /\ SameMode(c, t) /\ t.known = c.known \cup {m}
      /\ t.floods = c.floods /\ t.seqno = c.seqno
      /\ t.sq = c.sq /\ t.seen = c.seen \cup {p.key}
  BY DEF NodeProperties, Packet, Key, SameMode
<1>3. c.has_sent_node_info = [c EXCEPT !.seen = @ \cup {p.key}].has_sent_node_info
  BY DEF NodeProperties
<1> HIDE DEF t
<1>4. CASE c.has_sent_node_info
  <2>1. d = t
    BY <1>1, <1>3, <1>4, Zenon DEF NodeInfo
  <2> QED BY <1>2, <1>4, <2>1 DEF Learned
<1>5. CASE ~c.has_sent_node_info
  <2>1. d = UpdateBpnAndSendNodeInfo(t, n)
    BY <1>1, <1>3, <1>5, Zenon DEF NodeInfo
  <2>2. /\ d.is_reset_mode = t.is_reset_mode
        /\ d.bpn = "path" /\ d.has_sent_node_info
        /\ d.seqno = t.seqno + 1 /\ d.known = t.known /\ d.floods = t.floods
        /\ d.sq = Queued(t, t.sq, OwnInfo(t, n))
        /\ d.seen = Marked(t, t.seen, <<n, t.seqno>>)
    <3>1. t \in NodeProperties
      BY <1>2
    <3> QED BY <2>1, <3>1, ToldEffect
  <2>3. /\ Queued(t, t.sq, OwnInfo(t, n)) = Queued(c, c.sq, OwnInfo(c, n))
        /\ Marked(t, t.seen, <<n, t.seqno>>) = Marked(c, c.seen \cup {p.key}, <<n, c.seqno>>)
    BY <1>2 DEF Queued, Marked, OwnInfo
  <2> QED BY <1>2, <1>5, <2>2, <2>3 DEF Answered, SameMode
<1> QED BY <1>4, <1>5

LEMMA InitializeKinds ==
  ASSUME NEW n \in Node, NEW c \in NodeProperties, NEW p \in Packet,
         p.type = "INITIALIZE_BEST_PATHS", p.key \notin c.seen,
         NEW d, d = Flooded(c, n, p), d.stopped = "no"
  PROVE  d.floods = c.floods /\ (Initialized(c, d, p) \/ ExitInitialized(c, d, n, p))
<1>1. PICK e : e = ReliableBroadcastNs(c, p)
  OBVIOUS
<1>2. /\ e \in NodeProperties
      /\ e.ns = c.ns /\ e.is_exit_node = c.is_exit_node
      /\ SameMode(c, e) /\ e.seqno = c.seqno /\ e.known = c.known
      /\ e.floods = c.floods
      /\ e.sq = Queued(c, c.sq, p) /\ e.seen = Marked(c, c.seen, p.key)
  BY <1>1, QueuedEffect
<1>3. d = InitializeBestPath(e, n)
  BY <1>1 DEF Flooded
<1> DEFINE s == [e EXCEPT !.is_reset_mode = FALSE]
<1>4. /\ s \in NodeProperties
      /\ s.ns = c.ns /\ s.is_exit_node = e.is_exit_node
      /\ ~s.is_reset_mode /\ s.bpn = c.bpn /\ s.has_sent_node_info = c.has_sent_node_info
      /\ s.seqno = c.seqno /\ s.known = c.known /\ s.floods = c.floods
      /\ s.sq = Queued(c, c.sq, p) /\ s.seen = Marked(c, c.seen, p.key)
      /\ [s EXCEPT !.stopped = "second NODE_INFO"].stopped = "second NODE_INFO"
  BY <1>2 DEF NodeProperties, SameMode
<1>5. e.has_sent_node_info = c.has_sent_node_info
  BY <1>2 DEF SameMode
<1> HIDE DEF s
<1>6. CASE ~e.is_exit_node
  <2>1. d = s
    BY <1>3, <1>6, Zenon DEF InitializeBestPath, s
  <2> QED BY <1>4, <1>6, <2>1 DEF Initialized
<1>7. CASE e.is_exit_node /\ e.has_sent_node_info
  <2>1. d = [s EXCEPT !.stopped = "second NODE_INFO"]
    BY <1>3, <1>7, Zenon DEF InitializeBestPath, s
  <2> QED BY <1>4, <2>1
<1>8. CASE e.is_exit_node /\ ~e.has_sent_node_info
  <2>1. d = UpdateBpnAndSendNodeInfo(s, n)
    BY <1>3, <1>8, Zenon DEF InitializeBestPath, s
  <2>2. /\ d.is_reset_mode = s.is_reset_mode
        /\ d.bpn = "path" /\ d.has_sent_node_info
        /\ d.seqno = s.seqno + 1 /\ d.known = s.known /\ d.floods = s.floods
        /\ d.sq = Queued(s, s.sq, OwnInfo(s, n))
        /\ d.seen = Marked(s, s.seen, <<n, s.seqno>>)
    BY <1>4, <2>1, ToldEffect
  <2>3. /\ Queued(s, s.sq, OwnInfo(s, n)) = Queued(c, s.sq, OwnInfo(c, n))
        /\ Marked(s, s.seen, <<n, s.seqno>>) = Marked(c, s.seen, <<n, c.seqno>>)
    BY <1>4 DEF Queued, Marked, OwnInfo
  <2> QED BY <1>4, <1>5, <1>8, <2>2, <2>3 DEF ExitInitialized
<1> QED BY <1>6, <1>7, <1>8

LEMMA ResetKinds ==
  ASSUME NEW n \in Node, NEW c \in NodeProperties, NEW p \in Packet,
         flash[n] \in {"blank", "torn", "whole"},
         p.type = "RESET_SYSTEM", p.key \notin c.seen, NEW d, d = Flooded(c, n, p)
  PROVE  d.floods = c.floods /\ WasReset(c, d, n, p)
<1>1. PICK e : e = ReliableBroadcastNs(c, p)
  OBVIOUS
<1>2. /\ e \in NodeProperties
      /\ e.seqno = c.seqno /\ e.floods = c.floods
      /\ e.sq = Queued(c, c.sq, p) /\ e.seen = Marked(c, c.seen, p.key)
  BY <1>1, QueuedEffect
<1>3. PICK r : r = Restored(e, n)
  OBVIOUS
<1>4. /\ r \in NodeProperties
      /\ r.sq = e.sq /\ r.seen = e.seen
      /\ flash[n] # "blank" => ~r.has_sent_node_info
  BY <1>2, <1>3, RestoredEffect
<1>5. r.floods = e.floods /\ r.seqno = e.seqno /\ (flash[n] # "blank" => r.known = {})
  BY <1>2, <1>3, RestoredRest
<1>6. d = [r EXCEPT !.is_reset_mode = TRUE]
  BY <1>1, <1>3 DEF Flooded, ResetSystem
<1>7. /\ d.sq = r.sq /\ d.seen = r.seen /\ d.has_sent_node_info = r.has_sent_node_info
      /\ d.floods = r.floods /\ d.seqno = r.seqno /\ d.known = r.known /\ d.is_reset_mode
  BY <1>4, <1>6 DEF NodeProperties
<1> QED BY <1>2, <1>4, <1>5, <1>7 DEF WasReset

LEMMA Kinds ==
  ASSUME NEW n \in Node, NEW m \in Node \cup {Sink}, NEW c \in NodeProperties,
         NEW p \in Packet, p.type = "NODE_INFO" => m \in Node,
         flash[n] \in {"blank", "torn", "whole"},
         NEW d, d = Received(c, n, m, p), d.stopped = "no"
  PROVE  /\ d.floods = c.floods
         /\ Kind(c, d, n, m, p)
<1>1. CASE p.key \in c.seen
  <2>1. d = c
    BY <1>1, Zenon DEF Received
  <2> QED BY <1>1, <2>1 DEF Kind, Noted, SameMode
<1>2. CASE p.key \notin c.seen /\ c.is_reset_mode /\ p.type # "INITIALIZE_BEST_PATHS"
  <2>1. d = [c EXCEPT !.seen = @ \cup {p.key}]
    BY <1>2, Zenon DEF Received
  <2>2. /\ SameMode(c, d) /\ d.known = c.known /\ d.floods = c.floods
        /\ d.sq = c.sq /\ d.seqno = c.seqno /\ d.seen = c.seen \cup {p.key}
    BY <2>1 DEF SameMode, NodeProperties
  <2> QED BY <1>2, <2>2 DEF Kind, Noted
<1>3. CASE p.key \notin c.seen /\ ~c.is_reset_mode /\ p.type = "NODE_INFO"
  <2>1. d = NodeInfo([c EXCEPT !.seen = @ \cup {p.key}], n, m) /\ m \in Node
    BY <1>3, Zenon DEF Received
  <2> QED BY <1>3, <2>1, InfoKinds DEF Kind
<1>4. CASE p.key \notin c.seen /\ p.type = "INITIALIZE_BEST_PATHS"
  <2>1. d = Flooded(c, n, p)
    BY <1>4, Zenon DEF Received
  <2> QED BY <1>4, <2>1, InitializeKinds DEF Kind
<1>5. CASE p.key \notin c.seen /\ ~c.is_reset_mode /\ p.type = "RESET_SYSTEM"
  <2>1. d = Flooded(c, n, p)
    BY <1>5, Zenon DEF Received
  <2> QED BY <1>5, <2>1, ResetKinds DEF Kind
<1>6. p.type \in {"INITIALIZE_BEST_PATHS", "RESET_SYSTEM", "NODE_INFO"}
  BY DEF Packet
<1> QED BY <1>1, <1>2, <1>3, <1>4, <1>5, <1>6

\* What node m told of itself, or is to tell, has a number of its own, and its
\* next number is in nobody's memory.
OwnKeys(c, m) ==
  \A i \in 1..Len(c.sq) : IsOwnInfo(c.sq[i].p) =>
    /\ \E j \in Nat : j < c.seqno /\ c.sq[i].p.key = <<m, j>>
    /\ \A h \in 1..(i - 1) : IsOwnInfo(c.sq[h].p) => c.sq[h].p.key # c.sq[i].p.key

KeysOf(c, e, m) ==
  /\ \A j : <<m, j>> \in e.seen => j < c.seqno
  /\ \A j : <<m, j>> \in e.floods =>
       /\ j < c.seqno
       /\ \A i \in 1..Len(c.sq) : IsOwnInfo(c.sq[i].p) => c.sq[i].p.key # <<m, j>>

\* The queue of d is that of c and more, what n tells of itself last.
More(c, d, n) ==
  /\ Len(c.sq) \in Nat /\ Len(d.sq) \in Nat /\ Len(c.sq) <= Len(d.sq)
  /\ c.seqno \in Nat /\ d.seqno \in Nat /\ c.seqno <= d.seqno
  /\ \A i \in 1..Len(c.sq) : d.sq[i] = c.sq[i]
  /\ \A i \in (Len(c.sq) + 1)..Len(d.sq) : IsOwnInfo(d.sq[i].p) =>
       i = Len(d.sq) /\ d.sq[i].p.key = <<n, c.seqno>> /\ c.seqno < d.seqno

\* What it tells is last, and for all its neighbours.
TellsLast(c, d, n) ==
  LET l == Len(d.sq)
  IN  /\ l \in 1..Len(d.sq) /\ IsOwnInfo(d.sq[l].p)
      /\ d.sq[l].p.key = <<n, c.seqno>> /\ d.sq[l].unacked_ns = c.ns

\* The memory of d is that of c with p, and what n tells of itself.
Remembered(c, d, n, p) ==
  /\ c.seen \subseteq d.seen
  /\ \A key \in d.seen : \/ key \in c.seen \/ key = p.key
                         \/ key = <<n, c.seqno>> /\ c.seqno < d.seqno

LEMMA OneQueued ==
  ASSUME NEW n \in Node, NEW c \in NodeProperties, NEW p \in Packet, NEW d,
         d.sq = Queued(c, c.sq, p), d.seqno \in Nat, c.seqno <= d.seqno,
         \/ ~IsOwnInfo(p)
         \/ IsOwnInfo(p) /\ p.key = <<n, c.seqno>> /\ c.seqno < d.seqno
  PROVE  /\ More(c, d, n)
         /\ c.ns # {} /\ IsOwnInfo(p) => TellsLast(c, d, n)
<1>1. c.sq \in Seq(QueuedPacket) /\ Len(c.sq) \in Nat /\ c.seqno \in Nat
  BY LenProperties DEF NodeProperties
<1>2. CASE c.ns = {}
  <2>1. d.sq = c.sq
    BY <1>2 DEF Queued
  <2> QED BY <1>1, <1>2, <2>1 DEF More
<1>3. CASE c.ns # {}
  <2> DEFINE x == [p |-> p, unacked_ns |-> c.ns]
             v == d.sq
             u == c.sq
  <2>1. x \in QueuedPacket /\ u \in Seq(QueuedPacket) /\ v = Append(u, x)
    BY <1>3, EntryTyped DEF Queued
  <2>2. x.p = p /\ x.unacked_ns = c.ns
    OBVIOUS
  <2> HIDE DEF x, v, u
  <2>3. /\ Len(v) = Len(u) + 1 /\ Len(u) \in Nat
        /\ \A i \in 1..Len(u) : v[i] = u[i]
        /\ v[Len(u) + 1] = x
    BY <2>1, AppendedEntry
  <2>4. \A i \in (Len(u) + 1)..Len(v) : i = Len(v) /\ v[i] = x
    BY <2>3
  <2>5. /\ Len(v) \in Nat /\ Len(u) <= Len(v) /\ Len(v) \in 1..Len(v) /\ v[Len(v)] = x
    BY <2>3
  <2>6. More(c, d, n)
    BY <1>1, <2>2, <2>3, <2>4, <2>5 DEF More, v, u
  <2>7. IsOwnInfo(p) => TellsLast(c, d, n)
    BY <2>2, <2>5 DEF TellsLast, v
  <2> QED BY <2>6, <2>7
<1> QED BY <1>2, <1>3

\* A flood's packet, and what the exit tells behind it.
LEMMA TwoQueued ==
  ASSUME NEW n \in Node, NEW c \in NodeProperties, NEW p \in Packet, ~IsOwnInfo(p), NEW d,
         d.sq = Queued(c, Queued(c, c.sq, p), OwnInfo(c, n)),
         d.seqno \in Nat, c.seqno < d.seqno
  PROVE  More(c, d, n) /\ (c.ns # {} => TellsLast(c, d, n))
<1>1. c.sq \in Seq(QueuedPacket) /\ Len(c.sq) \in Nat /\ c.seqno \in Nat
  BY LenProperties DEF NodeProperties
<1>2. CASE c.ns = {}
  <2>1. d.sq = c.sq
    BY <1>2 DEF Queued
  <2> QED BY <1>1, <1>2, <2>1 DEF More
<1>3. CASE c.ns # {}
  <2> DEFINE o == OwnInfo(c, n)
             x == [p |-> p, unacked_ns |-> c.ns]
             y == [p |-> o, unacked_ns |-> c.ns]
             u == c.sq
             w == Append(u, x)
             v == d.sq
  <2>1. o \in Packet /\ IsOwnInfo(o) /\ o.key = <<n, c.seqno>>
    BY NodeLifecycleAssumption DEF OwnInfo, Packet, NodeProperties, IsOwnInfo
  <2> HIDE DEF o
  <2>2. x \in QueuedPacket /\ y \in QueuedPacket /\ u \in Seq(QueuedPacket) /\ v = Append(w, y)
    BY <1>3, <2>1, EntryTyped DEF Queued, o
  <2>3. x.p = p /\ y.p = o /\ y.unacked_ns = c.ns /\ w = Append(u, x)
    OBVIOUS
  <2> HIDE DEF x, y, v, u, w
  <2>4. w \in Seq(QueuedPacket)
    BY <2>2, <2>3
  <2>5. /\ Len(w) = Len(u) + 1 /\ Len(u) \in Nat
        /\ \A i \in 1..Len(u) : w[i] = u[i]
        /\ w[Len(u) + 1] = x
    BY <2>2, <2>3, AppendedEntry
  <2>6. /\ Len(v) = Len(w) + 1
        /\ \A i \in 1..Len(w) : v[i] = w[i]
        /\ v[Len(w) + 1] = y
    BY <2>2, <2>4, AppendedEntry
  <2>7. \A i \in (Len(u) + 1)..Len(v) : v[i] = x \/ (i = Len(v) /\ v[i] = y)
    <3>1. ASSUME NEW i \in (Len(u) + 1)..Len(v) PROVE i = Len(u) + 1 \/ i = Len(v)
      BY <2>5, <2>6
    <3> QED BY <2>5, <2>6, <3>1
  <2>8. \A i \in 1..Len(u) : v[i] = u[i]
    BY <2>5, <2>6
  <2>9. /\ Len(v) \in Nat /\ Len(u) <= Len(v) /\ Len(v) \in 1..Len(v) /\ v[Len(v)] = y
    BY <2>5, <2>6
  <2>10. More(c, d, n)
    BY <1>1, <2>1, <2>3, <2>5, <2>7, <2>8, <2>9 DEF More, v, u
  <2>11. TellsLast(c, d, n)
    BY <2>1, <2>3, <2>9 DEF TellsLast, v
  <2> QED BY <2>10, <2>11
<1> QED BY <1>2, <1>3

\* What all kinds have in common.
LEMMA KindEffect ==
  ASSUME NEW n \in Node, NEW m, NEW c \in NodeProperties, NEW p \in Packet,
         NEW d, Kind(c, d, n, m, p)
  PROVE  /\ More(c, d, n) /\ Remembered(c, d, n, p)
         /\ c.ns # {} => p.key \in d.seen
         /\ c.ns # {} /\ (Answered(c, d, n, m, p) \/ ExitInitialized(c, d, n, p)) =>
              TellsLast(c, d, n)
<1>1. c.sq \in Seq(QueuedPacket) /\ Len(c.sq) \in Nat /\ c.seqno \in Nat
  BY LenProperties DEF NodeProperties
<1> DEFINE o == OwnInfo(c, n)
<1>2. o \in Packet /\ IsOwnInfo(o) /\ o.key = <<n, c.seqno>>
  BY NodeLifecycleAssumption DEF OwnInfo, Packet, NodeProperties, IsOwnInfo
<1>3. CASE Noted(c, d, p) \/ Learned(c, d, m, p)
  <2>1. d.sq = c.sq /\ d.seqno = c.seqno /\ d.seen = c.seen \cup {p.key}
    BY <1>3 DEF Noted, Learned
  <2>2. ~Answered(c, d, n, m, p) /\ ~ExitInitialized(c, d, n, p)
    BY <1>1, <2>1 DEF Answered, ExitInitialized
  <2>3. More(c, d, n)
    BY <1>1, <2>1 DEF More
  <2> QED BY <2>1, <2>2, <2>3 DEF Remembered
<1>4. CASE Initialized(c, d, p) \/ WasReset(c, d, n, p)
  <2>1. /\ d.sq = Queued(c, c.sq, p) /\ d.seqno = c.seqno
        /\ d.seen = Marked(c, c.seen, p.key) /\ ~IsOwnInfo(p)
    BY <1>4 DEF Initialized, WasReset, IsOwnInfo
  <2>2. ~Answered(c, d, n, m, p) /\ ~ExitInitialized(c, d, n, p)
    BY <1>1, <2>1 DEF Answered, ExitInitialized
  <2>3. More(c, d, n)
    BY <1>1, <2>1, OneQueued
  <2> QED BY <2>1, <2>2, <2>3 DEF Remembered, Marked
<1>5. CASE Answered(c, d, n, m, p)
  <2>1. /\ d.sq = Queued(c, c.sq, o) /\ d.seqno = c.seqno + 1
        /\ d.seen = Marked(c, c.seen \cup {p.key}, <<n, c.seqno>>)
    BY <1>5 DEF Answered
  <2>2. d.seqno \in Nat /\ c.seqno < d.seqno /\ c.seqno <= d.seqno
    BY <1>1, <2>1
  <2> HIDE DEF o
  <2>3. More(c, d, n) /\ (c.ns # {} => TellsLast(c, d, n))
    BY <1>2, <2>1, <2>2, OneQueued
  <2> QED BY <2>1, <2>2, <2>3 DEF Remembered, Marked
<1>6. CASE ExitInitialized(c, d, n, p)
  <2>1. /\ d.sq = Queued(c, Queued(c, c.sq, p), OwnInfo(c, n)) /\ d.seqno = c.seqno + 1
        /\ d.seen = Marked(c, Marked(c, c.seen, p.key), <<n, c.seqno>>)
        /\ ~IsOwnInfo(p)
    BY <1>6 DEF ExitInitialized, IsOwnInfo
  <2>2. d.seqno \in Nat /\ c.seqno < d.seqno
    BY <1>1, <2>1
  <2>3. More(c, d, n) /\ (c.ns # {} => TellsLast(c, d, n))
    BY <2>1, <2>2, TwoQueued
  <2> QED BY <2>1, <2>2, <2>3 DEF Remembered, Marked
<1> QED BY <1>3, <1>4, <1>5, <1>6 DEF Kind

-----------------------------------------------------------------------------
(* The numbers of what the nodes tell.                                     *)

LEMMA OwnKeysGrow ==
  ASSUME NEW n, NEW c, NEW d, OwnKeys(c, n), More(c, d, n)
  PROVE  OwnKeys(d, n)
<1> DEFINE l == Len(c.sq)
           L == Len(d.sq)
           s == c.seqno
           t == d.seqno
           u == c.sq
           v == d.sq
<1>1. /\ l \in Nat /\ L \in Nat /\ l <= L /\ s \in Nat /\ t \in Nat /\ s <= t
      /\ \A i \in 1..l : v[i] = u[i]
      /\ \A i \in (l + 1)..L : IsOwnInfo(v[i].p) =>
           i = L /\ v[i].p.key = <<n, s>> /\ s < t
  BY DEF More
<1>2. \A i \in 1..l : IsOwnInfo(u[i].p) =>
        /\ \E j \in Nat : j < s /\ u[i].p.key = <<n, j>>
        /\ \A h \in 1..(i - 1) : IsOwnInfo(u[h].p) => u[h].p.key # u[i].p.key
  BY DEF OwnKeys
<1> HIDE DEF l, L, s, t, u, v
<1>3. ASSUME NEW i \in 1..L, IsOwnInfo(v[i].p)
      PROVE  /\ \E j \in Nat : j < t /\ v[i].p.key = <<n, j>>
             /\ \A h \in 1..(i - 1) : IsOwnInfo(v[h].p) => v[h].p.key # v[i].p.key
  <2>1. CASE i \in 1..l
    <3>1. \A h \in 1..(i - 1) : h \in 1..l
      BY <1>1, <2>1
    <3>2. v[i] = u[i] /\ \A h \in 1..(i - 1) : v[h] = u[h]
      BY <1>1, <2>1, <3>1
    <3>3. PICK j \in Nat : j < s /\ u[i].p.key = <<n, j>>
      BY <1>2, <1>3, <2>1, <3>2
    <3>4. j < t
      BY <1>1, <3>3
    <3>5. \A h \in 1..(i - 1) : IsOwnInfo(u[h].p) => u[h].p.key # u[i].p.key
      BY <1>2, <1>3, <2>1, <3>2
    <3> QED BY <3>2, <3>3, <3>4, <3>5
  <2>2. CASE i \notin 1..l
    <3>1. i \in (l + 1)..L
      BY <1>1, <2>2
    <3>2. i = L /\ v[i].p.key = <<n, s>> /\ s < t
      BY <1>1, <1>3, <3>1
    <3>3. ASSUME NEW h \in 1..(i - 1), IsOwnInfo(v[h].p) PROVE v[h].p.key # v[i].p.key
      <4>1. CASE h \in 1..l
        <5>1. v[h] = u[h]
          BY <1>1, <4>1
        <5>2. PICK j \in Nat : j < s /\ u[h].p.key = <<n, j>>
          BY <1>2, <3>3, <4>1, <5>1
        <5>3. j # s
          BY <1>1, <5>2
        <5> QED BY <3>2, <5>1, <5>2, <5>3
      <4>2. CASE h \notin 1..l
        <5>1. h \in (l + 1)..L /\ h # L
          BY <1>1, <3>2, <4>2
        <5> QED BY <1>1, <3>3, <5>1
      <4> QED BY <4>1, <4>2
    <3> QED BY <1>1, <3>2, <3>3
  <2> QED BY <2>1, <2>2
<1> QED BY <1>3 DEF OwnKeys, L, t, v

LEMMA KeysOfSender ==
  ASSUME NEW m, NEW c, NEW d, NEW e, OwnKeys(c, m), KeysOf(c, e, m), More(c, d, m),
         \A j : <<m, j>> \in e.seen => j \in Nat, \A j : <<m, j>> \in e.floods => j \in Nat
  PROVE  KeysOf(d, e, m)
<1> DEFINE l == Len(c.sq)
           L == Len(d.sq)
           s == c.seqno
           t == d.seqno
           u == c.sq
           v == d.sq
<1>1. /\ l \in Nat /\ L \in Nat /\ l <= L /\ s \in Nat /\ t \in Nat /\ s <= t
      /\ \A i \in 1..l : v[i] = u[i]
      /\ \A i \in (l + 1)..L : IsOwnInfo(v[i].p) =>
           i = L /\ v[i].p.key = <<m, s>> /\ s < t
  BY DEF More
<1>2. /\ \A j : <<m, j>> \in e.seen => j < s
      /\ \A j : <<m, j>> \in e.floods =>
           j < s /\ \A i \in 1..l : IsOwnInfo(u[i].p) => u[i].p.key # <<m, j>>
  BY DEF KeysOf
<1> HIDE DEF l, L, s, t, u, v
<1>3. ASSUME NEW j, <<m, j>> \in e.seen PROVE j < t
  <2>1. j \in Nat /\ j < s
    BY <1>2, <1>3
  <2> QED BY <1>1, <2>1
<1>4. ASSUME NEW j, <<m, j>> \in e.floods
      PROVE  j < t /\ \A i \in 1..L : IsOwnInfo(v[i].p) => v[i].p.key # <<m, j>>
  <2>1. j \in Nat /\ j < s
    BY <1>2, <1>4
  <2>2. j < t /\ j # s
    BY <1>1, <2>1
  <2>3. ASSUME NEW i \in 1..L, IsOwnInfo(v[i].p) PROVE v[i].p.key # <<m, j>>
    <3>1. CASE i \in 1..l
      BY <1>1, <1>2, <1>4, <2>3, <3>1
    <3>2. CASE i \notin 1..l
      <4>1. i \in (l + 1)..L
        BY <1>1, <3>2
      <4>2. v[i].p.key = <<m, s>>
        BY <1>1, <2>3, <4>1
      <4> QED BY <2>2, <4>2
    <3> QED BY <3>1, <3>2
  <2> QED BY <2>2, <2>3
<1> QED BY <1>3, <1>4 DEF KeysOf, L, t, v

LEMMA KeysOfReceiver ==
  ASSUME NEW m, NEW c, NEW e, NEW f, KeysOf(c, e, m),
         \A j : <<m, j>> \in f.seen => <<m, j>> \in e.seen \/ j < c.seqno,
         f.floods \subseteq e.floods
  PROVE  KeysOf(c, f, m)
  BY DEF KeysOf

\* Less in the queue.
Fewer(c, d, s) ==
  /\ Len(d.sq) = Len(c.sq) - s
  /\ \A i \in 1..Len(d.sq) : d.sq[i].p = c.sq[i + s].p

LEMMA KeysShift ==
  ASSUME NEW m, NEW c \in NodeProperties, NEW d, NEW s \in {0, 1}, Fewer(c, d, s),
         d.seqno = c.seqno
  PROVE  /\ OwnKeys(c, m) => OwnKeys(d, m)
         /\ \A e : KeysOf(c, e, m) => KeysOf(d, e, m)
<1> DEFINE l == Len(c.sq)
           L == Len(d.sq)
           u == c.sq
           v == d.sq
<1>1. l \in Nat /\ L = l - s /\ \A i \in 1..L : v[i].p = u[i + s].p
  BY LenProperties DEF NodeProperties, Fewer
<1> HIDE DEF l, L, u, v
<1>2. \A i \in 1..L : i + s \in 1..l /\ \A h \in 1..(i - 1) : h + s \in 1..(i + s - 1) /\ h \in 1..L
  BY <1>1
<1>3. ASSUME OwnKeys(c, m) PROVE OwnKeys(d, m)
  <2>1. \A i \in 1..l : IsOwnInfo(u[i].p) =>
          /\ \E j \in Nat : j < c.seqno /\ u[i].p.key = <<m, j>>
          /\ \A h \in 1..(i - 1) : IsOwnInfo(u[h].p) => u[h].p.key # u[i].p.key
    BY <1>3 DEF OwnKeys, l, u
  <2>2. ASSUME NEW i \in 1..L, IsOwnInfo(v[i].p)
        PROVE  /\ \E j \in Nat : j < d.seqno /\ v[i].p.key = <<m, j>>
               /\ \A h \in 1..(i - 1) : IsOwnInfo(v[h].p) => v[h].p.key # v[i].p.key
    <3>1. i + s \in 1..l /\ v[i].p = u[i + s].p
      BY <1>1, <1>2
    <3>2. \A h \in 1..(i - 1) : h + s \in 1..(i + s - 1) /\ v[h].p = u[h + s].p
      BY <1>1, <1>2
    <3> QED BY <2>1, <2>2, <3>1, <3>2
  <2> QED BY <2>2 DEF OwnKeys, L, v
<1>4. ASSUME NEW e, KeysOf(c, e, m) PROVE KeysOf(d, e, m)
  BY <1>1, <1>2, <1>4 DEF KeysOf, l, L, u, v
<1> QED BY <1>3, <1>4

-----------------------------------------------------------------------------
(* What a node has told, and to whom.                                      *)

\* c has seen all of the sink's packets that e has.
SawAll(c, e) == \A k : Saw(e, k) => Saw(c, k)

Heard(c) == \E k : Saw(c, k)

\* What the sender of the record c tells of itself waits at place i for n, and
\* every packet of the sink that n has not seen waits before it.
WaitsAt(c, e, n, i) ==
  /\ n \in c.sq[i].unacked_ns /\ IsOwnInfo(c.sq[i].p) /\ c.sq[i].p.key \notin e.seen
  /\ \A k : Saw(c, k) => Saw(e, k) \/ \E h \in 1..(i - 1) : Carries(c, h, n, k)

\* If m has told its node information, and n has seen no packet of the sink that
\* m has not: then n knows it, or will.
Tells(c, e, m, n) ==
  c.has_sent_node_info /\ SawAll(c, e) =>
    \/ m \in e.known /\ SawAll(e, c)
    \/ \E i \in 1..Len(c.sq) : WaitsAt(c, e, n, i)

\* A node has told nothing before it heard of the sink, and an exit has told
\* after it did; who knows of another has told; and all is forgotten by a reset.
Started(c) ==
  /\ c.has_sent_node_info => c.bpn = "path" /\ ~c.is_reset_mode /\ Heard(c)
  /\ c.known # {} => c.has_sent_node_info
  /\ c.is_exit_node /\ ~c.is_reset_mode /\ Heard(c) => c.has_sent_node_info
  /\ c.known \subseteq {m \in c.ns : flash[m] = "whole"}

\* The packets of the sink have its name.
SinkKey(p) ==
  /\ p.type # "NODE_INFO" => \E k : p.key = <<Sink, k>>
  /\ p.type = "NODE_INFO" => p.key[1] # Sink

LEMMA StartedKept ==
  ASSUME NEW n \in Node, NEW m, NEW c \in NodeProperties, NEW p \in Packet, NEW d,
         c.ns # {}, d.ns = c.ns, d.is_exit_node = c.is_exit_node, flash[n] = "whole",
         Kind(c, d, n, m, p), SinkKey(p), Started(c),
         p.type = "NODE_INFO" => Heard(c) /\ m \in c.ns /\ flash[m] = "whole"
  PROVE  Started(d)
<1>1. Remembered(c, d, n, p) /\ p.key \in d.seen
  BY KindEffect
<1>2. Heard(c) => Heard(d)
  BY <1>1 DEF Heard, Saw, Remembered
<1>3. p.type # "NODE_INFO" => Heard(d)
  BY <1>1 DEF Heard, Saw, SinkKey
<1>4. CASE Noted(c, d, p)
  <2>1. /\ SameMode(c, d) /\ d.known = c.known /\ d.seen = c.seen \cup {p.key}
        /\ p.key \in c.seen \/ c.is_reset_mode
    BY <1>4 DEF Noted
  <2>2. ~d.is_reset_mode => (Heard(d) => Heard(c))
    BY <2>1 DEF Heard, Saw, SameMode
  <2> QED BY <1>2, <2>1, <2>2 DEF Started, SameMode
<1>5. CASE Learned(c, d, m, p)
  <2>1. /\ p.type = "NODE_INFO" /\ c.has_sent_node_info /\ SameMode(c, d)
        /\ d.known = c.known \cup {m}
    BY <1>5 DEF Learned
  <2> QED BY <1>2, <2>1 DEF Started, SameMode
<1>6. CASE Answered(c, d, n, m, p)
  <2>1. /\ p.type = "NODE_INFO" /\ ~d.is_reset_mode /\ d.bpn = "path" /\ d.has_sent_node_info
        /\ d.known = c.known \cup {m}
    BY <1>6 DEF Answered
  <2> QED BY <1>2, <2>1 DEF Started
<1>7. CASE Initialized(c, d, p)
  <2>1. /\ p.type # "NODE_INFO" /\ ~d.is_exit_node /\ ~d.is_reset_mode /\ d.bpn = c.bpn
        /\ d.has_sent_node_info = c.has_sent_node_info /\ d.known = c.known
    BY <1>7 DEF Initialized
  <2> QED BY <1>3, <2>1 DEF Started
<1>8. CASE ExitInitialized(c, d, n, p)
  <2>1. /\ p.type # "NODE_INFO" /\ ~d.is_reset_mode /\ d.bpn = "path"
        /\ d.has_sent_node_info /\ d.known = c.known
    BY <1>8 DEF ExitInitialized
  <2> QED BY <1>3, <2>1 DEF Started
<1>9. CASE WasReset(c, d, n, p)
  <2>1. d.is_reset_mode /\ d.known = {} /\ ~d.has_sent_node_info
    BY <1>9 DEF WasReset
  <2> QED BY <2>1 DEF Started
<1> QED BY <1>4, <1>5, <1>6, <1>7, <1>8, <1>9 DEF Kind

\* The neighbour n of m gets a packet that is not what m tells of itself.
LEMMA TellsReceiver ==
  ASSUME NEW m \in Node, NEW n \in Node, m # n, NEW x, NEW c,
         NEW e \in NodeProperties, NEW p \in Packet, NEW f, e.ns # {},
         Kind(e, f, n, x, p), SinkKey(p), OwnKeys(c, m), Tells(c, e, m, n),
         p.key[1] # m
  PROVE  Tells(c, f, m, n)
<1> SUFFICES ASSUME c.has_sent_node_info, SawAll(c, f)
             PROVE  \/ m \in f.known /\ SawAll(f, c)
                    \/ \E i \in 1..Len(c.sq) : WaitsAt(c, f, n, i)
  BY DEF Tells
<1>1. Remembered(e, f, n, p) /\ p.key \in f.seen
  BY KindEffect
<1>2. \A k : Saw(e, k) => Saw(f, k)
  BY <1>1 DEF Remembered, Saw
<1>3. SawAll(c, e)
  BY <1>2 DEF SawAll
<1>4. CASE m \in e.known /\ SawAll(e, c)
  <2>1. \A k : Saw(f, k) => Saw(e, k)
    BY <1>4 DEF SawAll
  <2>2. ~WasReset(e, f, n, p)
    BY <1>1, <2>1 DEF WasReset, SinkKey, Saw
  <2>3. m \in f.known
    BY <1>4, <2>2 DEF Kind, Noted, Learned, Answered, Initialized, ExitInitialized
  <2> QED BY <1>2, <1>4, <2>3 DEF SawAll
<1>5. CASE \E i \in 1..Len(c.sq) : WaitsAt(c, e, n, i)
  <2>1. PICK i \in 1..Len(c.sq) : WaitsAt(c, e, n, i)
    BY <1>5
  <2>2. c.sq[i].p.key \notin e.seen /\ c.sq[i].p.key[1] = m
    BY <2>1 DEF WaitsAt, OwnKeys
  <2>3. c.sq[i].p.key \notin f.seen
    BY <1>1, <2>2 DEF Remembered
  <2>4. WaitsAt(c, f, n, i)
    BY <1>2, <2>1, <2>3 DEF WaitsAt
  <2> QED BY <2>4
<1> QED BY <1>3, <1>4, <1>5 DEF Tells

\* m itself gets a packet.
LEMMA TellsSender ==
  ASSUME NEW m \in Node, NEW n \in Node, NEW x, NEW c \in NodeProperties, NEW e,
         NEW p \in Packet, NEW d, n \in c.ns, flash[m] = "whole",
         Kind(c, d, m, x, p), SinkKey(p), Started(c), KeysOf(c, e, m), Tells(c, e, m, n),
         p.type = "INITIALIZE_BEST_PATHS" /\ p.key \notin c.seen => ~c.has_sent_node_info,
         Forwarded(d, e, n)
  PROVE  Tells(d, e, m, n)
<1>1. CASE d.sq = c.sq /\ d.has_sent_node_info = c.has_sent_node_info /\ \A k : Saw(d, k) <=> Saw(c, k)
  BY <1>1 DEF Tells, WaitsAt, SawAll, Carries
<1>2. CASE TellsLast(c, d, m)
  <2>1. PICK l : l = Len(d.sq)
    OBVIOUS
  <2>2. /\ l \in 1..Len(d.sq) /\ IsOwnInfo(d.sq[l].p)
        /\ d.sq[l].p.key = <<m, c.seqno>> /\ n \in d.sq[l].unacked_ns
    BY <1>2, <2>1 DEF TellsLast
  <2>3. <<m, c.seqno>> \notin e.seen
    <3>1. c.seqno \in Nat
      BY DEF NodeProperties
    <3>2. ~(c.seqno < c.seqno)
      BY <3>1
    <3> QED BY <3>2 DEF KeysOf
  <2>4. ASSUME NEW k, Saw(d, k), ~Saw(e, k)
        PROVE  \E h \in 1..(l - 1) : Carries(d, h, n, k)
    <3>1. PICK h \in 1..Len(d.sq) : Carries(d, h, n, k)
      BY <2>4 DEF Forwarded
    <3>2. h # l
      BY <2>2, <3>1, OwnInfoIsNot
    <3>3. l \in Nat /\ h \in 1..(l - 1)
      BY <2>1, <2>2, <3>2
    <3> QED BY <3>1, <3>3
  <2>5. WaitsAt(d, e, n, l)
    BY <2>2, <2>3, <2>4 DEF WaitsAt
  <2> QED BY <2>2, <2>5 DEF Tells
<1>3. CASE Noted(c, d, p)
  <2>1. CASE p.key \in c.seen
    BY <1>1, <1>3, <2>1 DEF Noted, SameMode, Saw
  <2>2. CASE p.key \notin c.seen
    <3>1. ~d.has_sent_node_info
      BY <1>3, <2>2 DEF Noted, SameMode, Started
    <3> QED BY <3>1 DEF Tells
  <2> QED BY <2>1, <2>2
<1>4. CASE Learned(c, d, x, p)
  <2>1. \A k : Saw(d, k) <=> Saw(c, k)
    BY <1>4 DEF Learned, SinkKey, Saw
  <2> QED BY <1>1, <1>4, <2>1 DEF Learned, SameMode
<1>5. CASE Answered(c, d, m, x, p) \/ ExitInitialized(c, d, m, p)
  <2>1. TellsLast(c, d, m)
    BY <1>5, KindEffect
  <2> QED BY <1>2, <2>1
<1>6. CASE Initialized(c, d, p) \/ WasReset(c, d, m, p)
  <2>1. ~d.has_sent_node_info
    BY <1>6 DEF Initialized, WasReset
  <2> QED BY <2>1 DEF Tells
<1> QED BY <1>3, <1>4, <1>5, <1>6 DEF Kind

\* The queue of m gets shorter, but not by what waits for n.
LEMMA TellsShift ==
  ASSUME NEW m, NEW n, NEW c \in NodeProperties, NEW d, NEW e, NEW s \in {0, 1}, Fewer(c, d, s),
         d.has_sent_node_info = c.has_sent_node_info, d.seen = c.seen, Tells(c, e, m, n),
         \A i \in 1..Len(d.sq) :
           i + s # 1 /\ n \in c.sq[i + s].unacked_ns => n \in d.sq[i].unacked_ns,
         n \in c.sq[1].unacked_ns => s = 0 /\ n \in d.sq[1].unacked_ns
  PROVE  Tells(d, e, m, n)
<1> SUFFICES ASSUME c.has_sent_node_info, SawAll(c, e)
             PROVE  \/ m \in e.known /\ SawAll(e, c)
                    \/ \E i \in 1..Len(d.sq) : WaitsAt(d, e, n, i)
  BY DEF Tells, SawAll, Saw
<1>1. CASE m \in e.known /\ SawAll(e, c)
  BY <1>1
<1>2. CASE \E i \in 1..Len(c.sq) : WaitsAt(c, e, n, i)
  <2> DEFINE l == Len(c.sq)
             L == Len(d.sq)
             u == c.sq
             v == d.sq
  <2>1. /\ l \in Nat /\ L = l - s /\ \A i \in 1..L : v[i].p = u[i + s].p
        /\ \A i \in 1..L : i + s # 1 /\ n \in u[i + s].unacked_ns => n \in v[i].unacked_ns
        /\ n \in u[1].unacked_ns => s = 0 /\ n \in v[1].unacked_ns
    BY LenProperties DEF NodeProperties, Fewer
  <2>2. PICK i \in 1..l : /\ n \in u[i].unacked_ns /\ IsOwnInfo(u[i].p) /\ u[i].p.key \notin e.seen
                          /\ \A k : Saw(c, k) => Saw(e, k) \/ \E h \in 1..(i - 1) : Carries(c, h, n, k)
    BY <1>2 DEF WaitsAt
  <2> HIDE DEF l, L, u, v
  <2>3. ASSUME NEW h \in 1..i, n \in u[h].unacked_ns
        PROVE  h - s \in 1..(i - s) /\ h - s \in 1..L /\ v[h - s].p = u[h].p /\ n \in v[h - s].unacked_ns
    <3>1. h \in 1..l /\ (h = 1 => s = 0)
      BY <2>1, <2>3
    <3>2. h - s \in 1..(i - s) /\ h - s \in 1..L /\ (h - s) + s = h
      BY <2>1, <3>1
    <3>3. v[h - s].p = u[h].p
      BY <2>1, <3>2
    <3>4. n \in v[h - s].unacked_ns
      <4>1. CASE h = 1
        <5>1. s = 0 /\ n \in v[1].unacked_ns /\ h - s = 1
          BY <2>1, <2>3, <4>1
        <5> QED BY <5>1
      <4>2. CASE h # 1
        BY <2>1, <2>3, <3>2, <4>2
      <4> QED BY <4>1, <4>2
    <3> QED BY <3>2, <3>3, <3>4
  <2>4. PICK j : j = i - s
    OBVIOUS
  <2>5. i \in 1..i
    OBVIOUS
  <2>6. j \in 1..L /\ n \in v[j].unacked_ns /\ v[j].p = u[i].p
    BY <2>2, <2>3, <2>4, <2>5
  <2>7. ASSUME NEW k, Saw(c, k), ~Saw(e, k)
        PROVE  \E h \in 1..(j - 1) : Carries(d, h, n, k)
    <3>1. PICK h \in 1..(i - 1) : Carries(c, h, n, k)
      BY <2>2, <2>7
    <3>2. n \in u[h].unacked_ns /\ u[h].p.key = <<Sink, k>>
      BY <3>1 DEF Carries, u
    <3>3. h \in 1..i
      BY <3>1
    <3>4. h - s \in 1..L /\ h - s \in 1..(i - s) /\ v[h - s].p = u[h].p /\ n \in v[h - s].unacked_ns
      BY <2>3, <3>2, <3>3
    <3>5. h - s \in 1..(j - 1)
      BY <2>4, <3>1, <3>4
    <3>6. Carries(d, h - s, n, k)
      BY <3>2, <3>4 DEF Carries, v
    <3> QED BY <3>5, <3>6
  <2>8. WaitsAt(d, e, n, j)
    BY <2>2, <2>6, <2>7 DEF WaitsAt, Saw, v
  <2> QED BY <2>6, <2>8 DEF L
<1> QED BY <1>1, <1>2 DEF Tells

\* n gets the first packet of m's queue.
LEMMA TellsDelivered ==
  ASSUME NEW m \in Node, NEW n \in Node, m # n, NEW c \in NodeProperties, NEW d,
         NEW e \in NodeProperties, NEW f, NEW p \in Packet, NEW s \in {0, 1},
         1 \in 1..Len(c.sq), n \in c.sq[1].unacked_ns, p = c.sq[1].p,
         Shifted(c.sq, d.sq, n, s),
         d.has_sent_node_info = c.has_sent_node_info, d.seen = c.seen,
         e.ns # {}, Kind(e, f, n, m, p), SinkKey(p), OwnKeys(c, m), Tells(c, e, m, n),
         c.has_sent_node_info /\ SawAll(c, e) /\ SawAll(e, c) => ~e.is_reset_mode
  PROVE  Tells(d, f, m, n)
<1> SUFFICES ASSUME c.has_sent_node_info, SawAll(c, f)
             PROVE  \/ m \in f.known /\ SawAll(f, c)
                    \/ \E i \in 1..Len(d.sq) : WaitsAt(d, f, n, i)
  BY DEF Tells, SawAll, Saw
<1>0. Len(c.sq) \in Nat
  <2>1. c.sq \in Seq(QueuedPacket)
    BY DEF NodeProperties
  <2> QED BY <2>1, LenProperties
<1>1. Remembered(e, f, n, p) /\ p.key \in f.seen
  BY KindEffect
<1>2. \A k : Saw(e, k) => Saw(f, k)
  BY <1>1 DEF Remembered, Saw
<1>3. SawAll(c, e)
  BY <1>2 DEF SawAll
<1>4. CASE m \in e.known /\ SawAll(e, c)
  <2>1. \A k : Saw(f, k) => Saw(e, k)
    BY <1>4 DEF SawAll
  <2>2. ~WasReset(e, f, n, p)
    BY <1>1, <2>1 DEF WasReset, SinkKey, Saw
  <2>3. m \in f.known
    BY <1>4, <2>2 DEF Kind, Noted, Learned, Answered, Initialized, ExitInitialized
  <2> QED BY <1>2, <1>4, <2>3 DEF SawAll
<1>5. CASE WaitsAt(c, e, n, 1)
  <2>1. p.key \notin e.seen /\ IsOwnInfo(p)
    BY <1>5 DEF WaitsAt
  <2>2. SawAll(e, c)
    <3>1. ASSUME NEW k, Saw(c, k) PROVE Saw(e, k)
      <4>1. Saw(e, k) \/ \E h \in 1..(1 - 1) : Carries(c, h, n, k)
        BY <1>5, <3>1 DEF WaitsAt
      <4> QED BY <4>1
    <3> QED BY <3>1 DEF SawAll
  <2>3. ~e.is_reset_mode
    BY <1>3, <2>2
  <2>4. Learned(e, f, m, p) \/ Answered(e, f, n, m, p)
    BY <2>1, <2>3 DEF Kind, Noted, Initialized, ExitInitialized, WasReset, IsOwnInfo
  <2>5. m \in f.known
    BY <2>4 DEF Learned, Answered
  <2> QED BY <1>2, <2>2, <2>5 DEF SawAll
<1>6. CASE \E i \in 2..Len(c.sq) : WaitsAt(c, e, n, i)
  <2> DEFINE l == Len(c.sq)
             L == Len(d.sq)
             u == c.sq
             v == d.sq
  <2>1. PICK i \in 2..l : WaitsAt(c, e, n, i)
    BY <1>6
  <2>2. /\ n \in u[i].unacked_ns /\ IsOwnInfo(u[i].p) /\ u[i].p.key \notin e.seen
        /\ \A k : Saw(c, k) => Saw(e, k) \/ \E h \in 1..(i - 1) : Carries(c, h, n, k)
    BY <2>1 DEF WaitsAt
  <2>3. l \in Nat /\ i \in 1..l /\ 1 \in 1..(i - 1)
    BY <1>0
  <2>4. u[i].p.key[1] = m /\ u[i].p.key # p.key
    <3>1. u[i].p.key[1] = m /\ (IsOwnInfo(p) => p.key # u[i].p.key)
      BY <2>2, <2>3 DEF OwnKeys
    <3>2. ~IsOwnInfo(p) => p.key[1] = Sink
      BY DEF SinkKey, IsOwnInfo
    <3> QED BY <3>1, <3>2, NodeLifecycleAssumption
  <2>5. u[i].p.key \notin f.seen
    <3>1. u[i].p.key # <<n, e.seqno>>
      BY <2>4
    <3> QED BY <1>1, <2>2, <2>4, <3>1 DEF Remembered
  <2>6. /\ L = l - s /\ \A j \in 1..L : v[j].p = u[j + s].p
        /\ \A j \in 1..L : j + s # 1 => v[j].unacked_ns = u[j + s].unacked_ns
    BY DEF Shifted
  <2> HIDE DEF l, L, u, v
  <2>7. ASSUME NEW h \in 2..i
        PROVE  /\ h - s \in 1..(i - s) /\ h - s \in 1..L
               /\ v[h - s].p = u[h].p /\ v[h - s].unacked_ns = u[h].unacked_ns
    <3>1. h - s \in 1..(i - s) /\ h - s \in 1..L /\ (h - s) + s = h /\ h # 1
      BY <2>3, <2>6
    <3> QED BY <2>6, <3>1
  <2>8. PICK j : j = i - s
    OBVIOUS
  <2>9. j \in 1..L /\ v[j].p = u[i].p /\ v[j].unacked_ns = u[i].unacked_ns
    <3>1. i \in 2..i
      BY <2>3
    <3> QED BY <2>7, <2>8, <3>1
  <2>10. ASSUME NEW k, Saw(c, k), ~Saw(f, k)
         PROVE  \E h \in 1..(j - 1) : Carries(d, h, n, k)
    <3>1. PICK h \in 1..(i - 1) : Carries(c, h, n, k)
      BY <1>2, <2>2, <2>10
    <3>2. n \in u[h].unacked_ns /\ u[h].p.key = <<Sink, k>>
      BY <3>1 DEF Carries, u
    <3>3. h # 1
      BY <1>1, <2>10, <3>2 DEF Saw, u
    <3>4. h \in 2..i
      BY <2>3, <3>1, <3>3
    <3>5. /\ h - s \in 1..(i - s) /\ h - s \in 1..L
          /\ v[h - s].p = u[h].p /\ v[h - s].unacked_ns = u[h].unacked_ns
      BY <2>7, <3>4
    <3>6. h - s \in 1..(j - 1)
      BY <2>3, <2>8, <3>1, <3>5
    <3>7. Carries(d, h - s, n, k)
      BY <3>2, <3>5 DEF Carries, v
    <3> QED BY <3>6, <3>7
  <2>11. WaitsAt(d, f, n, j)
    BY <2>2, <2>5, <2>9, <2>10 DEF WaitsAt, Saw, v
  <2> QED BY <2>9, <2>11 DEF L
<1>7. \A i \in 1..Len(c.sq) : i = 1 \/ i \in 2..Len(c.sq)
  BY <1>0
<1> QED BY <1>3, <1>4, <1>5, <1>6, <1>7 DEF Tells

-----------------------------------------------------------------------------
(* What the other operations do to the rest of a record.                   *)

\* What neither the queue nor an emergency touches.
SameRest(c, d) ==
  d.known = c.known /\ d.bpn = c.bpn /\ d.seqno = c.seqno /\ d.floods = c.floods

LEMMA DeliverRest ==
  ASSUME TypeOK, NEW m \in Node, NEW n \in Node, Deliver(m, n), m # n
  PROVE  SameRest(np[m], np'[m])
<1>1. PICK c \in NodeProperties : c = np[m]
  BY DEF TypeOK
<1>2. PICK v : v = Acknowledged(c.sq, n)
  OBVIOUS
<1> DEFINE d == [c EXCEPT !.sq = v]
<1>3. PICK s : s = [np EXCEPT ![m] = d]
  OBVIOUS
<1>4. PICK r : np' = [s EXCEPT ![n] = r]
  BY <1>1, <1>2, <1>3, Zenon DEF Deliver, Acknowledged
<1>5. SameRest(c, d)
  BY DEF NodeProperties, SameRest
<1> HIDE DEF d
<1>6. np'[m] = d
  BY <1>3, <1>4 DEF TypeOK
<1> QED BY <1>1, <1>5, <1>6

LEMMA GiveUpRest ==
  ASSUME TypeOK, NEW m \in Node, GiveUp(m)
  PROVE  SameRest(np[m], np'[m])
<1>1. PICK c \in NodeProperties : c = np[m]
  BY DEF TypeOK
<1> DEFINE d == [c EXCEPT !.sq = Tail(@)]
<1>2. np' = [np EXCEPT ![m] = d]
  BY <1>1, Zenon DEF GiveUp
<1>3. SameRest(c, d)
  BY DEF NodeProperties, SameRest
<1> HIDE DEF d
<1>4. np'[m] = d
  BY <1>2 DEF TypeOK
<1> QED BY <1>1, <1>3, <1>4

\* The memories and the floods have nothing new but key.
AtMost(c, d, key) ==
  /\ d.known = c.known /\ d.bpn = c.bpn
  /\ d.seen \subseteq c.seen \cup {key} /\ d.floods \subseteq c.floods \cup {key}

LEMMA PushButtonRest ==
  ASSUME TypeOK, NEW n \in Node, PushButton(n), NEW m \in Node
  PROVE  SameRest(np[m], np'[m]) /\ np'[m].seen = np[m].seen
<1>1. PICK c \in NodeProperties : c = np[n]
  BY DEF TypeOK
<1> DEFINE d == [c EXCEPT !.is_awaiting_setup_packet = TRUE]
<1>2. np' = [np EXCEPT ![n] = d]
  BY <1>1, Zenon DEF PushButton
<1>3. SameRest(c, d) /\ d.seen = c.seen
  BY DEF NodeProperties, SameRest
<1> HIDE DEF d
<1>4. np'[m] = IF m = n THEN d ELSE np[m]
  BY <1>2 DEF TypeOK
<1> QED BY <1>1, <1>3, <1>4 DEF SameRest

LEMMA BlinkingRest ==
  ASSUME NEW c \in NodeProperties, NEW d, d = BlinkingInit(c)
  PROVE  SameRest(c, d) /\ d.seen = c.seen
  BY DEF BlinkingInit, NodeProperties, SameRest

LEMMA SenseEmergencyRest ==
  ASSUME TypeOK, NEW n \in Node, SenseEmergency(n), NEW m \in Node
  PROVE  /\ m # n => np'[m] = np[m]
         /\ m = n => /\ np'[n].seqno = np[n].seqno + 1
                     /\ AtMost(np[n], np'[n], <<n, np[n].seqno>>)
<1>1. PICK c \in NodeProperties : c = np[n]
  BY DEF TypeOK
<1> DEFINE key == <<n, c.seqno>>
           b == [c EXCEPT !.is_burning = TRUE]
<1>2. b \in NodeProperties /\ SameRest(c, b) /\ b.seen = c.seen
  BY DEF NodeProperties, SameRest
<1>3. PICK e : e = BlinkingInit(b)
  OBVIOUS
<1> DEFINE d == [e EXCEPT !.floods = @ \cup {key}, !.seen = @ \cup {key}, !.seqno = @ + 1]
<1>4. np' = [np EXCEPT ![n] = d]
  BY <1>1, <1>3, Zenon DEF SenseEmergency
<1> HIDE DEF b, key
<1>5. SameRest(b, e) /\ e.seen = b.seen
  BY <1>2, <1>3, BlinkingRest
<1>6. e \in NodeProperties
  BY <1>2, <1>3, BlinkingEffect
<1>7. /\ d.known = e.known /\ d.bpn = e.bpn /\ d.seqno = e.seqno + 1
      /\ d.floods = e.floods \cup {key} /\ d.seen = e.seen \cup {key}
  BY <1>6 DEF NodeProperties
<1> HIDE DEF d
<1>8. d.seqno = c.seqno + 1 /\ AtMost(c, d, key)
  BY <1>2, <1>5, <1>7 DEF AtMost, SameRest
<1>9. (m # n => np'[m] = np[m]) /\ np'[n] = d
  BY <1>4 DEF TypeOK
<1> QED BY <1>1, <1>8, <1>9 DEF key

LEMMA EmergencyRest ==
  ASSUME NEW c \in NodeProperties, NEW key \in Node \X Nat,
         NEW d, d = EmergencyReceived(c, key)
  PROVE  d.seqno = c.seqno /\ AtMost(c, d, key)
<1> DEFINE e == [c EXCEPT !.seen = @ \cup {key}]
           f == [c EXCEPT !.seen = @ \cup {key}, !.floods = @ \cup {key}]
<1>1. e.seqno = c.seqno /\ AtMost(c, e, key)
  BY DEF NodeProperties, AtMost
<1>2. f \in NodeProperties /\ f.seqno = c.seqno /\ AtMost(c, f, key)
  BY DEF NodeProperties, AtMost, Key
<1>3. d = c \/ d = e \/ d = BlinkingInit(f)
  BY Zenon DEF EmergencyReceived
<1> HIDE DEF e, f
<1>4. CASE d = BlinkingInit(f)
  <2>1. SameRest(f, d) /\ d.seen = f.seen
    BY <1>2, <1>4, BlinkingRest
  <2> QED BY <1>2, <2>1 DEF SameRest, AtMost
<1>5. CASE d = c
  BY <1>5 DEF AtMost
<1> QED BY <1>1, <1>3, <1>4, <1>5

LEMMA SendFloodRest ==
  ASSUME TypeOK, NEW n \in Node, SendFlood(n)
  PROVE  \E key \in np[n].floods :
           \A m \in Node : np'[m].seqno = np[m].seqno /\ AtMost(np[m], np'[m], key)
<1> DEFINE hearers == {m \in Table[n] : Running(m)}
<1>1. PICK key \in np[n].floods :
        \E lost \in SUBSET hearers :
           /\ Faults(Cardinality(lost))
           /\ np' = [m \in Node |->
                CASE m = n -> [np[n] EXCEPT !.floods = @ \ {key}]
                  [] m \in hearers \ lost -> EmergencyReceived(np[m], key)
                  [] m \notin hearers \ lost /\ m # n -> np[m]]
  BY Zenon DEF SendFlood
<1>2. PICK lost \in SUBSET hearers :
           /\ Faults(Cardinality(lost))
           /\ np' = [m \in Node |->
                CASE m = n -> [np[n] EXCEPT !.floods = @ \ {key}]
                  [] m \in hearers \ lost -> EmergencyReceived(np[m], key)
                  [] m \notin hearers \ lost /\ m # n -> np[m]]
  BY <1>1, Zenon
<1>3. n \notin hearers
  BY NodeLifecycleAssumption
<1>4. key \in Node \X Nat
  BY DEF TypeOK, NodeProperties
<1> HIDE DEF hearers
<1>5. ASSUME NEW m \in Node PROVE np'[m].seqno = np[m].seqno /\ AtMost(np[m], np'[m], key)
  <2>0. PICK c \in NodeProperties : c = np[m]
    BY DEF TypeOK
  <2>1. CASE m = n
    <3> DEFINE d == [c EXCEPT !.floods = @ \ {key}]
    <3>1. np'[m] = d
      BY <1>2, <1>3, <2>0, <2>1
    <3>2. d.seqno = c.seqno /\ AtMost(c, d, key)
      BY DEF NodeProperties, AtMost
    <3> QED BY <2>0, <3>1, <3>2
  <2>2. CASE m \in hearers \ lost
    <3>1. np'[m] = EmergencyReceived(np[m], key)
      BY <1>2, <1>3, <2>2
    <3> QED BY <1>4, <2>0, <3>1, EmergencyRest
  <2>3. CASE m \notin hearers \ lost /\ m # n
    <3>1. np'[m] = np[m]
      BY <1>2, <2>3
    <3> QED BY <3>1 DEF AtMost
  <2> QED BY <2>1, <2>2, <2>3
<1> QED BY <1>5

LEMMA SetupRest ==
  ASSUME NEW n \in Node, NEW c \in NodeProperties, NEW whole, NEW d, d = SetupParse(c, n, whole)
  PROVE  d.known = {} /\ d.seqno = c.seqno /\ d.floods = c.floods
  BY DEF SetupParse, NodeProperties

LEMMA BootRest ==
  ASSUME NEW n \in Node, NEW d, d = ResetNodeProperties(n)
  PROVE  d.known = {} /\ d.floods = {}
<1> DEFINE c == [ns |-> {}, known |-> {}, is_exit_node |-> FALSE, bpn |-> "null",
                 is_awaiting_setup_packet |-> FALSE, is_reset_mode |-> FALSE,
                 has_sent_node_info |-> FALSE, is_blinking |-> FALSE,
                 is_burning |-> FALSE, seqno |-> 0, sq |-> << >>, seen |-> {},
                 floods |-> {}, stopped |-> "no"]
<1>1. d = Restored(c, n)
  BY Zenon DEF ResetNodeProperties
<1>2. c \in NodeProperties /\ c.known = {} /\ c.floods = {}
  BY DEF NodeProperties
<1> HIDE DEF c
<1>3. d = c \/ d.known = {}
  BY <1>1, <1>2, RestoredRest DEF Restored
<1>4. d.floods = c.floods
  BY <1>1, <1>2, RestoredRest
<1> QED BY <1>2, <1>3, <1>4

-----------------------------------------------------------------------------
(* The start-up under way.                                                 *)

AllRun == \A n \in Node : Running(n)

\* Who had not to be set up is, and the others are set up by the sink.
FlashGood ==
  \A n \in Node : IF n \in Fresh THEN flash[n] = "whole" => n \in SinkRange ELSE flash[n] = "whole"

StartUp ==
  /\ FlashGood
  /\ \A n \in Node : OwnKeys(np[n], n)
  /\ \A m, n \in Node : KeysOf(np[m], np[n], m)
  /\ \A n \in Node : np[n].ns # {} => Started(np[n])
  /\ \A n \in SinkRange : sink.initialized /\ np[n].ns # {} => Heard(np[n])
  /\ \A m, n \in Node : Listens(m, n) => Tells(np[m], np[n], m, n)

\* Nobody is left to wait when a node stops or the sink repeats itself.
SInv == JInv /\ (Excused \/ Over \/ ~AllRun \/ StartUp)

LEMMA InitStartUp == Init => StartUp
<1> SUFFICES ASSUME Init PROVE StartUp
  OBVIOUS
<1>1. flash = [n \in Node |-> IF n \in Fresh THEN "blank" ELSE "whole"]
  BY DEF Init
<1>2. ASSUME NEW n \in Node
      PROVE  /\ np[n].sq = << >> /\ np[n].seen = {} /\ ~np[n].has_sent_node_info
             /\ np[n].known = {} /\ np[n].floods = {}
  <2>1. PICK d : d = np[n]
    OBVIOUS
  <2>2. d = ResetNodeProperties(n)
    BY <2>1 DEF Init
  <2>3. flash[n] \in {"blank", "torn", "whole"}
    BY <1>1
  <2>4. /\ d.sq = << >> /\ d.seen = {} /\ ~d.has_sent_node_info
    BY <2>2, <2>3, BootEffect
  <2>5. d.known = {} /\ d.floods = {}
    BY <2>2, BootRest
  <2> QED BY <2>1, <2>4, <2>5
<1>3. FlashGood
  BY <1>1 DEF FlashGood
<1>4. ASSUME NEW n \in Node PROVE OwnKeys(np[n], n)
  <2>1. Len(np[n].sq) = 0
    BY <1>2
  <2>2. \A i \in 1..0 : FALSE
    OBVIOUS
  <2> QED BY <2>1, <2>2 DEF OwnKeys
<1>5. \A m, n \in Node : KeysOf(np[m], np[n], m)
  BY <1>2 DEF KeysOf
<1>6. \A n \in Node : Started(np[n])
  BY <1>2 DEF Started, Heard, Saw
<1>7. ~sink.initialized
  BY DEF Init
<1>8. \A m, n \in Node : Tells(np[m], np[n], m, n)
  BY <1>2 DEF Tells
<1> QED BY <1>3, <1>4, <1>5, <1>6, <1>7, <1>8 DEF StartUp

\* A key that no node has told, or is to tell, of itself.
Spare(m, j) ==
  /\ j < np'[m].seqno
  /\ \A i \in 1..Len(np[m].sq) : IsOwnInfo(np[m].sq[i].p) => np[m].sq[i].p.key # <<m, j>>

LEMMA NumbersTyped ==
  ASSUME NEW c \in NodeProperties
  PROVE  /\ c.seqno \in Nat
         /\ \A m, j : <<m, j>> \in c.seen \/ <<m, j>> \in c.floods => j \in Nat
<1>1. c.seqno \in Nat /\ c.seen \subseteq Key /\ c.floods \subseteq Node \X Nat
  BY DEF NodeProperties
<1> QED BY <1>1 DEF Key

LEMMA CalmKeepsStartUp ==
  ASSUME TypeOK, TypeOK', StartUp, AllRun', flash' = flash, sink' = sink,
         \A n \in Node : Inert(np[n], np'[n]),
         \A n \in Node : np'[n].known = np[n].known /\ np'[n].bpn = np[n].bpn
                         /\ np[n].seqno <= np'[n].seqno,
         \A m, n \in Node : \A j : <<m, j>> \in np'[n].seen =>
           <<m, j>> \in np[n].seen \/ Spare(m, j),
         \A m, n \in Node : \A j : <<m, j>> \in np'[n].floods =>
           <<m, j>> \in np[n].floods \/ Spare(m, j)
  PROVE  StartUp'
<1>1. ASSUME NEW n \in Node
      PROVE  /\ np'[n].ns = np[n].ns /\ np'[n].is_exit_node = np[n].is_exit_node
             /\ np'[n].is_reset_mode = np[n].is_reset_mode
             /\ np'[n].has_sent_node_info = np[n].has_sent_node_info
             /\ np'[n].sq = np[n].sq
             /\ np'[n].known = np[n].known /\ np'[n].bpn = np[n].bpn
             /\ \A k : Saw(np'[n], k) <=> Saw(np[n], k)
  BY DEF Inert, Saw
<1>2. ASSUME NEW n \in Node
      PROVE  /\ np[n].seqno \in Nat /\ np'[n].seqno \in Nat /\ np[n].seqno <= np'[n].seqno
             /\ \A m, j : <<m, j>> \in np[n].seen \/ <<m, j>> \in np[n].floods => j \in Nat
  <2>1. PICK c \in NodeProperties, d \in NodeProperties : c = np[n] /\ d = np'[n]
    BY DEF TypeOK
  <2> QED BY <2>1, NumbersTyped
<1>3. \A n \in Node : OwnKeys(np[n], n)'
  <2> SUFFICES ASSUME NEW n \in Node PROVE OwnKeys(np[n], n)'
    OBVIOUS
  <2>1. \A i \in 1..Len(np[n].sq) : IsOwnInfo(np[n].sq[i].p) =>
          /\ \E j \in Nat : j < np[n].seqno /\ np[n].sq[i].p.key = <<n, j>>
          /\ \A h \in 1..(i - 1) : IsOwnInfo(np[n].sq[h].p) => np[n].sq[h].p.key # np[n].sq[i].p.key
    BY DEF StartUp, OwnKeys
  <2>2. \A j \in Nat : j < np[n].seqno => j < np'[n].seqno
    BY <1>2
  <2>3. np'[n].sq = np[n].sq
    BY <1>1
  <2> QED BY <2>1, <2>2, <2>3 DEF OwnKeys
<1>4. \A m, n \in Node : KeysOf(np[m], np[n], m)'
  <2> SUFFICES ASSUME NEW m \in Node, NEW n \in Node PROVE KeysOf(np[m], np[n], m)'
    OBVIOUS
  <2>1. KeysOf(np[m], np[n], m)
    BY DEF StartUp
  <2>2. \A j : <<m, j>> \in np[n].seen \/ <<m, j>> \in np[n].floods =>
               (j < np[m].seqno => j < np'[m].seqno)
    BY <1>2
  <2>3. np'[m].sq = np[m].sq
    BY <1>1
  <2>4. \A j : <<m, j>> \in np'[n].seen => j < np'[m].seqno
    BY <2>1, <2>2 DEF KeysOf, Spare
  <2>5. \A j : <<m, j>> \in np'[n].floods =>
          /\ j < np'[m].seqno
          /\ \A i \in 1..Len(np'[m].sq) :
               IsOwnInfo(np'[m].sq[i].p) => np'[m].sq[i].p.key # <<m, j>>
    BY <2>1, <2>2, <2>3 DEF KeysOf, Spare
  <2> QED BY <2>4, <2>5 DEF KeysOf
<1>5. \A n \in Node : np'[n].ns # {} => Started(np[n])'
  <2> SUFFICES ASSUME NEW n \in Node, np'[n].ns # {} PROVE Started(np[n])'
    OBVIOUS
  <2>1. Started(np[n]) /\ (Heard(np[n]) <=> Heard(np'[n]))
    BY <1>1 DEF StartUp, Heard
  <2> QED BY <1>1, <2>1 DEF Started, Heard, Saw
<1>6. \A n \in SinkRange : sink'.initialized /\ np'[n].ns # {} => Heard(np'[n])
  BY <1>1, NodeLifecycleAssumption DEF StartUp, Heard
<1>7. ASSUME NEW m \in Node, NEW n \in Node, Listens(m, n)'
      PROVE  Tells(np'[m], np'[n], m, n)
  <2>1. Listens(m, n)
    BY <1>1, <1>7 DEF Listens, Inert
  <2>2. Tells(np[m], np[n], m, n) /\ OwnKeys(np[m], m)
    BY <2>1 DEF StartUp
  <2>3. PICK c, e, d, f : c = np[m] /\ e = np[n] /\ d = np'[m] /\ f = np'[n]
    OBVIOUS
  <2>4. /\ d.has_sent_node_info = c.has_sent_node_info /\ d.sq = c.sq /\ f.known = e.known
        /\ \A k : Saw(d, k) <=> Saw(c, k)
        /\ \A k : Saw(f, k) <=> Saw(e, k)
    BY <1>1, <2>3
  <2>5. ASSUME NEW i \in 1..Len(c.sq), WaitsAt(c, e, n, i) PROVE WaitsAt(d, f, n, i)
    <3>1. IsOwnInfo(c.sq[i].p) /\ c.sq[i].p.key \notin e.seen
      BY <2>5 DEF WaitsAt
    <3>2. PICK j \in Nat : c.sq[i].p.key = <<m, j>>
      BY <2>2, <2>3, <3>1 DEF OwnKeys
    <3>3. ~Spare(m, j)
      BY <2>3, <3>1, <3>2 DEF Spare
    <3>4. <<m, j>> \notin f.seen
      BY <2>3, <3>1, <3>2, <3>3
    <3> QED BY <2>4, <2>5, <3>2, <3>4 DEF WaitsAt, Carries
  <2>6. Tells(d, f, m, n)
    BY <2>2, <2>3, <2>4, <2>5 DEF Tells, SawAll
  <2> QED BY <2>3, <2>6
<1>8. FlashGood'
  BY DEF StartUp, FlashGood
<1>9. \A m, n \in Node : Listens(m, n)' => Tells(np[m], np[n], m, n)'
  BY <1>7 DEF Tells, SawAll, Saw, WaitsAt, Carries
<1>10. \A n \in SinkRange : (sink.initialized /\ np[n].ns # {})' => Heard(np[n])'
  BY <1>6 DEF Heard, Saw
<1> QED BY <1>3, <1>4, <1>5, <1>8, <1>9, <1>10 DEF StartUp

LEMMA EmergencyKeepsStartUp ==
  ASSUME TypeOK, TypeOK', StartUp, AllRun', NEW n \in Node,
         PushButton(n) \/ SenseEmergency(n) \/ SendFlood(n)
  PROVE  StartUp'
<1>1. \A m \in Node : np[m].seqno \in Nat /\ np'[m].seqno \in Nat
  <2> SUFFICES ASSUME NEW m \in Node PROVE np[m].seqno \in Nat /\ np'[m].seqno \in Nat
    OBVIOUS
  <2>1. PICK c \in NodeProperties, d \in NodeProperties : c = np[m] /\ d = np'[m]
    BY DEF TypeOK
  <2> QED BY <2>1, NumbersTyped
<1>2. CASE PushButton(n)
  <2>1. flash' = flash /\ sink' = sink
    BY <1>2, Zenon DEF PushButton
  <2>2. \A m \in Node : Inert(np[m], np'[m])
    BY <1>2, PushButtonEffect
  <2>3. \A m \in Node : SameRest(np[m], np'[m]) /\ np'[m].seen = np[m].seen
    BY <1>2, PushButtonRest
  <2>4. ASSUME NEW m \in Node
        PROVE  /\ np'[m].known = np[m].known /\ np'[m].bpn = np[m].bpn
               /\ np[m].seqno <= np'[m].seqno
               /\ np'[m].seen = np[m].seen /\ np'[m].floods = np[m].floods
    BY <1>1, <2>3 DEF SameRest
  <2> QED BY <2>1, <2>2, <2>4, CalmKeepsStartUp
<1>3. CASE SenseEmergency(n)
  <2>1. flash' = flash /\ sink' = sink
    BY <1>3, Zenon DEF SenseEmergency
  <2>2. \A m \in Node : Inert(np[m], np'[m])
    BY <1>3, SenseEmergencyEffect
  <2>3. PICK s : s = np[n].seqno
    OBVIOUS
  <2>4. \A m \in Node : m # n => np'[m] = np[m]
    BY <1>3, SenseEmergencyRest
  <2>5. np'[n].seqno = s + 1 /\ AtMost(np[n], np'[n], <<n, s>>)
    BY <1>3, <2>3, SenseEmergencyRest
  <2>6. ASSUME NEW m \in Node
        PROVE  /\ np'[m].known = np[m].known /\ np'[m].bpn = np[m].bpn
               /\ np[m].seqno <= np'[m].seqno
    BY <1>1, <2>3, <2>4, <2>5 DEF AtMost
  <2>7. Spare(n, s)
    <3>1. s \in Nat /\ s < np'[n].seqno
      BY <1>1, <2>3, <2>5
    <3>2. ASSUME NEW i \in 1..Len(np[n].sq), IsOwnInfo(np[n].sq[i].p)
          PROVE  np[n].sq[i].p.key # <<n, s>>
      <4>1. PICK j \in Nat : j < s /\ np[n].sq[i].p.key = <<n, j>>
        BY <2>3, <3>2 DEF StartUp, OwnKeys
      <4>2. j # s
        BY <3>1, <4>1
      <4> QED BY <4>1, <4>2
    <3> QED BY <3>1, <3>2 DEF Spare
  <2>8. ASSUME NEW m \in Node, NEW x \in Node, NEW j,
               <<m, j>> \in np'[x].seen
        PROVE  <<m, j>> \in np[x].seen \/ Spare(m, j)
    BY <2>4, <2>5, <2>7, <2>8 DEF AtMost
  <2>9. ASSUME NEW m \in Node, NEW x \in Node, NEW j,
               <<m, j>> \in np'[x].floods
        PROVE  <<m, j>> \in np[x].floods \/ Spare(m, j)
    BY <2>4, <2>5, <2>7, <2>9 DEF AtMost
  <2> QED BY <2>1, <2>2, <2>6, <2>8, <2>9, CalmKeepsStartUp
<1>4. CASE SendFlood(n)
  <2>1. flash' = flash /\ sink' = sink
    BY <1>4, Zenon DEF SendFlood
  <2>2. \A m \in Node : Inert(np[m], np'[m])
    BY <1>4, SendFloodEffect
  <2>3. PICK key \in np[n].floods :
          \A m \in Node : np'[m].seqno = np[m].seqno /\ AtMost(np[m], np'[m], key)
    BY <1>4, SendFloodRest
  <2>4. ASSUME NEW m \in Node
        PROVE  /\ np'[m].known = np[m].known /\ np'[m].bpn = np[m].bpn
               /\ np[m].seqno <= np'[m].seqno
    BY <1>1, <2>3 DEF AtMost
  <2>5. ASSUME NEW m \in Node, NEW j, key = <<m, j>> PROVE Spare(m, j)
    <3>1. KeysOf(np[m], np[n], m)
      BY DEF StartUp
    <3> QED BY <2>3, <2>5, <3>1 DEF KeysOf, Spare
  <2>6. ASSUME NEW m \in Node, NEW x \in Node, NEW j,
               <<m, j>> \in np'[x].seen
        PROVE  <<m, j>> \in np[x].seen \/ Spare(m, j)
    BY <2>3, <2>5, <2>6 DEF AtMost
  <2>7. ASSUME NEW m \in Node, NEW x \in Node, NEW j,
               <<m, j>> \in np'[x].floods
        PROVE  <<m, j>> \in np[x].floods \/ Spare(m, j)
    BY <2>3, <2>5, <2>7 DEF AtMost
  <2> QED BY <2>1, <2>2, <2>4, <2>6, <2>7, CalmKeepsStartUp
<1> QED BY <1>2, <1>3, <1>4

\* A set-up before the sink's first command finds nobody started.
LEMMA SetupKeepsStartUp ==
  ASSUME NEW I \in SUBSET Nat, NEW R \in SUBSET Nat, TypeOK, TypeOK', J(I, R),
         StartUp, AllRun, AllRun', NEW n \in Node, SendSetupPacket(n), ~Excused', ~Over'
  PROVE  StartUp'
<1>1. sink.initialized = sink'.initialized /\ sink'.owes_init /\ ~sink.owes_init
  <2>1. sink \in SinkRecord /\ sink.seqno < MaxCommands /\ ~sink.owes_init
    BY DEF TypeOK, SinkRecord, SendSetupPacket
  <2> QED BY <2>1, SetupSink
<1>2. ~sink.initialized /\ ~sink'.initialized
  BY <1>1 DEF Over
<1>3. \A m \in Node : m # n => np'[m] = np[m] /\ flash'[m] = flash[m]
  BY SendSetupPacketEffect
<1>4. \/ flash'[n] = "whole" /\ np'[n] = SetupParse(np[n], n, TRUE)
      \/ np' = np /\ flash' = flash
  BY SendSetupPacketEffect DEF Excused
<1>5. ASSUME NEW m \in Node PROVE ~Heard(np[m])
  <2>1. sink.seqno = 0
    BY <1>1, <1>2 DEF J, HistoryInv
  <2>2. I \cup R = {}
    <3>1. \A k \in 0..(0 - 1) : FALSE
      OBVIOUS
    <3> QED BY <2>1, <3>1 DEF J, HistoryInv
  <2>3. QueueGood(np[m], I, R)
    BY DEF J, NodesGood
  <2> QED BY <2>2, <2>3 DEF QueueGood, Heard
<1>6. CASE np' = np /\ flash' = flash
  <2>1. FlashGood'
    BY <1>6 DEF StartUp, FlashGood
  <2>2. ASSUME NEW x \in Node PROVE OwnKeys(np[x], x)'
    <3>1. OwnKeys(np'[x], x)
      BY <1>6 DEF StartUp
    <3> QED BY <3>1 DEF OwnKeys
  <2>3. ASSUME NEW x \in Node, NEW y \in Node PROVE KeysOf(np[x], np[y], x)'
    <3>1. KeysOf(np'[x], np'[y], x)
      BY <1>6 DEF StartUp
    <3> QED BY <3>1 DEF KeysOf
  <2>4. ASSUME NEW x \in Node, np'[x].ns # {} PROVE Started(np[x])'
    <3>1. Started(np'[x])
      BY <1>6, <2>4 DEF StartUp
    <3> QED BY <1>6, <3>1 DEF Started, Heard, Saw
  <2>5. ASSUME NEW x \in Node, NEW y \in Node, Listens(x, y)' PROVE Tells(np[x], np[y], x, y)'
    <3>1. Listens(x, y)
      BY <1>6, <2>5 DEF Listens
    <3>2. Tells(np'[x], np'[y], x, y)
      BY <1>6, <3>1 DEF StartUp
    <3> QED BY <3>2 DEF Tells, SawAll, Saw, WaitsAt, Carries
  <2> QED BY <1>2, <2>1, <2>2, <2>3, <2>4, <2>5 DEF StartUp
<1>7. CASE flash'[n] = "whole" /\ np'[n] = SetupParse(np[n], n, TRUE)
  <2>0. PICK c \in NodeProperties : c = np[n]
    BY DEF TypeOK
  <2>1. PICK d : d = np'[n]
    OBVIOUS
  <2>2. /\ ~d.has_sent_node_info /\ d.sq = c.sq /\ d.seen = c.seen
        /\ d.known = {} /\ d.seqno = c.seqno /\ d.floods = c.floods
    <3>1. PICK whole \in BOOLEAN : whole = TRUE
      BY Zenon
    <3>2. d = SetupParse(c, n, whole)
      BY <1>7, <2>0, <2>1, <3>1
    <3>3. ~d.has_sent_node_info /\ d.sq = c.sq /\ d.seen = c.seen
      BY <3>2, SetupParseEffect
    <3>4. d.known = {} /\ d.seqno = c.seqno /\ d.floods = c.floods
      BY <3>2, SetupRest
    <3> QED BY <3>3, <3>4
  <2>3. ASSUME NEW m \in Node
        PROVE  /\ np'[m].sq = np[m].sq /\ np'[m].seen = np[m].seen
               /\ np'[m].seqno = np[m].seqno /\ np'[m].floods = np[m].floods
    BY <1>3, <2>0, <2>1, <2>2
  <2>4. ASSUME NEW x \in Node PROVE OwnKeys(np[x], x)'
    <3>1. PICK e, f : e = np[x] /\ f = np'[x]
      OBVIOUS
    <3>2. OwnKeys(e, x) /\ f.sq = e.sq /\ f.seqno = e.seqno
      BY <2>3, <3>1 DEF StartUp
    <3>3. OwnKeys(f, x)
      BY <3>2, Zenon DEF OwnKeys
    <3> QED BY <3>1, <3>3 DEF OwnKeys
  <2>5. ASSUME NEW x \in Node, NEW y \in Node PROVE KeysOf(np[x], np[y], x)'
    <3>1. PICK e, f, g, h : e = np[x] /\ f = np'[x] /\ g = np[y] /\ h = np'[y]
      OBVIOUS
    <3>2. /\ KeysOf(e, g, x) /\ f.sq = e.sq /\ f.seqno = e.seqno
          /\ g.seen = h.seen /\ g.floods = h.floods
      BY <2>3, <3>1 DEF StartUp
    <3>3. KeysOf(f, h, x)
      BY <3>2 DEF KeysOf
    <3> QED BY <3>1, <3>3 DEF KeysOf
  <2>6. FlashGood'
    <3>1. n \in SinkRange
      BY DEF SendSetupPacket
    <3> QED BY <1>3, <1>7, <3>1 DEF StartUp, FlashGood
  <2>7. ASSUME NEW m \in Node, np'[m].ns # {}
        PROVE  Started(np[m])' /\ ~np'[m].has_sent_node_info
    <3>1. ~Heard(np'[m])
      BY <1>5, <2>3 DEF Heard, Saw
    <3>2. CASE m = n
      <4>1. ~np'[m].has_sent_node_info /\ np'[m].known = {}
        BY <2>1, <2>2, <3>2
      <4> QED BY <3>1, <4>1 DEF Started, Heard, Saw
    <3>3. CASE m # n
      <4>1. Started(np[m]) /\ np'[m] = np[m]
        BY <1>3, <2>7, <3>3 DEF StartUp
      <4>2. \A x \in Node : flash[x] = "whole" => flash'[x] = "whole"
        BY <1>3, <1>7
      <4>3. np'[m].known \subseteq {x \in np'[m].ns : flash'[x] = "whole"}
        <5>1. PICK e \in NodeProperties : e = np[m]
          BY DEF TypeOK
        <5>2. e.ns \subseteq Node
          BY DEF NodeProperties
        <5> QED BY <4>1, <4>2, <5>1, <5>2 DEF Started
      <4> QED BY <3>1, <4>1, <4>3 DEF Started, Heard, Saw
    <3> QED BY <3>2, <3>3
  <2>8. ASSUME NEW x \in Node, NEW y \in Node, Listens(x, y)' PROVE Tells(np[x], np[y], x, y)'
    <3>1. np'[x].ns # {}
      BY <2>8 DEF Listens
    <3> QED BY <2>7, <3>1 DEF Tells
  <2> QED BY <1>2, <2>4, <2>5, <2>6, <2>7, <2>8 DEF StartUp
<1> QED BY <1>4, <1>6, <1>7

\* The parts of the invariant, after a step.
LEMMA StartUpLater ==
  ASSUME FlashGood', flash' = flash,
         \A x \in Node : OwnKeys(np'[x], x),
         \A x, y \in Node : KeysOf(np'[x], np'[y], x),
         \A x \in Node : np'[x].ns # {} => Started(np'[x]),
         \A x \in SinkRange : sink'.initialized /\ np'[x].ns # {} => Heard(np'[x]),
         \A x, y \in Node : Listens(x, y)' => Tells(np'[x], np'[y], x, y)
  PROVE  StartUp'
<1>1. \A x \in Node : OwnKeys(np[x], x)'
  BY DEF OwnKeys
<1>2. \A x, y \in Node : KeysOf(np[x], np[y], x)'
  BY DEF KeysOf
<1>3. ASSUME NEW x \in Node, np'[x].ns # {} PROVE Started(np[x])'
  <2>1. Started(np'[x])
    BY <1>3
  <2> QED BY <2>1 DEF Started, Heard, Saw
<1>4. ASSUME NEW x \in SinkRange, sink'.initialized /\ np'[x].ns # {} PROVE Heard(np[x])'
  <2>1. Heard(np'[x])
    BY <1>4
  <2> QED BY <2>1 DEF Heard, Saw
<1>5. ASSUME NEW x \in Node, NEW y \in Node, Listens(x, y)' PROVE Tells(np[x], np[y], x, y)'
  <2>1. Tells(np'[x], np'[y], x, y)
    BY <1>5
  <2> QED BY <2>1 DEF Tells, SawAll, Saw, WaitsAt, Carries
<1> QED BY <1>1, <1>2, <1>3, <1>4, <1>5 DEF StartUp

\* A record of which only the queue changes.
OnlyQueue(c, d) == QueueOnly(c, d) /\ SameRest(c, d)

LEMMA OnlyQueueRest ==
  ASSUME NEW c, NEW d, OnlyQueue(c, d)
  PROVE  /\ Started(c) => Started(d)
         /\ \A b, m : KeysOf(b, c, m) => KeysOf(b, d, m)
         /\ \A b, m, n : Tells(b, c, m, n) => Tells(b, d, m, n)
         /\ \A k : Saw(d, k) <=> Saw(c, k)
         /\ Heard(d) <=> Heard(c)
<1>1. /\ d.ns = c.ns /\ d.is_exit_node = c.is_exit_node
      /\ d.is_reset_mode = c.is_reset_mode /\ d.has_sent_node_info = c.has_sent_node_info
      /\ d.seen = c.seen /\ d.known = c.known /\ d.bpn = c.bpn /\ d.floods = c.floods
  BY DEF OnlyQueue, QueueOnly, SameRest
<1>2. (\A k : Saw(d, k) <=> Saw(c, k)) /\ (Heard(d) <=> Heard(c))
  BY <1>1 DEF Saw, Heard
<1>3. Started(c) => Started(d)
  BY <1>1, <1>2 DEF Started
<1>4. \A b, m : KeysOf(b, c, m) => KeysOf(b, d, m)
  BY <1>1 DEF KeysOf
<1>5. ASSUME NEW b, NEW m, NEW n, Tells(b, c, m, n) PROVE Tells(b, d, m, n)
  BY <1>1, <1>2, <1>5 DEF Tells, SawAll, WaitsAt
<1> QED BY <1>2, <1>3, <1>4, <1>5

LEMMA GiveUpKeepsStartUp ==
  ASSUME TypeOK, TypeOK', StartUp, AllRun, NEW m \in Node, GiveUp(m), ~Excused'
  PROVE  StartUp'
<1>0. flash' = flash /\ sink' = sink
  BY DEF GiveUp
<1>1. /\ QueueOnly(np[m], np'[m]) /\ np'[m].sq = Tail(np[m].sq)
      /\ \A n \in Node : n # m => np'[n] = np[n]
  BY GiveUpEffect
<1>2. OnlyQueue(np[m], np'[m])
  BY <1>1, GiveUpRest DEF OnlyQueue
<1>3. \A n \in Node : m \in np[n].ns => n \notin Head(np[m].sq).unacked_ns
  BY GiveUpFaults DEF Excused, AllRun
<1>4. PICK c \in NodeProperties : c = np[m]
  BY DEF TypeOK
<1>5. PICK d : d = np'[m]
  OBVIOUS
<1>6. PICK s \in {0, 1} : s = 1
  OBVIOUS
<1>7. c.sq \in Seq(QueuedPacket) /\ c.sq # << >> /\ d.sq = Tail(c.sq)
  BY <1>1, <1>4, <1>5 DEF NodeProperties, GiveUp
<1>8. /\ Len(c.sq) \in Nat /\ Len(d.sq) = Len(c.sq) - s /\ Head(c.sq) = c.sq[1]
      /\ \A i \in 1..Len(d.sq) : d.sq[i] = c.sq[i + s]
  BY <1>6, <1>7, HeadTailProperties, LenProperties
<1>9. Fewer(c, d, s)
  BY <1>8 DEF Fewer
<1>10. ASSUME NEW x \in Node
       PROVE  /\ OnlyQueue(np[x], np'[x]) /\ np'[x].ns = np[x].ns
              /\ \A k : Saw(np'[x], k) <=> Saw(np[x], k)
              /\ Heard(np'[x]) <=> Heard(np[x])
              /\ OwnKeys(np'[x], x)
  <2>1. OnlyQueue(np[x], np'[x])
    BY <1>1, <1>2 DEF OnlyQueue, QueueOnly, SameRest
  <2>2. np'[x].ns = np[x].ns
    BY <2>1 DEF OnlyQueue, QueueOnly
  <2>3. (\A k : Saw(np'[x], k) <=> Saw(np[x], k)) /\ (Heard(np'[x]) <=> Heard(np[x]))
    BY <2>1, OnlyQueueRest
  <2>4. CASE x = m
    <3>1. d.seqno = c.seqno /\ OwnKeys(c, m)
      BY <1>2, <1>4, <1>5 DEF OnlyQueue, SameRest, StartUp
    <3>2. OwnKeys(d, m)
      BY <1>9, <3>1, KeysShift
    <3> QED BY <1>5, <2>1, <2>2, <2>3, <2>4, <3>2
  <2>5. CASE x # m
    BY <1>1, <2>1, <2>2, <2>3, <2>5 DEF StartUp
  <2> QED BY <2>4, <2>5
<1>11. ASSUME NEW x \in Node, NEW y \in Node PROVE KeysOf(np'[x], np'[y], x)
  <2>1. KeysOf(np[x], np'[y], x)
    BY <1>10, OnlyQueueRest DEF StartUp
  <2>2. CASE x = m
    <3>1. d.seqno = c.seqno /\ KeysOf(c, np'[y], m)
      BY <1>2, <1>4, <1>5, <2>1, <2>2 DEF OnlyQueue, SameRest
    <3>2. KeysOf(d, np'[y], m)
      BY <1>9, <3>1, KeysShift
    <3> QED BY <1>5, <2>2, <3>2
  <2>3. CASE x # m
    BY <1>1, <2>1, <2>3
  <2> QED BY <2>2, <2>3
<1>12. ASSUME NEW x \in Node, NEW y \in Node, Listens(x, y)' PROVE Tells(np'[x], np'[y], x, y)
  <2>1. Listens(x, y)
    BY <1>10, <1>12 DEF Listens, AllRun, Running
  <2>2. Tells(np[x], np'[y], x, y)
    BY <1>10, <2>1, OnlyQueueRest DEF StartUp
  <2>3. CASE x = m
    <3>1. Tells(c, np'[y], m, y) /\ d.has_sent_node_info = c.has_sent_node_info /\ d.seen = c.seen
      BY <1>1, <1>4, <1>5, <2>2, <2>3 DEF QueueOnly
    <3>2. y \notin c.sq[1].unacked_ns
      BY <1>3, <1>4, <1>8, <2>1, <2>3 DEF Listens
    <3>3. \A i \in 1..Len(d.sq) :
            i + s # 1 /\ y \in c.sq[i + s].unacked_ns => y \in d.sq[i].unacked_ns
      BY <1>8
    <3>4. Tells(d, np'[y], m, y)
      BY <1>9, <3>1, <3>2, <3>3, TellsShift
    <3> QED BY <1>5, <2>3, <3>4
  <2>4. CASE x # m
    BY <1>1, <2>2, <2>4
  <2> QED BY <2>3, <2>4
<1>13. ASSUME NEW x \in Node, np'[x].ns # {} PROVE Started(np'[x])
  BY <1>10, <1>13, OnlyQueueRest DEF StartUp
<1>14. \A x \in SinkRange : sink'.initialized /\ np'[x].ns # {} => Heard(np'[x])
  BY <1>0, <1>10, NodeLifecycleAssumption DEF StartUp
<1>15. FlashGood'
  BY <1>0 DEF StartUp, FlashGood
<1> QED BY <1>0, <1>10, <1>11, <1>12, <1>13, <1>14, <1>15, StartUpLater

\* An INITIALIZE that a node has not seen finds it not started.
LEMMA FreshInit ==
  ASSUME NEW I \in SUBSET Nat, NEW R \in SUBSET Nat, Alternate(I, R), NEW c, NEW p,
         NodeGood(c, I, R), InTurn(c, p, I \cup R), FromHistory(p, I, R), Started(c),
         p.type = "INITIALIZE_BEST_PATHS", p.key \notin c.seen
  PROVE  ~c.has_sent_node_info
<1> SUFFICES ASSUME c.has_sent_node_info PROVE FALSE
  OBVIOUS
<1>1. ~c.is_reset_mode /\ Heard(c)
  BY DEF Started
<1>2. LastIs(c, I, R) /\ SeenInOrder(c, I \cup R)
  BY <1>1 DEF NodeGood, Heard
<1>3. PICK j \in I : p.key = <<Sink, j>>
  BY DEF FromHistory
<1>4. ~Saw(c, j)
  BY <1>3 DEF Saw
<1>5. \A i \in I : i < j => \E r \in R : i < r /\ r < j
  BY DEF Alternate
<1>6. \A k \in I \cup R : k < j => Saw(c, k)
  BY <1>3 DEF InTurn
<1> QED BY <1>2, <1>4, <1>5, <1>6, NoneTwice

\* Who has seen all that a started node has, and no more, is not in reset mode.
LEMMA SameSeenSameMode ==
  ASSUME NEW I \in SUBSET Nat, NEW R \in SUBSET Nat, NEW c, NEW e,
         NodeGood(c, I, R), NodeGood(e, I, R), Started(c), c.has_sent_node_info,
         SawAll(c, e), SawAll(e, c)
  PROVE  ~e.is_reset_mode
<1> SUFFICES ASSUME e.is_reset_mode PROVE FALSE
  OBVIOUS
<1>1. LastIs(c, I, R)
  BY DEF NodeGood, Heard, Started
<1>2. PICK i \in I : Saw(c, i) /\ \A r \in R : Saw(c, r) => r < i
  BY <1>1 DEF LastIs
<1>3. LastIs(e, R, I)
  BY DEF NodeGood
<1>4. PICK r \in R : Saw(e, r) /\ \A k \in I : Saw(e, k) => k < r
  BY <1>3 DEF LastIs
<1>5. i < r /\ r < i
  BY <1>2, <1>4 DEF SawAll
<1> QED BY <1>5

LEMMA FromHistoryKey ==
  ASSUME NEW p \in Packet, NEW I, NEW R, FromHistory(p, I, R)
  PROVE  SinkKey(p)
  BY DEF Packet, FromHistory, SinkKey

\* Packet p goes from m to n.
Delivered(I, R, m, n, p) ==
  /\ flash' = flash /\ sink' = sink /\ ~Over
  /\ m # n /\ n \in np[m].ns /\ m \in np[n].ns
  /\ flash[m] = "whole" /\ flash[n] = "whole"
  /\ 1 \in 1..Len(np[m].sq) /\ n \in np[m].sq[1].unacked_ns
  /\ \E s \in {0, 1} : Shifted(np[m].sq, np'[m].sq, n, s)
  /\ p \in Packet /\ FromHistory(p, I, R) /\ InTurn(np[n], p, I \cup R)
  /\ NodeGood(np[m], I, R) /\ NodeGood(np[n], I, R)
  /\ OnlyQueue(np[m], np'[m])
  /\ np'[n].ns = np[n].ns /\ np'[n].is_exit_node = np[n].is_exit_node
  /\ np'[n].floods = np[n].floods /\ Kind(np[n], np'[n], n, m, p)
  /\ \A x \in Node : x # m /\ x # n => np'[x] = np[x]

LEMMA DeliverFacts ==
  ASSUME NEW I \in SUBSET Nat, NEW R \in SUBSET Nat, TypeOK, TypeOK', J(I, R), AllRun, AllRun',
         NEW m \in Node, NEW n \in Node, Deliver(m, n), NEW p, p = np[m].sq[1].p
  PROVE  Delivered(I, R, m, n, p)
<1>0. /\ flash' = flash /\ sink' = sink
      /\ \A x \in Node : np[x] \in NodeProperties /\ np'[x] \in NodeProperties
      /\ flash[n] \in {"blank", "torn", "whole"}
  <2>1. UNCHANGED <<flash, sink, alarms, faults>>
    BY Zenon DEF Deliver
  <2> QED BY <2>1 DEF TypeOK
<1>1. /\ np[m].sq # << >> /\ n \in Head(np[m].sq).unacked_ns /\ m \in np[n].ns
      /\ Running(m) /\ Running(n)
      /\ Head(np[m].sq).p \in Packet
      /\ m # n => /\ QueueOnly(np[m], np'[m])
                  /\ np'[m].sq = Acknowledged(np[m].sq, n)
                  /\ np'[n] = Received(np[n], n, m, Head(np[m].sq).p)
      /\ \A x \in Node : x # m /\ x # n => np'[x] = np[x]
  BY DeliverEffect
<1>2. ~Over
  BY <1>1 DEF J, Over
<1>3. NetworkGood(I, R) /\ PairsGood(I, R) /\ NodesGood(I, R) /\ Alternate(I, R)
  BY <1>2 DEF J
<1>4. /\ Head(np[m].sq) = np[m].sq[1] /\ 1 \in 1..Len(np[m].sq)
      /\ \E s \in {0, 1} : Shifted(np[m].sq, Acknowledged(np[m].sq, n), n, s)
  <2>1. np[m].sq \in Seq(QueuedPacket)
    BY <1>0 DEF NodeProperties
  <2>2. PICK v : v = Acknowledged(np[m].sq, n)
    OBVIOUS
  <2> QED BY <1>1, <2>1, <2>2, AcknowledgedEffect
<1>5. n \in np[m].ns /\ m # n /\ flash[m] = "whole" /\ flash[n] = "whole"
  <2>1. n \in np[m].ns
    BY <1>1, <1>3, <1>4 DEF NodesGood, QueueGood
  <2>2. n \in Table[m] /\ flash[m] = "whole" /\ flash[n] = "whole"
    BY <1>1, <1>3, <2>1 DEF NodesGood, SetUp
  <2> QED BY <2>1, <2>2, NodeLifecycleAssumption
<1>6. /\ np'[n] = Received(np[n], n, m, p) /\ p \in Packet
      /\ \E s \in {0, 1} : Shifted(np[m].sq, np'[m].sq, n, s)
  BY <1>1, <1>4, <1>5
<1>7. OnlyQueue(np[m], np'[m])
  BY <1>1, <1>5, DeliverRest DEF OnlyQueue
<1>8. NodeGood(np[m], I, R) /\ NodeGood(np[n], I, R)
  BY <1>1, <1>3, <1>5 DEF NetworkGood, InNetwork, Running
<1>9. PICK c \in NodeProperties, e \in NodeProperties : c = np[m] /\ e = np[n]
  BY <1>0
<1>10. Ready(e, n, p, I, R)
  <2>1. Listens(m, n) /\ InNetwork(n)
    BY <1>1, <1>5 DEF Listens, InNetwork, Running
  <2>2. /\ QueueGood(c, I, R) /\ Between(c, e, n, I \cup R)
        /\ 1 \in 1..Len(c.sq) /\ n \in c.sq[1].unacked_ns
        /\ SetUp(e, n) /\ QueueGood(e, I, R) /\ ExitGood(e, n, I, R) /\ NodeGood(e, I, R)
        /\ e.stopped = "no" /\ e.ns # {}
    BY <1>1, <1>3, <1>4, <1>8, <1>9, <2>1 DEF NodesGood, PairsGood, InNetwork
  <2> QED BY <1>9, <2>2, DeliveredInTurn
<1>11. FromHistory(p, I, R) /\ InTurn(np[n], p, I \cup R)
  BY <1>1, <1>9, <1>10 DEF Ready
<1>12. PICK d : d = np'[n]
  OBVIOUS
<1>13. d = Received(e, n, m, p) /\ d.stopped = "no"
  BY <1>6, <1>9, <1>12 DEF AllRun, Running
<1>14. m \in Node \cup {Sink} /\ (p.type = "NODE_INFO" => m \in Node) /\ p \in Packet
  BY <1>6
<1>15. d.ns = e.ns /\ d.is_exit_node = e.is_exit_node
  <2>1. Got(e, d, p, I, R)
    BY <1>0, <1>3, <1>10, <1>13, <1>14, Receipt
  <2> QED BY <2>1 DEF Got
<1>16. d.floods = e.floods /\ Kind(e, d, n, m, p)
  BY <1>0, <1>13, <1>14, Kinds
<1> QED
  BY <1>0, <1>1, <1>2, <1>4, <1>5, <1>6, <1>7, <1>8, <1>9, <1>11, <1>12, <1>15, <1>16
  DEF Delivered

LEMMA DeliverKeepsStartUp ==
  ASSUME NEW I \in SUBSET Nat, NEW R \in SUBSET Nat, TypeOK, TypeOK', J(I, R), J(I, R)',
         StartUp, AllRun, AllRun', NEW m \in Node, NEW n \in Node, Deliver(m, n)
  PROVE  StartUp'
<1>0. PICK p : p = np[m].sq[1].p
  OBVIOUS
<1>1. /\ flash' = flash /\ sink' = sink /\ ~Over
      /\ m # n /\ n \in np[m].ns /\ m \in np[n].ns
      /\ flash[m] = "whole" /\ flash[n] = "whole"
      /\ 1 \in 1..Len(np[m].sq) /\ n \in np[m].sq[1].unacked_ns
      /\ \E s \in {0, 1} : Shifted(np[m].sq, np'[m].sq, n, s)
      /\ p \in Packet /\ FromHistory(p, I, R) /\ InTurn(np[n], p, I \cup R)
      /\ NodeGood(np[m], I, R) /\ NodeGood(np[n], I, R)
      /\ OnlyQueue(np[m], np'[m])
      /\ np'[n].ns = np[n].ns /\ np'[n].is_exit_node = np[n].is_exit_node
      /\ np'[n].floods = np[n].floods /\ Kind(np[n], np'[n], n, m, p)
      /\ \A x \in Node : x # m /\ x # n => np'[x] = np[x]
  <2>1. Delivered(I, R, m, n, p)
    BY <1>0, DeliverFacts
  <2> QED BY <2>1 DEF Delivered
<1>2. PICK a \in NodeProperties, e \in NodeProperties : a = np[m] /\ e = np[n]
  BY DEF TypeOK
<1>3. PICK b \in NodeProperties, f \in NodeProperties : b = np'[m] /\ f = np'[n]
  BY DEF TypeOK
<1>4. PICK s \in {0, 1} : Shifted(a.sq, b.sq, n, s)
  BY <1>1, <1>2, <1>3
<1>5. /\ Kind(e, f, n, m, p) /\ e.ns # {} /\ f.ns = e.ns /\ f.is_exit_node = e.is_exit_node
      /\ f.floods = e.floods /\ p = a.sq[1].p /\ 1 \in 1..Len(a.sq) /\ n \in a.sq[1].unacked_ns
      /\ OnlyQueue(a, b) /\ p \in Packet
  BY <1>0, <1>1, <1>2, <1>3
<1>6. SinkKey(p)
  BY <1>1, FromHistoryKey
<1>7. /\ OwnKeys(a, m) /\ OwnKeys(e, n) /\ KeysOf(a, e, m) /\ Started(a) /\ Started(e)
      /\ Tells(a, e, m, n)
  <2>1. Listens(m, n)
    BY <1>1 DEF Listens, AllRun, Running
  <2> QED BY <1>1, <1>2, <2>1 DEF StartUp
<1>8. More(e, f, n) /\ Remembered(e, f, n, p)
  BY <1>5, KindEffect
<1>9. \A k : Saw(e, k) => Saw(f, k)
  BY <1>8 DEF Remembered, Saw
<1>10. /\ b.has_sent_node_info = a.has_sent_node_info /\ b.seen = a.seen /\ b.ns = a.ns
       /\ b.seqno = a.seqno
  BY <1>5 DEF OnlyQueue, QueueOnly, SameRest
<1>11. Fewer(a, b, s)
  BY <1>4 DEF Fewer, Shifted
<1>12. p.type = "NODE_INFO" => \E j \in Nat : j < a.seqno /\ p.key = <<m, j>>
  <2> SUFFICES ASSUME p.type = "NODE_INFO" PROVE \E j \in Nat : j < a.seqno /\ p.key = <<m, j>>
    OBVIOUS
  <2>1. IsOwnInfo(a.sq[1].p)
    BY <1>5, <1>6 DEF SinkKey, IsOwnInfo
  <2> QED BY <1>5, <1>7, <2>1 DEF OwnKeys
<1>13. p.key[1] = Sink \/ p.key[1] = m
  BY <1>6, <1>12 DEF SinkKey
<1>14. p.type = "NODE_INFO" => Heard(e)
  BY <1>1, <1>2 DEF InTurn, Heard
<1>15. p.type = "INITIALIZE_BEST_PATHS" /\ p.key \notin e.seen => ~e.has_sent_node_info
  <2>1. Alternate(I, R) /\ NodeGood(e, I, R) /\ InTurn(e, p, I \cup R)
    BY <1>1, <1>2 DEF J
  <2> QED BY <1>1, <1>7, <2>1, FreshInit
<1>16. Started(f)
  BY <1>1, <1>2, <1>5, <1>6, <1>7, <1>14, StartedKept
<1>17. ASSUME NEW x \in Node
       PROVE  /\ OwnKeys(np'[x], x) /\ np'[x].ns = np[x].ns
              /\ np'[x].ns # {} => Started(np'[x])
              /\ \A k : Saw(np[x], k) => Saw(np'[x], k)
  <2>1. CASE x = n
    <3>1. OwnKeys(f, n)
      BY <1>7, <1>8, OwnKeysGrow
    <3> QED BY <1>2, <1>3, <1>5, <1>9, <1>16, <2>1, <3>1
  <2>2. CASE x = m
    <3>1. OwnKeys(b, m)
      BY <1>7, <1>10, <1>11, KeysShift
    <3>2. Started(b) /\ \A k : Saw(b, k) <=> Saw(a, k)
      BY <1>5, <1>7, OnlyQueueRest
    <3> QED BY <1>2, <1>3, <1>10, <2>2, <3>1, <3>2
  <2>3. CASE x # m /\ x # n
    BY <1>1, <2>3 DEF StartUp
  <2> QED BY <2>1, <2>2, <2>3
<1>18. ASSUME NEW x \in Node, NEW y \in Node PROVE KeysOf(np'[x], np'[y], x)
  <2>1. PICK g \in NodeProperties : g = np[y]
    BY DEF TypeOK
  <2>2. KeysOf(np[x], g, x)
    BY <2>1 DEF StartUp
  <2>3. KeysOf(np'[x], g, x)
    <3>1. CASE x = n
      <4>1. KeysOf(e, g, n)
        BY <1>2, <2>2, <3>1
      <4>2. \A j : <<n, j>> \in g.seen \/ <<n, j>> \in g.floods => j \in Nat
        BY NumbersTyped
      <4>3. KeysOf(f, g, n)
        BY <1>7, <1>8, <4>1, <4>2, KeysOfSender
      <4> QED BY <1>3, <3>1, <4>3
    <3>2. CASE x = m
      <4>1. KeysOf(a, g, m)
        BY <1>2, <2>2, <3>2
      <4>2. KeysOf(b, g, m)
        BY <1>10, <1>11, <4>1, KeysShift
      <4> QED BY <1>3, <3>2, <4>2
    <3>3. CASE x # m /\ x # n
      BY <1>1, <2>2, <3>3
    <3> QED BY <3>1, <3>2, <3>3
  <2>4. CASE y = n
    <3>1. PICK h : h = np'[x]
      OBVIOUS
    <3>2. KeysOf(h, e, x)
      BY <1>2, <2>1, <2>3, <2>4, <3>1
    <3>3. ASSUME NEW j, <<x, j>> \in f.seen PROVE <<x, j>> \in e.seen \/ j < h.seqno
      <4>1. CASE <<x, j>> = p.key
        <5>1. p.type = "NODE_INFO"
          BY <1>6, <4>1, NodeLifecycleAssumption DEF SinkKey
        <5>2. x = m /\ j < b.seqno
          BY <1>10, <1>12, <4>1, <5>1
        <5> QED BY <1>3, <3>1, <5>2
      <4>2. CASE <<x, j>> = <<n, e.seqno>> /\ e.seqno < f.seqno
        BY <1>3, <3>1, <4>2
      <4> QED BY <1>8, <3>3, <4>1, <4>2 DEF Remembered
    <3>4. KeysOf(h, f, x)
      BY <1>5, <3>2, <3>3, KeysOfReceiver
    <3> QED BY <1>3, <2>4, <3>1, <3>4
  <2>5. CASE y = m
    <3>1. KeysOf(np'[x], a, x)
      BY <1>2, <2>1, <2>3, <2>5
    <3>2. KeysOf(np'[x], b, x)
      BY <1>5, <3>1, OnlyQueueRest
    <3> QED BY <1>3, <2>5, <3>2
  <2>6. CASE y # m /\ y # n
    BY <1>1, <2>1, <2>3, <2>6
  <2> QED BY <2>4, <2>5, <2>6
<1>19. ASSUME NEW x \in Node, NEW y \in Node, Listens(x, y)' PROVE Tells(np'[x], np'[y], x, y)
  <2>1. Listens(x, y) /\ y \in np[x].ns
    BY <1>17, <1>19 DEF Listens, AllRun, Running
  <2>2. Tells(np[x], np[y], x, y)
    BY <2>1 DEF StartUp
  <2>3. x # y
    <3>1. y \in Table[x]
      BY <2>1 DEF J, NodesGood, SetUp
    <3> QED BY <3>1, NodeLifecycleAssumption
  <2>4. CASE x = m /\ y = n
    <3>1. a.has_sent_node_info /\ SawAll(a, e) /\ SawAll(e, a) => ~e.is_reset_mode
      <4>1. NodeGood(a, I, R) /\ NodeGood(e, I, R)
        BY <1>1, <1>2
      <4> QED BY <1>7, <4>1, SameSeenSameMode
    <3>2. Tells(b, f, m, n)
      BY <1>1, <1>4, <1>5, <1>6, <1>7, <1>10, <3>1, TellsDelivered
    <3> QED BY <1>3, <2>4, <3>2
  <2>5. x # m \/ y # n => Tells(np[x], np'[y], x, y)
    <3>1. CASE y = n /\ x # m
      <4>1. PICK c : c = np[x]
        OBVIOUS
      <4>2. OwnKeys(c, x) /\ Tells(c, e, x, n)
        BY <1>2, <2>2, <3>1, <4>1 DEF StartUp
      <4>3. p.key[1] # x
        BY <1>13, <3>1, NodeLifecycleAssumption
      <4>4. Tells(c, f, x, n)
        BY <1>5, <1>6, <2>3, <3>1, <4>2, <4>3, TellsReceiver
      <4> QED BY <1>3, <3>1, <4>1, <4>4
    <3>2. CASE y = m
      <4>1. Tells(np[x], a, x, m)
        BY <1>2, <2>2, <3>2
      <4>2. Tells(np[x], b, x, m)
        BY <1>5, <4>1, OnlyQueueRest
      <4> QED BY <1>3, <3>2, <4>2
    <3>3. CASE y # m /\ y # n
      BY <1>1, <2>2, <3>3
    <3> QED BY <3>1, <3>2, <3>3
  <2>6. PICK g : g = np'[y]
    OBVIOUS
  <2>7. CASE x = m /\ y # n
    <3>1. Tells(a, g, m, y)
      BY <1>2, <2>5, <2>6, <2>7
    <3>2. \A i \in 1..Len(b.sq) :
            i + s # 1 /\ y \in a.sq[i + s].unacked_ns => y \in b.sq[i].unacked_ns
      BY <1>4 DEF Shifted
    <3>3. y \in a.sq[1].unacked_ns => s = 0 /\ y \in b.sq[1].unacked_ns
      <4> SUFFICES ASSUME y \in a.sq[1].unacked_ns PROVE s = 0 /\ y \in b.sq[1].unacked_ns
        OBVIOUS
      <4>1. s = 0
        BY <1>4, <2>7 DEF Shifted
      <4>2. 1 \in 1..Len(b.sq)
        <5>1. Len(a.sq) \in Nat
          BY LenProperties DEF NodeProperties
        <5> QED BY <1>4, <1>5, <4>1, <5>1 DEF Shifted
      <4>3. 1 + s = 1
        BY <4>1
      <4> QED BY <1>4, <2>7, <4>1, <4>2, <4>3 DEF Shifted
    <3>4. Tells(b, g, m, y)
      BY <1>10, <1>11, <3>1, <3>2, <3>3, TellsShift
    <3> QED BY <1>3, <2>6, <2>7, <3>4
  <2>8. CASE x = n
    <3>1. Tells(e, g, n, y) /\ y \in e.ns
      BY <1>1, <1>2, <2>1, <2>5, <2>6, <2>8
    <3>2. KeysOf(e, g, n)
      <4>1. CASE y = m
        <5>1. KeysOf(e, a, n)
          BY <1>2 DEF StartUp
        <5> QED BY <1>3, <1>5, <2>6, <4>1, <5>1, OnlyQueueRest
      <4>2. CASE y # m
        BY <1>1, <1>2, <2>3, <2>6, <2>8, <4>2 DEF StartUp
      <4> QED BY <4>1, <4>2
    <3>3. Forwarded(f, g, y)
      <4>1. ~Over'
        BY <1>1 DEF Over
      <4>2. Forwarded(np[x], np[y], y)'
        BY <1>19, <4>1 DEF J, PairsGood, Between
      <4> QED BY <1>3, <2>6, <2>8, <4>2 DEF Forwarded, Saw, Carries
    <3>4. Tells(f, g, n, y)
      BY <1>1, <1>5, <1>6, <1>7, <1>15, <3>1, <3>2, <3>3, TellsSender
    <3> QED BY <1>3, <2>6, <2>8, <3>4
  <2>9. CASE x # m /\ x # n
    BY <1>1, <2>5, <2>9
  <2> QED BY <2>4, <2>7, <2>8, <2>9
<1>20. \A x \in SinkRange : sink'.initialized /\ np'[x].ns # {} => Heard(np'[x])
  BY <1>1, <1>17, NodeLifecycleAssumption DEF StartUp, Heard
<1>21. FlashGood'
  BY <1>1 DEF StartUp, FlashGood
<1> QED BY <1>1, <1>17, <1>18, <1>19, <1>20, <1>21, StartUpLater

\* What a command of the sink finds and does.
LEMMA CommandFacts ==
  ASSUME NEW I \in SUBSET Nat, NEW R \in SUBSET Nat, TypeOK, TypeOK', J(I, R),
         NEW I1, NEW R1, J(I1, R1)', ~Over, AllRun, AllRun',
         NEW type \in {"INITIALIZE_BEST_PATHS", "RESET_SYSTEM"}, SinkBroadcasts(type),
         ~(faults' > 0), type = "INITIALIZE_BEST_PATHS" => ~sink.initialized,
         NEW p, p = [type |-> type, key |-> <<Sink, sink.seqno>>],
         NEW n \in Node
  PROVE  /\ np'[n].ns = np[n].ns /\ np'[n].is_exit_node = np[n].is_exit_node
         /\ np[n].ns # {} => flash[n] = "whole" /\ n \notin np[n].ns
         /\ n \notin SinkRange => np'[n] = np[n]
         /\ n \in SinkRange =>
              /\ np'[n].floods = np[n].floods /\ Kind(np[n], np'[n], n, Sink, p)
              /\ np[n].ns # {} /\ p.type = "INITIALIZE_BEST_PATHS" /\ Started(np[n]) =>
                   ~np[n].has_sent_node_info
<1>0. /\ sink.seqno \in Nat /\ p \in Packet /\ p.type = type /\ p.key = <<Sink, sink.seqno>>
      /\ flash[n] \in {"blank", "torn", "whole"} /\ flash' = flash
  BY DEF TypeOK, Packet, SinkBroadcasts
<1>1. np'[n] = IF n \in SinkRange THEN Received(np[n], n, Sink, p) ELSE np[n]
  <2>1. np' = [x \in Node |-> IF x \in SinkRange /\ Running(x)
                              THEN Received(np[x], x, Sink, p) ELSE np[x]]
    BY SinkFaults
  <2> QED BY <2>1 DEF AllRun
<1>2. PICK c \in NodeProperties : c = np[n]
  BY DEF TypeOK
<1>3. PICK d \in NodeProperties : d = np'[n]
  BY DEF TypeOK
<1>4. /\ c.ns = IF flash[n] = "whole" THEN Table[n] ELSE {}
      /\ c.is_exit_node <=> flash[n] = "whole" /\ n \in Exits
  BY <1>2 DEF J, NodesGood, SetUp
<1>5. /\ d.ns = IF flash[n] = "whole" THEN Table[n] ELSE {}
      /\ d.is_exit_node <=> flash[n] = "whole" /\ n \in Exits
  BY <1>0, <1>3 DEF J, NodesGood, SetUp
<1>6. d.ns = c.ns /\ d.is_exit_node = c.is_exit_node
  <2>1. c.is_exit_node \in BOOLEAN /\ d.is_exit_node \in BOOLEAN
    BY DEF NodeProperties
  <2> QED BY <1>4, <1>5, <2>1
<1>7. c.ns # {} => flash[n] = "whole" /\ n \notin c.ns
  BY <1>4, NodeLifecycleAssumption
<1>8. ASSUME n \in SinkRange
      PROVE  d.floods = c.floods /\ Kind(c, d, n, Sink, p)
  <2>1. d = Received(c, n, Sink, p) /\ d.stopped = "no"
    BY <1>1, <1>2, <1>3, <1>8 DEF AllRun, Running
  <2>2. PICK q \in Packet : q = p
    BY <1>0
  <2>3. PICK m \in Node \cup {Sink} : m = Sink
    OBVIOUS
  <2>4. q.type = "NODE_INFO" => m \in Node
    BY <1>0, <2>2
  <2>5. d = Received(c, n, m, q) /\ d.stopped = "no" /\ flash[n] \in {"blank", "torn", "whole"}
    BY <1>0, <2>1, <2>2, <2>3
  <2>6. d.floods = c.floods /\ Kind(c, d, n, m, q)
    BY <2>4, <2>5, Kinds
  <2> QED BY <2>2, <2>3, <2>6
<1>9. ASSUME n \in SinkRange, c.ns # {}, p.type = "INITIALIZE_BEST_PATHS", Started(c),
             c.has_sent_node_info
      PROVE  FALSE
  <2>1. NodeGood(c, I, R) /\ \A k \in I \cup R : Saw(c, k)
    BY <1>2, <1>9 DEF J, NetworkGood, InNetwork, AllRun, Running
  <2>2. LastIs(c, I, R)
    BY <1>9, <2>1 DEF NodeGood, Started, Heard
  <2>3. PICK i \in I : \A r \in R : Saw(c, r) => r < i
    BY <2>2 DEF LastIs
  <2>4. PICK r \in R : i < r
    BY <1>0, <1>9 DEF J, HistoryInv
  <2>5. r < i
    BY <2>1, <2>3
  <2> QED BY <2>4, <2>5
<1> QED BY <1>1, <1>2, <1>3, <1>6, <1>7, <1>8, <1>9

LEMMA CommandKeepsStartUp ==
  ASSUME NEW I \in SUBSET Nat, NEW R \in SUBSET Nat, TypeOK, TypeOK', J(I, R),
         NEW I1, NEW R1, J(I1, R1)', ~Over, ~Over', StartUp, AllRun, AllRun',
         NEW type \in {"INITIALIZE_BEST_PATHS", "RESET_SYSTEM"}, SinkBroadcasts(type),
         ~(faults' > 0), type = "INITIALIZE_BEST_PATHS" => ~sink.initialized,
         type = "RESET_SYSTEM" => ~sink'.initialized
  PROVE  StartUp'
<1>0. PICK p : p = [type |-> type, key |-> <<Sink, sink.seqno>>]
  OBVIOUS
<1>1. /\ sink.seqno \in Nat /\ p \in Packet /\ p.type = type /\ p.key = <<Sink, sink.seqno>>
      /\ p.type # "NODE_INFO" /\ flash' = flash
  BY <1>0 DEF TypeOK, Packet, SinkBroadcasts
<1>2. SinkKey(p)
  BY <1>1 DEF SinkKey
<1>3. ASSUME NEW x \in Node
      PROVE  /\ np'[x].ns = np[x].ns /\ np'[x].is_exit_node = np[x].is_exit_node
             /\ np[x].ns # {} => flash[x] = "whole" /\ x \notin np[x].ns
             /\ x \notin SinkRange => np'[x] = np[x]
             /\ x \in SinkRange =>
                  /\ np'[x].floods = np[x].floods /\ Kind(np[x], np'[x], x, Sink, p)
                  /\ np[x].ns # {} /\ p.type = "INITIALIZE_BEST_PATHS" /\ Started(np[x]) =>
                       ~np[x].has_sent_node_info
  BY <1>0, CommandFacts
<1>4. ASSUME NEW x \in Node, x \in SinkRange
      PROVE  /\ More(np[x], np'[x], x) /\ Remembered(np[x], np'[x], x, p)
             /\ np[x].ns # {} => p.key \in np'[x].seen
  <2>1. PICK c \in NodeProperties : c = np[x]
    BY DEF TypeOK
  <2>2. PICK d : d = np'[x]
    OBVIOUS
  <2>3. Kind(c, d, x, Sink, p)
    BY <1>3, <1>4, <2>1, <2>2
  <2>4. More(c, d, x) /\ Remembered(c, d, x, p) /\ (c.ns # {} => p.key \in d.seen)
    BY <1>1, <2>3, KindEffect
  <2> QED BY <2>1, <2>2, <2>4
<1>5. ASSUME NEW x \in Node
      PROVE  OwnKeys(np'[x], x) /\ (np'[x].ns # {} => Started(np'[x]))
  <2>1. CASE x \in SinkRange
    <3>1. OwnKeys(np'[x], x)
      BY <1>4, <2>1, OwnKeysGrow DEF StartUp
    <3>2. ASSUME np[x].ns # {} PROVE Started(np'[x])
      <4>1. PICK c \in NodeProperties : c = np[x]
        BY DEF TypeOK
      <4>2. PICK d : d = np'[x]
        OBVIOUS
      <4>3. /\ c.ns # {} /\ d.ns = c.ns /\ d.is_exit_node = c.is_exit_node /\ flash[x] = "whole"
            /\ Kind(c, d, x, Sink, p) /\ Started(c)
        BY <1>3, <2>1, <3>2, <4>1, <4>2 DEF StartUp
      <4>4. Started(d)
        BY <1>1, <1>2, <4>3, StartedKept
      <4> QED BY <4>2, <4>4
    <3> QED BY <1>3, <3>1, <3>2
  <2>2. CASE x \notin SinkRange
    BY <1>3, <2>2 DEF StartUp
  <2> QED BY <2>1, <2>2
\* The receiver's memory grows by the command, and by what it tells.
<1>6. ASSUME NEW x \in Node, NEW y \in Node, NEW c, KeysOf(c, np[y], x),
             x = y => np'[x].seqno <= c.seqno /\ c.seqno \in Nat
      PROVE  KeysOf(c, np'[y], x)
  <2>1. CASE y \in SinkRange
    <3>1. PICK e \in NodeProperties : e = np[y]
      BY DEF TypeOK
    <3>2. PICK f \in NodeProperties : f = np'[y]
      BY DEF TypeOK
    <3>3. e.seqno \in Nat /\ f.seqno \in Nat
      BY NumbersTyped
    <3>4. ASSUME NEW j, <<x, j>> \in f.seen PROVE <<x, j>> \in e.seen \/ j < c.seqno
      <4>1. <<x, j>> # p.key
        BY <1>1, NodeLifecycleAssumption
      <4>2. <<x, j>> \in e.seen \/ (<<x, j>> = <<y, e.seqno>> /\ e.seqno < f.seqno)
        BY <1>4, <2>1, <3>1, <3>2, <3>4, <4>1 DEF Remembered
      <4>3. <<x, j>> = <<y, e.seqno>> /\ e.seqno < f.seqno => j < c.seqno
        BY <1>6, <3>2, <3>3
      <4> QED BY <4>2, <4>3
    <3>5. f.floods \subseteq e.floods
      BY <1>3, <2>1, <3>1, <3>2
    <3>6. KeysOf(c, f, x)
      BY <1>6, <3>1, <3>4, <3>5, KeysOfReceiver
    <3> QED BY <3>2, <3>6
  <2>2. CASE y \notin SinkRange
    BY <1>3, <1>6, <2>2
  <2> QED BY <2>1, <2>2
<1>7. ASSUME NEW x \in Node, NEW y \in Node PROVE KeysOf(np'[x], np'[y], x)
  <2>1. KeysOf(np'[x], np[y], x)
    <3>1. CASE x \in SinkRange
      <4>1. PICK g \in NodeProperties : g = np[y]
        BY DEF TypeOK
      <4>2. \A j : <<x, j>> \in g.seen \/ <<x, j>> \in g.floods => j \in Nat
        BY NumbersTyped
      <4>3. PICK c, d : c = np[x] /\ d = np'[x]
        OBVIOUS
      <4>4. OwnKeys(c, x) /\ KeysOf(c, g, x) /\ More(c, d, x)
        BY <1>4, <3>1, <4>1, <4>3 DEF StartUp
      <4>5. KeysOf(d, g, x)
        BY <4>2, <4>4, KeysOfSender
      <4> QED BY <4>1, <4>3, <4>5
    <3>2. CASE x \notin SinkRange
      BY <1>3, <3>2 DEF StartUp
    <3> QED BY <3>1, <3>2
  <2>2. np'[x].seqno \in Nat
    <3>1. PICK d \in NodeProperties : d = np'[x]
      BY DEF TypeOK
    <3> QED BY <3>1, NumbersTyped
  <2> QED BY <1>6, <2>1, <2>2
<1>8. ASSUME NEW x \in Node, NEW y \in Node, Listens(x, y)' PROVE Tells(np'[x], np'[y], x, y)
  <2>1. Listens(x, y) /\ y \in np[x].ns /\ np[x].ns # {} /\ np[y].ns # {} /\ x # y
    <3>1. Listens(x, y)
      BY <1>3, <1>8 DEF Listens, AllRun, Running
    <3> QED BY <1>3, <3>1 DEF Listens
  <2>2. PICK c \in NodeProperties : c = np[x]
    BY DEF TypeOK
  <2>3. PICK d, f : d = np'[x] /\ f = np'[y]
    OBVIOUS
  <2>4. Tells(c, f, x, y)
    <3>1. PICK e \in NodeProperties : e = np[y]
      BY DEF TypeOK
    <3>2. Tells(c, e, x, y) /\ OwnKeys(c, x) /\ e.ns # {}
      BY <2>1, <2>2, <3>1 DEF StartUp
    <3>3. CASE y \in SinkRange
      <4>1. Kind(e, f, y, Sink, p)
        BY <1>3, <2>3, <3>1, <3>3
      <4>2. p.key[1] # x
        BY <1>1, NodeLifecycleAssumption
      <4> QED BY <1>1, <1>2, <2>1, <3>2, <4>1, <4>2, TellsReceiver
    <3>4. CASE y \notin SinkRange
      BY <1>3, <2>3, <3>1, <3>2, <3>4
    <3> QED BY <3>3, <3>4
  <2>5. CASE x \in SinkRange
    <3>1. KeysOf(c, f, x)
      BY <1>6, <2>1, <2>2, <2>3 DEF StartUp
    <3>2. /\ y \in c.ns /\ flash[x] = "whole" /\ Kind(c, d, x, Sink, p) /\ Started(c)
          /\ p.type = "INITIALIZE_BEST_PATHS" /\ p.key \notin c.seen => ~c.has_sent_node_info
      BY <1>3, <2>1, <2>2, <2>3, <2>5 DEF StartUp
    <3>3. Forwarded(d, f, y)
      <4>1. Forwarded(np[x], np[y], y)'
        BY <1>8 DEF J, PairsGood, Between
      <4> QED BY <2>3, <4>1 DEF Forwarded, Saw, Carries
    <3>4. Tells(d, f, x, y)
      BY <1>1, <1>2, <2>4, <3>1, <3>2, <3>3, TellsSender
    <3> QED BY <2>3, <3>4
  <2>6. CASE x \notin SinkRange
    BY <1>3, <2>2, <2>3, <2>4, <2>6
  <2> QED BY <2>5, <2>6
<1>9. ASSUME NEW x \in SinkRange, sink'.initialized /\ np'[x].ns # {} PROVE Heard(np'[x])
  <2>1. x \in Node
    BY NodeLifecycleAssumption
  <2>2. p.key \in np'[x].seen
    BY <1>3, <1>4, <1>9, <2>1
  <2> QED BY <1>1, <2>2 DEF Heard, Saw
<1>10. FlashGood'
  BY <1>1 DEF StartUp, FlashGood
<1> QED BY <1>1, <1>5, <1>7, <1>8, <1>9, <1>10, StartUpLater

LEMMA OverStays ==
  ASSUME TypeOK, Over, [Next]_vars, ~Excused'
  PROVE  Over'
<1>0. sink \in SinkRecord
  BY DEF TypeOK, SinkRecord
<1>1. ASSUME SendInitPacket PROVE FALSE
  <2>1. sink.seqno < MaxCommands
    BY <1>1 DEF SendInitPacket, SinkBroadcasts
  <2>2. sink'.repeated
    BY <1>0, <1>1, <2>1, SendInitSink DEF Over
  <2> QED BY <2>2 DEF Excused
<1>2. ASSUME SendResetPacket PROVE FALSE
  BY <1>2 DEF SendResetPacket, Over
<1>3. ASSUME NEW n \in Node, SendSetupPacket(n) PROVE FALSE
  BY <1>3, Zenon DEF SendSetupPacket, Over
<1>4. ASSUME NEW n \in Node,
             \/ PushButton(n) \/ GiveUp(n) \/ SenseEmergency(n) \/ SendFlood(n) \/ PowerLoss(n)
             \/ \E m \in Node : Deliver(m, n)
      PROVE  sink' = sink
  BY <1>4, Zenon DEF PushButton, GiveUp, SenseEmergency, SendFlood, PowerLoss, Deliver
<1>5. sink' = sink
  BY <1>1, <1>2, <1>3, <1>4 DEF Next, vars
<1> QED BY <1>5 DEF Over

\* Who has stopped does not go on without losing power.
LEMMA StuckStays ==
  ASSUME TypeOK, [Next]_vars, ~Excused', NEW x \in Node, ~Running(x)
  PROVE  ~Running(x)'
<1>0. ~(faults' > 0)
  BY DEF Excused
<1>1. CASE np'[x] = np[x]
  BY <1>1 DEF Running
<1>2. CASE Inert(np[x], np'[x])
  BY <1>2 DEF Inert, Running
<1>3. ASSUME NEW type \in {"INITIALIZE_BEST_PATHS", "RESET_SYSTEM"}, SinkBroadcasts(type)
      PROVE  np'[x] = np[x]
  <2>1. np' = [n \in Node |->
                 IF n \in SinkRange /\ Running(n)
                 THEN Received(np[n], n, Sink, [type |-> type, key |-> <<Sink, sink.seqno>>])
                 ELSE np[n]]
    BY <1>0, <1>3, SinkFaults
  <2> QED BY <2>1
<1>4. CASE SendInitPacket
  <2>1. SinkBroadcasts("INITIALIZE_BEST_PATHS")
    BY <1>4 DEF SendInitPacket
  <2> QED BY <1>1, <1>3, <2>1
<1>5. CASE SendResetPacket
  <2>1. SinkBroadcasts("RESET_SYSTEM")
    BY <1>5 DEF SendResetPacket
  <2> QED BY <1>1, <1>3, <2>1
<1>6. ASSUME NEW n \in Node, SendSetupPacket(n) PROVE np'[x] = np[x]
  <2>1. Running(n)
    BY <1>6 DEF SendSetupPacket
  <2> QED BY <1>6, <2>1, SendSetupPacketEffect
<1>7. ASSUME NEW m \in Node, NEW n \in Node, Deliver(m, n) PROVE np'[x] = np[x]
  BY <1>7, DeliverEffect
<1>8. ASSUME NEW n \in Node, GiveUp(n) PROVE np'[x] = np[x]
  <2>1. Running(n)
    BY <1>8 DEF GiveUp
  <2> QED BY <1>8, <2>1, GiveUpEffect
<1>9. ASSUME NEW n \in Node, PushButton(n) \/ SenseEmergency(n) \/ SendFlood(n)
      PROVE  Inert(np[x], np'[x])
  <2>1. CASE PushButton(n)
    BY <2>1, PushButtonEffect
  <2>2. CASE SenseEmergency(n)
    BY <2>2, SenseEmergencyEffect
  <2>3. CASE SendFlood(n)
    BY <2>3, SendFloodEffect
  <2> QED BY <1>9, <2>1, <2>2, <2>3
<1>10. ASSUME NEW n \in Node, PowerLoss(n) PROVE FALSE
  BY <1>0, <1>10, PowerLossEffect
<1>11. CASE UNCHANGED vars
  BY <1>1, <1>11 DEF vars
<1> QED BY <1>1, <1>2, <1>4, <1>5, <1>6, <1>7, <1>8, <1>9, <1>10, <1>11 DEF Next

LEMMA NextS == SInv /\ [Next]_vars => SInv'
<1> SUFFICES ASSUME SInv, [Next]_vars PROVE SInv'
  OBVIOUS
<1>0. TypeOK /\ TypeOK' /\ JInv /\ JInv'
  BY NextTyped, NextJ DEF SInv, JInv
<1>1. CASE Excused'
  BY <1>0, <1>1 DEF SInv
<1>2. CASE Over' \/ ~AllRun'
  BY <1>0, <1>2 DEF SInv
<1>3. CASE ~Excused' /\ ~Over' /\ AllRun'
  <2>1. ~Excused
    BY <1>0, <1>3, ExcusedStays
  <2>2. ~Over
    BY <1>0, <1>3, OverStays
  <2>3. AllRun
    BY <1>0, <1>3, StuckStays DEF AllRun
  <2>4. StartUp
    BY <2>1, <2>2, <2>3 DEF SInv
  <2>5. PICK I \in SUBSET Nat, R \in SUBSET Nat : J(I, R)
    BY <1>0, <2>1 DEF JInv
  <2>6. PICK I1 \in SUBSET Nat, R1 \in SUBSET Nat : J(I1, R1)'
    BY <1>0, <1>3 DEF JInv
  <2>7. sink \in SinkRecord
    BY <1>0 DEF TypeOK, SinkRecord
  <2>8. ~(faults' > 0)
    BY <1>3 DEF Excused
  <2>9. CASE SendInitPacket
    <3> DEFINE type == "INITIALIZE_BEST_PATHS"
    <3>1. SinkBroadcasts(type) /\ sink.seqno < MaxCommands
      BY <2>9 DEF SendInitPacket, SinkBroadcasts
    <3>2. ~sink.initialized
      BY <1>3, <2>7, <2>9, <3>1, SendInitSink DEF Excused
    <3>3. /\ type \in {"INITIALIZE_BEST_PATHS", "RESET_SYSTEM"}
          /\ type = "INITIALIZE_BEST_PATHS" => ~sink.initialized
          /\ type = "RESET_SYSTEM" => ~sink'.initialized
      BY <3>2
    <3> HIDE DEF type
    <3>4. StartUp'
      BY <1>0, <1>3, <2>2, <2>3, <2>4, <2>5, <2>6, <2>8, <3>1, <3>3, CommandKeepsStartUp
    <3> QED BY <1>0, <3>4 DEF SInv
  <2>10. CASE SendResetPacket
    <3> DEFINE type == "RESET_SYSTEM"
    <3>1. SinkBroadcasts(type) /\ sink.seqno < MaxCommands
      BY <2>10 DEF SendResetPacket, SinkBroadcasts
    <3>2. ~sink'.initialized
      BY <2>7, <2>10, <3>1, SendResetSink
    <3>3. /\ type \in {"INITIALIZE_BEST_PATHS", "RESET_SYSTEM"}
          /\ type = "INITIALIZE_BEST_PATHS" => ~sink.initialized
          /\ type = "RESET_SYSTEM" => ~sink'.initialized
      BY <3>2
    <3> HIDE DEF type
    <3>4. StartUp'
      BY <1>0, <1>3, <2>2, <2>3, <2>4, <2>5, <2>6, <2>8, <3>1, <3>3, CommandKeepsStartUp
    <3> QED BY <1>0, <3>4 DEF SInv
  <2>11. ASSUME NEW n \in Node, PushButton(n) \/ SenseEmergency(n) \/ SendFlood(n)
         PROVE  StartUp'
    BY <1>0, <1>3, <2>4, <2>11, EmergencyKeepsStartUp
  <2>12. ASSUME NEW n \in Node, SendSetupPacket(n) PROVE StartUp'
    BY <1>0, <1>3, <2>3, <2>4, <2>5, <2>12, SetupKeepsStartUp
  <2>13. ASSUME NEW m \in Node, NEW n \in Node, Deliver(m, n) PROVE StartUp'
    <3>1. J(I, R)'
      BY <1>0, <2>5, <2>13, DeliverKeepsJ
    <3> QED BY <1>0, <1>3, <2>3, <2>4, <2>5, <2>13, <3>1, DeliverKeepsStartUp
  <2>14. ASSUME NEW n \in Node, GiveUp(n) PROVE StartUp'
    BY <1>0, <1>3, <2>3, <2>4, <2>14, GiveUpKeepsStartUp
  <2>15. ASSUME NEW n \in Node, PowerLoss(n) PROVE FALSE
    BY <1>0, <2>8, <2>15, PowerLossEffect
  <2>16. ASSUME UNCHANGED vars PROVE StartUp'
    <3>1. np' = np /\ flash' = flash /\ sink' = sink
      BY <2>16 DEF vars
    <3>2. ASSUME NEW n \in Node PROVE np[n].seqno <= np'[n].seqno
      <4>1. PICK c \in NodeProperties : c = np[n]
        BY <1>0 DEF TypeOK
      <4>2. c.seqno \in Nat
        BY NumbersTyped
      <4> QED BY <3>1, <4>1, <4>2
    <3>3. \A n \in Node : Inert(np[n], np'[n])
      BY <3>1 DEF Inert
    <3>4. \A n \in Node : np'[n].known = np[n].known /\ np'[n].bpn = np[n].bpn
      BY <3>1
    <3>5. \A n \in Node : np'[n].seen = np[n].seen /\ np'[n].floods = np[n].floods
      BY <3>1
    <3> QED BY <1>0, <1>3, <2>4, <3>1, <3>2, <3>3, <3>4, <3>5, CalmKeepsStartUp
  <2> QED
    <3>1. ASSUME StartUp' PROVE SInv'
      BY <1>0, <3>1 DEF SInv
    <3> QED
      BY <2>9, <2>10, <2>11, <2>12, <2>13, <2>14, <2>15, <2>16, <3>1 DEF Next
<1> QED BY <1>1, <1>2, <1>3

-----------------------------------------------------------------------------
(* When all is quiet.                                                      *)

\* What starts in P gets no further, but by a node that has yet to be set up.
Closed(P) == \A m \in P \ Fresh : Table[m] \subseteq P

\* The network: neighbours know each other, every node has some, and those that
\* are set up already are reached from the sink, and all from the exits.
WellLinked ==
  /\ \A n \in Node : Table[n] # {} /\ \A m \in Table[n] : n \in Table[m]
  /\ \A P \in SUBSET Node : SinkRange \subseteq P /\ Closed(P) => Node \ Fresh \subseteq P
  /\ \A P \in SUBSET Node : Exits \subseteq P /\ Closed(P) => P = Node

\* Such is every network in which each node hears all others, if one in the
\* sink's range and one exit are set up.
LEMMA TriangleIsWellLinked ==
  ASSUME \A n \in Node : Table[n] = Node \ {n} /\ Table[n] # {},
         SinkRange \ Fresh # {}, Exits \ Fresh # {}
  PROVE  WellLinked
<1>1. ASSUME NEW P \in SUBSET Node, Closed(P), P \ Fresh # {}
      PROVE  P = Node
  BY <1>1 DEF Closed
<1>2. ASSUME NEW P \in SUBSET Node, SinkRange \subseteq P, Closed(P)
      PROVE  Node \ Fresh \subseteq P
  BY <1>1, <1>2
<1>3. ASSUME NEW P \in SUBSET Node, Exits \subseteq P, Closed(P)
      PROVE  P = Node
  BY <1>1, <1>3
<1> QED BY <1>2, <1>3 DEF WellLinked

\* Nothing is left to pass on or to tell.
LEMMA NothingLeft ==
  ASSUME NEW c, c.sq = << >>
  PROVE  /\ \A e, n : Forwarded(c, e, n) => SawAll(e, c)
         /\ \A e, m, n : Tells(c, e, m, n) /\ c.has_sent_node_info /\ SawAll(c, e) => m \in e.known
<1>1. Len(c.sq) = 0 /\ \A i \in 1..0 : FALSE
  BY EmptySeq
<1>2. ~(\E i \in 1..Len(c.sq) : TRUE)
  BY <1>1
<1>3. \A e, n : Forwarded(c, e, n) => SawAll(e, c)
  BY <1>2 DEF Forwarded, SawAll
<1>4. \A e, m, n : Tells(c, e, m, n) /\ c.has_sent_node_info /\ SawAll(c, e) => m \in e.known
  BY <1>2 DEF Tells
<1> QED BY <1>3, <1>4

\* What is true of the nodes set up that hear the sink, and is passed on, is true
\* of all that are set up.
LEMMA AllReached ==
  ASSUME WellLinked, FlashGood, NEW S \in SUBSET Node,
         \A n \in SinkRange : flash[n] = "whole" => n \in S,
         \A m \in Node : \A n \in Table[m] :
           m \in S /\ flash[m] = "whole" /\ flash[n] = "whole" => n \in S
  PROVE  \A n \in Node : flash[n] = "whole" => n \in S
<1> DEFINE P == {n \in Node : flash[n] = "whole" => n \in S}
<1>1. SinkRange \subseteq P
  BY NodeLifecycleAssumption
<1>2. Closed(P)
  <2> SUFFICES ASSUME NEW m \in P, m \notin Fresh, NEW n \in Table[m] PROVE n \in P
    BY DEF Closed
  <2>1. m \in Node /\ n \in Node
    BY NodeLifecycleAssumption
  <2>2. flash[m] = "whole" /\ m \in S
    BY <2>1 DEF FlashGood
  <2> QED BY <2>1, <2>2
<1>3. P \in SUBSET Node
  OBVIOUS
<1>4. Node \ Fresh \subseteq P
  <2> HIDE DEF P
  <2> QED BY <1>1, <1>2, <1>3 DEF WellLinked
<1>5. \A n \in Node : n \in Fresh /\ flash[n] = "whole" => n \in SinkRange
  BY DEF FlashGood
<1> QED BY <1>1, <1>4, <1>5

\* The exits tell first, and then all.
LEMMA AllTell ==
  ASSUME WellLinked, FlashGood, NEW S \in SUBSET Node,
         \A n \in Exits : flash[n] = "whole" => n \in S,
         \A m \in Node : \A n \in Table[m] :
           m \in S /\ flash[m] = "whole" /\ flash[n] = "whole" => n \in S
  PROVE  \A n \in Node : flash[n] = "whole" => n \in S
<1> DEFINE P == {n \in Node : flash[n] = "whole" => n \in S}
<1>1. Exits \subseteq P
  BY NodeLifecycleAssumption
<1>2. Closed(P)
  <2> SUFFICES ASSUME NEW m \in P, m \notin Fresh, NEW n \in Table[m] PROVE n \in P
    BY DEF Closed
  <2>1. m \in Node /\ n \in Node
    BY NodeLifecycleAssumption
  <2>2. flash[m] = "whole" /\ m \in S
    BY <2>1 DEF FlashGood
  <2> QED BY <2>1, <2>2
<1>3. P \in SUBSET Node
  OBVIOUS
<1>4. P = Node
  <2> HIDE DEF P
  <2> QED BY <1>1, <1>2, <1>3 DEF WellLinked
<1> QED BY <1>4

LEMMA InitS == Init => SInv
  BY InitTyped, InitJ, InitStartUp DEF SInv, JInv

LEMMA StartUpEnded ==
  ASSUME WellLinked, SInv, ~sink.repeated, faults = 0, ~sink.hasty, AllRun,
         sink.initialized, Quiet
  PROVE  \A n \in Node : IsSetUp(n) =>
           /\ ~np[n].is_reset_mode /\ np[n].has_sent_node_info /\ np[n].bpn = "path"
           /\ np[n].known = {m \in np[n].ns : IsSetUp(m)}
<1>0. TypeOK /\ StartUp /\ ~Over
  BY DEF SInv, JInv, Excused, Over, Quiet
<1>1. PICK I \in SUBSET Nat, R \in SUBSET Nat : J(I, R)
  BY DEF SInv, JInv, Excused
<1>2. \A r \in R : \E i \in I : r < i
  BY <1>1 DEF J, HistoryInv, Quiet
<1>3. ASSUME NEW n \in Node, flash[n] = "whole"
      PROVE  /\ np[n].ns = Table[n] /\ np[n].ns # {} /\ np[n].sq = << >>
             /\ np[n].is_exit_node <=> n \in Exits
             /\ Started(np[n]) /\ NodeGood(np[n], I, R)
             /\ n \in SinkRange => Heard(np[n]) /\ \A k \in I \cup R : Saw(np[n], k)
             /\ \A k : Saw(np[n], k) => k \in I \cup R
  <2>1. np[n].ns = Table[n] /\ (np[n].is_exit_node <=> n \in Exits)
    BY <1>1, <1>3 DEF J, NodesGood, SetUp
  <2>2. np[n].ns # {}
    BY <2>1 DEF WellLinked
  <2>3. Started(np[n]) /\ (n \in SinkRange => Heard(np[n]))
    BY <1>0, <2>2 DEF StartUp
  <2>4. NodeGood(np[n], I, R) /\ (n \in SinkRange => \A k \in I \cup R : Saw(np[n], k))
    BY <1>0, <1>1, <2>2 DEF J, NetworkGood, InNetwork, AllRun, Running
  <2>5. \A k : Saw(np[n], k) => k \in I \cup R
    BY <1>1 DEF J, NodesGood, QueueGood
  <2> QED BY <2>1, <2>2, <2>3, <2>4, <2>5 DEF Quiet
<1>4. ASSUME NEW m \in Node, NEW n \in Table[m], flash[m] = "whole", flash[n] = "whole"
      PROVE  /\ n \in Node /\ SawAll(np[n], np[m]) /\ Tells(np[m], np[n], m, n)
  <2>1. n \in Node /\ m \in Table[n]
    BY NodeLifecycleAssumption DEF WellLinked
  <2>2. Listens(m, n)
    BY <1>3, <1>4, <2>1 DEF Listens, AllRun, Running
  <2>3. Forwarded(np[m], np[n], n)
    BY <1>0, <1>1, <2>1, <2>2 DEF J, PairsGood, Between
  <2>4. SawAll(np[n], np[m])
    BY <1>3, <1>4, <2>3, NothingLeft
  <2>5. Tells(np[m], np[n], m, n)
    BY <1>0, <2>1, <2>2 DEF StartUp
  <2> QED BY <2>1, <2>4, <2>5
<1>5. FlashGood
  BY <1>0 DEF StartUp
<1>6. \A n \in Node : flash[n] = "whole" => Heard(np[n])
  <2> DEFINE S == {n \in Node : Heard(np[n])}
  <2>1. \A n \in SinkRange : flash[n] = "whole" => n \in S
    BY <1>3, NodeLifecycleAssumption
  <2>2. \A m \in Node : \A n \in Table[m] :
          m \in S /\ flash[m] = "whole" /\ flash[n] = "whole" => n \in S
    BY <1>4 DEF Heard, SawAll
  <2>3. S \in SUBSET Node /\ \A n \in S : Heard(np[n])
    OBVIOUS
  <2> HIDE DEF S
  <2> QED BY <1>5, <2>1, <2>2, <2>3, AllReached
<1>7. \A n \in Node : flash[n] = "whole" => \A k \in I \cup R : Saw(np[n], k)
  <2> DEFINE S == {n \in Node : \A k \in I \cup R : Saw(np[n], k)}
  <2>1. \A n \in SinkRange : flash[n] = "whole" => n \in S
    BY <1>3, NodeLifecycleAssumption
  <2>2. \A m \in Node : \A n \in Table[m] :
          m \in S /\ flash[m] = "whole" /\ flash[n] = "whole" => n \in S
    BY <1>4 DEF SawAll
  <2>3. S \in SUBSET Node /\ \A n \in S : \A k \in I \cup R : Saw(np[n], k)
    OBVIOUS
  <2> HIDE DEF S
  <2> QED BY <1>5, <2>1, <2>2, <2>3, AllReached
<1>8. ASSUME NEW n \in Node, flash[n] = "whole" PROVE ~np[n].is_reset_mode
  <2> SUFFICES ASSUME np[n].is_reset_mode PROVE FALSE
    OBVIOUS
  <2>1. LastIs(np[n], R, I)
    BY <1>3, <1>8 DEF NodeGood
  <2>2. PICK r \in R : \A i \in I : Saw(np[n], i) => i < r
    BY <2>1 DEF LastIs
  <2>3. PICK i \in I : r < i
    BY <1>2
  <2>4. i < r
    BY <1>7, <1>8, <2>2
  <2> QED BY <2>3, <2>4
<1>9. \A n \in Node : flash[n] = "whole" => np[n].has_sent_node_info
  <2> DEFINE S == {n \in Node : np[n].has_sent_node_info}
  <2>1. \A n \in Exits : flash[n] = "whole" => n \in S
    BY <1>3, <1>6, <1>8, NodeLifecycleAssumption DEF Started
  <2>2. ASSUME NEW m \in Node, NEW n \in Table[m],
               m \in S, flash[m] = "whole", flash[n] = "whole"
        PROVE  n \in S
    <3>1. n \in Node /\ Tells(np[m], np[n], m, n)
      BY <1>4, <2>2
    <3>2. SawAll(np[m], np[n])
      BY <1>3, <1>7, <2>2, <3>1 DEF SawAll
    <3>3. m \in np[n].known
      BY <1>3, <2>2, <3>1, <3>2, NothingLeft
    <3> QED BY <1>3, <2>2, <3>1, <3>3 DEF Started
  <2>3. S \in SUBSET Node /\ \A n \in S : np[n].has_sent_node_info
    OBVIOUS
  <2> HIDE DEF S
  <2> QED BY <1>5, <2>1, <2>2, <2>3, AllTell
<1>10. ASSUME NEW n \in Node, flash[n] = "whole"
       PROVE  np[n].bpn = "path" /\ np[n].known = {m \in np[n].ns : IsSetUp(m)}
  <2>1. np[n].bpn = "path" /\ np[n].known \subseteq {m \in np[n].ns : flash[m] = "whole"}
    BY <1>3, <1>9, <1>10 DEF Started
  <2>2. ASSUME NEW m \in np[n].ns, flash[m] = "whole" PROVE m \in np[n].known
    <3>1. m \in Node /\ n \in Table[m]
      BY <1>3, <1>10, <2>2, NodeLifecycleAssumption DEF WellLinked
    <3>2. Tells(np[m], np[n], m, n)
      BY <1>4, <1>10, <2>2, <3>1
    <3>3. SawAll(np[m], np[n])
      BY <1>3, <1>7, <1>10, <2>2, <3>1 DEF SawAll
    <3> QED BY <1>3, <1>9, <2>2, <3>1, <3>2, <3>3, NothingLeft
  <2> QED BY <2>1, <2>2 DEF IsSetUp
<1> QED BY <1>8, <1>9, <1>10 DEF IsSetUp

(***************************************************************************)
(* In a well linked network where the sink broadcasts no second INITIALIZE *)
(* without a RESET between, no frame and no power is lost and no node is   *)
(* set up too early, the start comes to its end whatever overtakes what:   *)
(* when all is quiet after INITIALIZE, every node set up has left the      *)
(* reset mode, has a path, and has told and heard all its neighbours, as   *)
(* initialize_best_path_packet_handler, node_info_packet_handler and       *)
(* reset_system_packet_handler intend.                                     *)
(***************************************************************************)
THEOREM StartUpEnds ==
  ASSUME WellLinked
  PROVE  Spec => [](~sink.repeated /\ faults = 0 => StartUpCompletes)
<1>1. Init => SInv
  BY InitS
<1>2. SInv /\ [Next]_vars => SInv'
  BY NextS
<1>3. SInv => (~sink.repeated /\ faults = 0 => StartUpCompletes)
  <2> SUFFICES ASSUME SInv, ~sink.repeated, faults = 0,
                      sink.initialized, Quiet, NothingWentWrong
               PROVE  \A n \in Node : IsSetUp(n) =>
                        /\ ~np[n].is_reset_mode
                        /\ np[n].has_sent_node_info
                        /\ np[n].bpn = "path"
                        /\ np[n].known = {m \in np[n].ns : IsSetUp(m)}
    BY DEF StartUpCompletes
  <2>1. ~sink.hasty /\ AllRun
    BY DEF NothingWentWrong, AllRun
  <2> QED BY <2>1, StartUpEnded
<1> QED BY <1>1, <1>2, <1>3, PTL DEF Spec

=============================================================================
