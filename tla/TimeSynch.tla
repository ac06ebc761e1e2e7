------------------------------ MODULE TimeSynch ------------------------------
(***************************************************************************)
(* The time synchronisation of src/src/emergency_net: timesynch_as_leader, *)
(* timesynch_recv and ec_timesynch_on of emergency_conn.c elect a leader   *)
(* and flood its packets; the sniffer of timesynch.c moves a node's clock  *)
(* with every packet it hears.                                             *)
(*                                                                         *)
(* A node that senses fire leads unless it has a leader.  A leader floods  *)
(* a numbered packet every 30 s, and a node that has heard none for 60 s   *)
(* leads itself.  A lower address is the better leader.                    *)
(*                                                                         *)
(* Time is counted in units of 30 s.  Within a unit the packets of a round *)
(* are forwarded (1 to 3 s for each hop) in any order, but before the next *)
(* unit every frame is handled and every timer that is due has fired.      *)
(* Clocks do not drift.  Other packets do not fill the sending queue here. *)
(* ec_timesynch_off has no caller and is left out.                         *)
(***************************************************************************)
EXTENDS SequencesExt

CONSTANTS
  Node,
  Authority,     \* timesynch_rimeaddr_to_authority: first byte of the address
  InRange,       \* who can hear each node
  RawClock,      \* what a node's own clock shows, in each of its lives
  SeqnoModulus,  \* sequence numbers there are, 256 in the code
  MaxOffsets,    \* MAX_OFFSETS, 12 in the code
  NoFrame,       \* nothing waiting at a node's radio
  Starters,      \* nodes that may sense fire
  Crashers,      \* nodes that may lose power
  MaxInits,      \* bound: times each node hears of an INITIALIZE
  MaxLives,      \* bound: restarts of one node
  MaxLosses      \* bound: frames lost

AUTHORITY_LEVEL_MAX == 255
ClockModulus == 65536          \* rtimer_clock_t
LeaderUpdate  == 1             \* TIMESYNCH_LEADER_UPDATE, in units
LeaderTimeout == 2             \* TIMESYNCH_LEADER_TIMEOUT

\* An address has a first byte of its own and is not the null address, and the
\* overflow rule (an eighth of the numbers) needs more than eight numbers.
ASSUME TimeSynchAssumption ==
  /\ Authority \in [Node -> 1..AUTHORITY_LEVEL_MAX - 1]
  /\ \A m, n \in Node : Authority[m] = Authority[n] => m = n
  /\ InRange \in [Node -> SUBSET Node]
  /\ RawClock \in [Node \X (0..MaxLives) -> 0..ClockModulus - 1]
  /\ SeqnoModulus \in 9..256
  /\ MaxOffsets \in Nat \ {0}
  /\ Starters \subseteq Node /\ Crashers \subseteq Node
  /\ MaxInits \in [Node -> Nat]
  /\ {MaxLives, MaxLosses} \subseteq Nat

Seqno == 0..SeqnoModulus - 1

\* A queued packet, and one on the air, to which the radio adds the level and
\* the time of the node that sends it.
Packet == [originator : Node, seqno : Seqno]
Frame == [originator : Node, seqno : Seqno, level : 0..AUTHORITY_LEVEL_MAX,
          time : 0..ClockModulus - 1]

ASSUME NoFrameAssumption == NoFrame \notin Frame

VARIABLES
  ts,      \* struct ec's ts with authority_level, authority_seqno, timer, queue
  clock,   \* timesynch.c: offset and the sorted offsets it is taken from
  rx,      \* the frame waiting at each node's radio
  up, life, inits, losses

vars == <<ts, clock, rx, up, life, inits, losses>>

\* Memory after a start: authority_level is 0 until synchronisation is on.
ClosedTs == [is_on |-> FALSE, seqno |-> 0, level |-> 0, authority_seqno |-> 0,
             pending |-> FALSE, left |-> 0, sq |-> << >>]

UnsetClock == [offset |-> 0, offsets |-> << >>]

Init ==
  /\ ts = [n \in Node |-> ClosedTs]
  /\ clock = [n \in Node |-> UnsetClock]
  /\ rx = [n \in Node |-> NoFrame]
  /\ up = Node
  /\ life = [n \in Node |-> 0]
  /\ inits = [n \in Node |-> 0]
  /\ losses = 0

-----------------------------------------------------------------------------
Raw(n) == RawClock[<<n, life[n]>>]

\* timesynch_time
Time(n) == (Raw(n) + clock[n].offset) % ClockModulus

\* Mutant of SetTimer: the timer that runs already is left alone.
SetTimerOnce(t, units) == IF t.pending THEN t ELSE [t EXCEPT !.pending = TRUE, !.left = units]

SetTimer(t, units) == [t EXCEPT !.pending = TRUE, !.left = units]

\* Mutant of AsLeader: the next packet is not scheduled.
AsLeaderOnce(n, t) ==
  [t EXCEPT !.level = Authority[n],
            !.authority_seqno = t.seqno,
            !.seqno = (t.seqno + 1) % SeqnoModulus,
            !.sq = Append(t.sq, [originator |-> n, seqno |-> t.seqno])]

\* Mutant of AsLeader: the packets of a leader all have one number.
AsLeaderUnnumbered(n, t) ==
  SetTimer([t EXCEPT !.level = Authority[n],
                     !.authority_seqno = t.seqno,
                     !.sq = Append(t.sq, [originator |-> n, seqno |-> t.seqno])],
           LeaderUpdate)

\* timesynch_as_leader, on the record t of node n.
AsLeader(n, t) ==
  SetTimer([t EXCEPT !.level = Authority[n],
                     !.authority_seqno = t.seqno,
                     !.seqno = (t.seqno + 1) % SeqnoModulus,
                     !.sq = Append(t.sq, [originator |-> n, seqno |-> t.seqno])],
           LeaderUpdate)

\* Mutant of Follow: nothing notices that the leader falls silent.
FollowForever(t, p) ==
  [t EXCEPT !.level = Authority[p.originator],
            !.authority_seqno = p.seqno,
            !.sq = Append(t.sq, p),
            !.pending = FALSE]

\* A node takes p for the newest of its leader, forwards it and waits for the
\* next one.
Follow(t, p) ==
  SetTimer([t EXCEPT !.level = Authority[p.originator],
                     !.authority_seqno = p.seqno,
                     !.sq = Append(t.sq, p)],
           LeaderTimeout)

\* Mutant of IsNewer: the number of the last packet counts as new.
IsNotOlder(seqno, last) == seqno >= last \/ seqno < last \div 8

IsNewer(seqno, last) == seqno > last \/ seqno < last \div 8

\* Mutant of Received: the first leader heard of is followed, better or not.
ReceivedAny(n, t, f) ==
  LET p == [originator |-> f.originator, seqno |-> f.seqno]
      authlevel == Authority[f.originator]
  IN  IF \/ authlevel < t.level
         \/ authlevel = t.level /\ IsNewer(f.seqno, t.authority_seqno)
      THEN Follow(t, p)
      ELSE t

\* timesynch_recv
Received(n, t, f) ==
  LET p == [originator |-> f.originator, seqno |-> f.seqno]
      authlevel == Authority[f.originator]
  IN  IF authlevel < t.level
      THEN IF Authority[n] < authlevel THEN AsLeader(n, t) ELSE Follow(t, p)
      ELSE IF authlevel = t.level /\ IsNewer(f.seqno, t.authority_seqno)
           THEN Follow(t, p) ELSE t

\* A new offset goes behind those that are not larger, in a table that was sorted.
Sorted(s, x) == InsertAt(s, Cardinality({i \in DOMAIN s : s[i] <= x}) + 1, x)

\* Mutant of AdjustOffset: the table has no end.
AdjustOffsetBeyond(offsets, suggested) ==
  LET all == Sorted(offsets, suggested)
  IN  [offsets |-> all, offset |-> all[Len(all) \div 2 + 1]]

\* adjust_offset: the middle one of the offsets that the packets of one round
\* suggest; a full table takes no more of them.
AdjustOffset(offsets, suggested) ==
  LET all == IF Len(offsets) < MaxOffsets THEN Sorted(offsets, suggested)
                                          ELSE offsets
  IN  [offsets |-> all, offset |-> all[Len(all) \div 2 + 1]]

\* incoming_packet, before timesynch_recv sees the packet.  It looks at the
\* level of the sender, and timesynch_recv at that of the originator.
Sniffed(n, t, f) ==
  LET suggested == (clock[n].offset + ClockModulus + f.time - Time(n)) % ClockModulus
  IN  CASE \/ f.level < t.level
           \/ f.level = t.level /\ IsNewer(f.seqno, t.authority_seqno)
             -> AdjustOffset(<< >>, suggested)
        [] f.level = t.level /\ f.seqno = t.authority_seqno
             -> AdjustOffset(clock[n].offsets, suggested)
        [] OTHER -> clock[n]

-----------------------------------------------------------------------------
\* initialize_best_path_packet_handler: ec_timesynch_on.  The timer runs on.
Initialize(n) ==
  /\ n \in up
  /\ inits[n] < MaxInits[n]
  /\ inits' = [inits EXCEPT ![n] = @ + 1]
  /\ ts' = [ts EXCEPT ![n].is_on = TRUE, ![n].seqno = 0,
                      ![n].level = AUTHORITY_LEVEL_MAX, ![n].authority_seqno = 0]
  /\ UNCHANGED <<clock, rx, up, life, losses>>

\* ec_timesynch_network, of a node that senses fire.
SenseEmergency(n) ==
  /\ n \in up \cap Starters
  /\ ts[n].is_on
  /\ ~ts[n].pending
  /\ ts' = [ts EXCEPT ![n] = AsLeader(n, @)]
  /\ UNCHANGED <<clock, rx, up, life, inits, losses>>

Due(n) == n \in up /\ ts[n].pending /\ ts[n].left = 0

\* The timer of a leader, or of a node that has lost its leader.
TimerFires(n) ==
  /\ Due(n)
  /\ ts' = [ts EXCEPT ![n] = AsLeader(n, [@ EXCEPT !.pending = FALSE])]
  /\ UNCHANGED <<clock, rx, up, life, inits, losses>>

\* send_timesynch_data.  A frame is handled before the next one is sent, which
\* takes a second or more; a collision is reported and the packet kept.
SendTimesynchData(n) ==
  /\ n \in up
  /\ ts[n].sq # << >>
  /\ \A m \in InRange[n] : rx[m] = NoFrame
  /\ LET p == Head(ts[n].sq)
         frame == [originator |-> p.originator, seqno |-> p.seqno,
                   level |-> ts[n].level, time |-> Time(n)]
     IN  \E lost \in SUBSET (InRange[n] \cap up) :
           /\ losses + Cardinality(lost) <= MaxLosses
           /\ losses' = losses + Cardinality(lost)
           /\ rx' = [m \in Node |-> IF m \in (InRange[n] \cap up) \ lost
                                    THEN frame ELSE rx[m]]
  /\ ts' = [ts EXCEPT ![n].sq = Tail(@)]
  /\ UNCHANGED <<clock, up, life, inits>>

Recv(n) ==
  /\ rx[n] # NoFrame
  /\ clock' = [clock EXCEPT ![n] = Sniffed(n, ts[n], rx[n])]
  /\ ts' = [ts EXCEPT ![n] = IF @.is_on THEN Received(n, @, rx[n]) ELSE @]
  /\ rx' = [rx EXCEPT ![n] = NoFrame]
  /\ UNCHANGED <<up, life, inits, losses>>

\* A unit of time passes.
Tick ==
  /\ \A n \in Node : rx[n] = NoFrame /\ ts[n].sq = << >> /\ ~Due(n)
  /\ \E n \in Node : ts[n].pending
  /\ ts' = [n \in Node |-> IF ts[n].pending THEN [ts[n] EXCEPT !.left = @ - 1]
                                            ELSE ts[n]]
  /\ UNCHANGED <<clock, rx, up, life, inits, losses>>

Crash(n) ==
  /\ n \in up \cap Crashers
  /\ life[n] < MaxLives
  /\ up' = up \ {n}
  /\ ts' = [ts EXCEPT ![n] = ClosedTs]
  /\ clock' = [clock EXCEPT ![n] = UnsetClock]
  /\ rx' = [rx EXCEPT ![n] = NoFrame]
  /\ life' = [life EXCEPT ![n] = @ + 1]
  /\ UNCHANGED <<inits, losses>>

\* reset_node_properties and ec_open: synchronisation is off.
Restart(n) ==
  /\ n \notin up
  /\ up' = up \cup {n}
  /\ UNCHANGED <<ts, clock, rx, life, inits, losses>>

Next ==
  \/ \E n \in Node : \/ Initialize(n)
                     \/ SenseEmergency(n)
                     \/ TimerFires(n)
                     \/ SendTimesynchData(n)
                     \/ Recv(n)
                     \/ Crash(n)
                     \/ Restart(n)
  \/ Tick

Spec == Init /\ [][Next]_vars

(* Timers fire, frames are sent and handled, time passes.  Nobody has to      *)
(* sense fire, to hear of an INITIALIZE or to start again.                    *)
Fairness ==
  /\ WF_vars(Tick)
  /\ \A n \in Node : /\ WF_vars(TimerFires(n))
                     /\ WF_vars(SendTimesynchData(n))
                     /\ WF_vars(Recv(n))

FairSpec == Spec /\ Fairness

-----------------------------------------------------------------------------
TsRecord ==
  [is_on : BOOLEAN, seqno : Seqno, level : 0..AUTHORITY_LEVEL_MAX,
   authority_seqno : Seqno, pending : BOOLEAN, left : 0..LeaderTimeout,
   sq : Seq(Packet)]

ClockRecord == [offset : 0..ClockModulus - 1, offsets : Seq(0..ClockModulus - 1)]

\* From the smallest to the largest, so that the middle one is the median.
Ascending(s) == \A i, j \in DOMAIN s : i <= j => s[i] <= s[j]

\* Every variable has its type, and the table of offsets is sorted and within
\* its bounds.
TypeOK ==
  /\ ts \in [Node -> TsRecord]
  /\ clock \in [Node -> ClockRecord]
  /\ \A n \in Node : Len(clock[n].offsets) <= MaxOffsets /\ Ascending(clock[n].offsets)
  /\ rx \in [Node -> Frame \cup {NoFrame}]
  /\ up \in SUBSET Node
  /\ life \in [Node -> 0..MaxLives]
  /\ inits \in [Node -> Nat] /\ \A n \in Node : inits[n] <= MaxInits[n]
  /\ losses \in 0..MaxLosses

\* A node on which synchronisation is on and that has a leader, itself perhaps.
HasLeader(n) == ts[n].is_on /\ ts[n].level # AUTHORITY_LEVEL_MAX

\* No node follows a leader that is worse than itself: it would have led.
NobodyFollowsWorse ==
  \A n \in Node : HasLeader(n) => ts[n].level <= Authority[n]

\* Whoever has a leader also has the timer that notices when it falls silent,
\* through re-initialisation and changes of leader.
LeaderIsWatched == \A n \in Node : HasLeader(n) => ts[n].pending

\* "New leader should be elected if we hit timeout of 60 sec"
\* (main_reg_sensor.c:993), and not otherwise: as long as no frame is lost, and
\* no node restarts or is initialised again, nobody takes over from a leader
\* by timeout.
NoRival ==
  [][\A n \in Node :
       (Due(n) /\ ts'[n].seqno # ts[n].seqno /\ ts[n].level # Authority[n]) =>
         \/ losses > 0
         \/ \E m \in Node : life[m] > 0 \/ inits[m] > 1]_vars

\* In the end neighbours have the same leader and the same time, and the leader
\* is a node that runs: crashes, lost frames, late starters and crossing floods
\* leave no lasting split.
NeighborsAgree ==
  \A m \in Node : \A n \in InRange[m] :
    <>[](HasLeader(m) /\ HasLeader(n) =>
           ts[m].level = ts[n].level /\ Time(m) = Time(n))

LeaderLives ==
  \A n \in Node :
    <>[](HasLeader(n) => \E m \in Node : HasLeader(m) /\ ts[n].level = Authority[m]
                                           /\ ts[m].level = Authority[m])

\* A flood ends: nobody forwards the packets of a leader round and round.
FloodsEnd ==
  []<>(\A n \in Node : rx[n] = NoFrame /\ ts[n].sq = << >>)

=============================================================================
