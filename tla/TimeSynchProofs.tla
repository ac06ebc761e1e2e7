--------------------------- MODULE TimeSynchProofs ---------------------------
(***************************************************************************)
(* That no node follows a leader worse than itself, and that whoever has a *)
(* leader has the timer that watches it, for every network and every loss, *)
(* crash, restart and re-initialisation.  The clocks play no part in it:   *)
(* that they and the table behind them keep their types comes last.        *)
(*                                                                         *)
(* The two properties are inductive once frames and queues are known to    *)
(* hold packets of nodes of the network, whose levels are below the one    *)
(* that stands for no leader, and nodes without power to hold nothing.     *)
(***************************************************************************)
EXTENDS TimeSynch, SequenceLemmas

\* Frames, as far as the election reads them.
FramesInv ==
  /\ DOMAIN rx = Node
  /\ \A n \in Node : rx[n] # NoFrame =>
       n \in up /\ rx[n].originator \in Node /\ rx[n].seqno \in Seqno

\* One node's record, of a node that runs or does not.
GoodTs(n, t) ==
  /\ t \in TsRecord
  /\ t.is_on /\ t.level # AUTHORITY_LEVEL_MAX => t.pending /\ t.level <= Authority[n]

TsInv ==
  /\ DOMAIN ts = Node
  /\ \A n \in Node : GoodTs(n, ts[n])
  /\ \A n \in Node \ up : ts[n] = ClosedTs

IInv == FramesInv /\ TsInv

USE DEF AUTHORITY_LEVEL_MAX, LeaderUpdate, LeaderTimeout

-----------------------------------------------------------------------------
\* A record that is closed, or has just been initialised, has no leader.
LEMMA ClosedGood == ASSUME NEW n \in Node PROVE GoodTs(n, ClosedTs)
  BY TimeSynchAssumption DEF GoodTs, ClosedTs, TsRecord, Seqno

\* A node that leads, or follows a better one, has its timer and a good record.
LEMMA AsLeaderGood ==
  ASSUME NEW n \in Node, NEW t \in TsRecord
  PROVE  GoodTs(n, AsLeader(n, t))
<1>1. PICK level \in 0..255 : level = Authority[n]
  BY TimeSynchAssumption
<1>2. PICK aseq \in Seqno : aseq = t.seqno
  BY DEF TsRecord
<1>3. PICK seqno \in Seqno : seqno = (t.seqno + 1) % SeqnoModulus
  <2>1. t.seqno \in Nat /\ SeqnoModulus \in Nat \ {0}
    BY <1>2, TimeSynchAssumption DEF Seqno
  <2> QED BY <2>1, SMT DEF Seqno
<1> DEFINE p == [originator |-> n, seqno |-> t.seqno]
<1>4. PICK sq \in Seq(Packet) : sq = Append(t.sq, p)
  <2>1. p \in Packet /\ t.sq \in Seq(Packet)
    BY <1>2 DEF TsRecord, Packet
  <2> HIDE DEF p
  <2>2. Append(t.sq, p) \in Seq(Packet)
    BY <2>1
  <2> QED BY <2>2, Zenon
<1>5. PICK units \in 0..2 : units = 1
  OBVIOUS
<1> DEFINE led == [t EXCEPT !.level = level, !.authority_seqno = aseq,
                            !.seqno = seqno, !.sq = sq, !.pending = TRUE, !.left = units]
<1>6. AsLeader(n, t) = led
  BY <1>1, <1>2, <1>3, <1>4, <1>5, Zenon DEF AsLeader, SetTimer
<1>7. led \in TsRecord /\ led.level = level /\ led.pending
  BY DEF TsRecord
<1> HIDE DEF led
<1> QED BY <1>1, <1>6, <1>7 DEF GoodTs

LEMMA FollowGood ==
  ASSUME NEW n \in Node, NEW t \in TsRecord, NEW p \in Packet,
         Authority[p.originator] <= Authority[n]
  PROVE  GoodTs(n, Follow(t, p))
<1>1. PICK level \in 0..255 : level = Authority[p.originator]
  BY TimeSynchAssumption DEF Packet
<1>2. PICK aseq \in Seqno : aseq = p.seqno
  BY DEF Packet
<1>3. PICK sq \in Seq(Packet) : sq = Append(t.sq, p)
  <2>1. Append(t.sq, p) \in Seq(Packet)
    BY DEF TsRecord
  <2> QED BY <2>1, Zenon
<1>4. PICK units \in 0..2 : units = 2
  OBVIOUS
<1> DEFINE following == [t EXCEPT !.level = level, !.authority_seqno = aseq, !.sq = sq,
                                  !.pending = TRUE, !.left = units]
<1>5. Follow(t, p) = following
  BY <1>1, <1>2, <1>3, <1>4, Zenon DEF Follow, SetTimer
<1>6. following \in TsRecord /\ following.level = level /\ following.pending
  BY DEF TsRecord
<1> HIDE DEF following
<1> QED BY <1>1, <1>5, <1>6 DEF GoodTs

\* Whatever arrives, timesynch_recv of a node that is on keeps it good.
LEMMA ReceivedGood ==
  ASSUME NEW n \in Node, NEW t, GoodTs(n, t), t.is_on,
         NEW f, f.originator \in Node, f.seqno \in Seqno
  PROVE  GoodTs(n, Received(n, t, f))
<1> DEFINE p == [originator |-> f.originator, seqno |-> f.seqno]
           authlevel == Authority[f.originator]
<1>1. t \in TsRecord /\ p \in Packet
  BY DEF GoodTs, Packet
<1>2. authlevel \in 1..254 /\ Authority[n] \in 1..254 /\ t.level \in 0..255
  BY <1>1, TimeSynchAssumption, SMT DEF TsRecord
<1>p. authlevel = Authority[p.originator]
  OBVIOUS
<1> HIDE DEF p, authlevel
<1>3. CASE authlevel < t.level /\ Authority[n] < authlevel
  <2>1. Received(n, t, f) = AsLeader(n, t)
    BY <1>3, Zenon DEF Received, p, authlevel
  <2> QED BY <1>1, <2>1, AsLeaderGood
<1>4. CASE authlevel < t.level /\ ~(Authority[n] < authlevel)
  <2>1. Received(n, t, f) = Follow(t, p)
    BY <1>4 DEF Received, p, authlevel
  <2>2. Authority[p.originator] <= Authority[n]
    BY <1>2, <1>4, <1>p
  <2> QED BY <1>1, <2>1, <2>2, FollowGood
<1>5. CASE authlevel = t.level /\ IsNewer(f.seqno, t.authority_seqno)
  <2>1. Received(n, t, f) = Follow(t, p)
    <3>1. ~(authlevel < t.level)
      BY <1>2, <1>5
    <3> QED BY <1>5, <3>1 DEF Received, p, authlevel
  <2>2. Authority[p.originator] <= Authority[n]
    BY <1>2, <1>5, <1>p DEF GoodTs
  <2> QED BY <1>1, <2>1, <2>2, FollowGood
<1>6. CASE /\ ~(authlevel < t.level)
           /\ ~(authlevel = t.level /\ IsNewer(f.seqno, t.authority_seqno))
  <2>1. Received(n, t, f) = t
    BY <1>6 DEF Received, p, authlevel
  <2> QED BY <2>1
<1> QED BY <1>3, <1>4, <1>5, <1>6

-----------------------------------------------------------------------------
\* Nothing runs at the start.
LEMMA InitIInv == Init => IInv
<1> SUFFICES ASSUME Init PROVE IInv
  OBVIOUS
<1>1. FramesInv
  BY DEF Init, FramesInv
<1>2. TsInv
  BY ClosedGood DEF Init, TsInv
<1> QED BY <1>1, <1>2 DEF IInv

\* What steps of one node do: its record stays good, and it has power.
LEMMA OneNode ==
  ASSUME IInv, NEW n \in up \cap Node, NEW t, GoodTs(n, t),
         ts' = [ts EXCEPT ![n] = t], up' = up
  PROVE  TsInv'
  BY DEF IInv, TsInv

LEMMA InitializeIInv ==
  ASSUME IInv, NEW n \in Node, Initialize(n) PROVE IInv'
<1>1. PICK t \in TsRecord : t = ts[n]
  BY DEF IInv, TsInv, GoodTs
<1>2. PICK zero \in Seqno : zero = 0
  BY TimeSynchAssumption DEF Seqno
<1>3. PICK level \in 0..255 : level = 255
  OBVIOUS
<1> DEFINE on == [t EXCEPT !.is_on = TRUE, !.seqno = zero, !.level = level,
                           !.authority_seqno = zero]
<1>4. ts' = [ts EXCEPT ![n] = on] /\ up' = up /\ rx' = rx /\ n \in up
  BY <1>1, <1>2, <1>3 DEF Initialize, IInv, TsInv
<1>5. on \in TsRecord /\ on.level = level
  BY DEF TsRecord
<1> HIDE DEF on
<1>6. GoodTs(n, on)
  BY <1>3, <1>5 DEF GoodTs
<1>7. TsInv'
  BY <1>4, <1>6, OneNode
<1> QED BY <1>4, <1>7 DEF IInv, FramesInv

\* A node comes to lead, by its senses or its timer.
LEMMA LeadIInv ==
  ASSUME IInv, NEW n \in Node, SenseEmergency(n) \/ TimerFires(n) PROVE IInv'
<1> DEFINE now == ts[n]
           stopped == [now EXCEPT !.pending = FALSE]
<1>1. now \in TsRecord
  BY DEF IInv, TsInv, GoodTs
<1>2. stopped \in TsRecord
  <2> HIDE DEF now
  <2> QED BY <1>1 DEF TsRecord
<1>3. \/ ts' = [ts EXCEPT ![n] = AsLeader(n, now)]
      \/ ts' = [ts EXCEPT ![n] = AsLeader(n, stopped)]
  BY Zenon DEF SenseEmergency, TimerFires
<1> HIDE DEF stopped
<1>4. PICK t \in TsRecord : ts' = [ts EXCEPT ![n] = AsLeader(n, t)]
  BY <1>1, <1>2, <1>3
<1>5. GoodTs(n, AsLeader(n, t))
  BY <1>1, <1>2, AsLeaderGood
<1>6. up' = up /\ rx' = rx /\ n \in up
  BY DEF SenseEmergency, TimerFires, Due
<1>7. TsInv'
  BY <1>4, <1>5, <1>6, OneNode
<1> QED BY <1>6, <1>7 DEF IInv, FramesInv

\* Somebody's oldest packet goes out, to nodes that have power.
LEMMA SendTimesynchDataIInv ==
  ASSUME IInv, NEW n \in Node, SendTimesynchData(n) PROVE IInv'
<1>1. PICK t \in TsRecord : t = ts[n]
  BY DEF IInv, TsInv, GoodTs
<1>2. t.sq \in Seq(Packet) /\ t.sq # << >>
  BY <1>1 DEF TsRecord, SendTimesynchData
<1>3. PICK sq \in Seq(Packet) : sq = Tail(t.sq)
  <2>1. Tail(t.sq) \in Seq(Packet)
    BY <1>2
  <2> QED BY <2>1, Zenon
<1>4. Head(t.sq) \in Packet
  BY <1>2
<1> DEFINE sent == [t EXCEPT !.sq = sq]
<1>5. ts' = [ts EXCEPT ![n] = sent] /\ up' = up /\ n \in up
  BY <1>1, <1>3 DEF SendTimesynchData, IInv, TsInv
<1>6. GoodTs(n, sent)
  <2>1. sent \in TsRecord
    BY DEF TsRecord
  <2>2. sent.is_on = t.is_on /\ sent.level = t.level /\ sent.pending = t.pending
    BY DEF TsRecord
  <2>3. GoodTs(n, t)
    BY <1>1 DEF IInv, TsInv
  <2> HIDE DEF sent
  <2> QED BY <2>1, <2>2, <2>3 DEF GoodTs
<1>7. TsInv'
  <2> HIDE DEF sent
  <2> QED BY <1>5, <1>6, OneNode
<1>8. FramesInv'
  <2> DEFINE frame == [originator |-> Head(t.sq).originator, seqno |-> Head(t.sq).seqno,
                       level |-> t.level, time |-> Time(n)]
  <2>1. PICK lost : rx' = [m \in Node |-> IF m \in (InRange[n] \cap up) \ lost
                                          THEN frame ELSE rx[m]]
    BY <1>1, Zenon DEF SendTimesynchData
  <2>2. frame.originator \in Node /\ frame.seqno \in Seqno
    BY <1>4 DEF Packet
  <2> HIDE DEF frame
  <2> QED BY <1>5, <2>1, <2>2 DEF FramesInv, IInv
<1> QED BY <1>7, <1>8 DEF IInv

LEMMA RecvIInv ==
  ASSUME IInv, NEW n \in Node, Recv(n) PROVE IInv'
<1>1. /\ rx[n] # NoFrame /\ n \in up
      /\ rx[n].originator \in Node /\ rx[n].seqno \in Seqno
  BY DEF Recv, IInv, FramesInv
<1>2. GoodTs(n, ts[n])
  BY DEF IInv, TsInv
<1>3. PICK t : /\ t = IF ts[n].is_on THEN Received(n, ts[n], rx[n]) ELSE ts[n]
               /\ ts' = [ts EXCEPT ![n] = t]
  BY Zenon DEF Recv
<1>4. GoodTs(n, t)
  BY <1>1, <1>2, <1>3, ReceivedGood
<1>5. up' = up /\ rx' = [rx EXCEPT ![n] = NoFrame]
  BY DEF Recv
<1>6. TsInv'
  BY <1>1, <1>3, <1>4, <1>5, OneNode
<1>7. FramesInv'
  BY <1>5 DEF IInv, FramesInv
<1> QED BY <1>6, <1>7 DEF IInv

\* Timers run down, and not below zero: one that is due has fired before.
LEMMA TickIInv ==
  ASSUME IInv, Tick PROVE IInv'
<1>1. up' = up /\ rx' = rx /\ DOMAIN ts' = Node
  BY DEF Tick
<1>2. ASSUME NEW n \in Node PROVE GoodTs(n, ts'[n]) /\ (n \notin up => ts'[n] = ClosedTs)
  <2>1. PICK t \in TsRecord : t = ts[n]
    BY DEF IInv, TsInv, GoodTs
  <2>2. GoodTs(n, t) /\ (n \notin up => t = ClosedTs)
    BY <2>1 DEF IInv, TsInv
  <2>3. CASE ~t.pending
    BY <2>1, <2>2, <2>3 DEF Tick
  <2>4. CASE t.pending
    <3>1. n \in up
      BY <2>2, <2>4 DEF ClosedTs
    <3>2. t.left \in 0..2 /\ t.left # 0
      BY <2>1, <2>4, <3>1 DEF Tick, Due, TsRecord
    <3>3. PICK left \in 0..2 : left = t.left - 1
      BY <3>2
    <3> DEFINE later == [t EXCEPT !.left = left]
    <3>4. ts'[n] = later
      BY <2>1, <2>4, <3>3 DEF Tick
    <3>5. later \in TsRecord
      BY DEF TsRecord
    <3>6. later.is_on = t.is_on /\ later.level = t.level /\ later.pending = t.pending
      BY DEF TsRecord
    <3> HIDE DEF later
    <3> QED BY <2>2, <3>1, <3>4, <3>5, <3>6 DEF GoodTs
  <2> QED BY <2>3, <2>4
<1> QED BY <1>1, <1>2 DEF IInv, TsInv, FramesInv

\* Losing power closes a node, and starting again opens nothing.
LEMMA PowerIInv ==
  ASSUME IInv, NEW n \in Node, Crash(n) \/ Restart(n) PROVE IInv'
<1>1. CASE Crash(n)
  <2>1. /\ up' = up \ {n} /\ ts' = [ts EXCEPT ![n] = ClosedTs]
        /\ rx' = [rx EXCEPT ![n] = NoFrame]
    BY <1>1 DEF Crash
  <2> QED BY <2>1, ClosedGood DEF IInv, TsInv, FramesInv
<1>2. CASE Restart(n)
  <2>1. up' = up \cup {n} /\ ts' = ts /\ rx' = rx
    BY <1>2 DEF Restart
  <2> QED BY <2>1 DEF IInv, TsInv, FramesInv
<1> QED BY <1>1, <1>2

LEMMA NextIInv == IInv /\ [Next]_vars => IInv'
<1> SUFFICES ASSUME IInv, [Next]_vars PROVE IInv'
  OBVIOUS
<1>1. CASE UNCHANGED vars
  BY <1>1 DEF vars, IInv, TsInv, FramesInv
<1>2. ASSUME NEW n \in Node, Initialize(n) PROVE IInv'
  BY <1>2, InitializeIInv
<1>3. ASSUME NEW n \in Node, SenseEmergency(n) \/ TimerFires(n) PROVE IInv'
  BY <1>3, LeadIInv
<1>4. ASSUME NEW n \in Node, SendTimesynchData(n) PROVE IInv'
  BY <1>4, SendTimesynchDataIInv
<1>5. ASSUME NEW n \in Node, Recv(n) PROVE IInv'
  BY <1>5, RecvIInv
<1>6. ASSUME NEW n \in Node, Crash(n) \/ Restart(n) PROVE IInv'
  BY <1>6, PowerIInv
<1>7. CASE Tick
  BY <1>7, TickIInv
<1> QED BY <1>1, <1>2, <1>3, <1>4, <1>5, <1>6, <1>7 DEF Next

LEMMA AlwaysIInv == Spec => []IInv
<1> QED BY InitIInv, NextIInv, PTL DEF Spec

-----------------------------------------------------------------------------
\* Whatever is lost, restarted or initialised again, a node never has a leader
\* worse than itself (timesynch_recv leads instead).
THEOREM NobodyFollowsWorseAlways == Spec => []NobodyFollowsWorse
<1>1. IInv => NobodyFollowsWorse
  BY DEF IInv, TsInv, GoodTs, NobodyFollowsWorse, HasLeader
<1> QED BY <1>1, AlwaysIInv, PTL

\* Nor does it have a leader without the timer that notices its silence, which
\* ec_timesynch_on does not touch and timesynch_recv sets again.
THEOREM LeaderIsWatchedAlways == Spec => []LeaderIsWatched
<1>1. IInv => LeaderIsWatched
  BY DEF IInv, TsInv, GoodTs, LeaderIsWatched, HasLeader
<1> QED BY <1>1, AlwaysIInv, PTL

-----------------------------------------------------------------------------
(* Types, and the table of offsets. *)

Clock16 == 0..ClockModulus - 1

\* Of the width of a clock, the types need only that there is one.
LEMMA ClockWraps ==
  /\ ClockModulus \in Nat \ {0}
  /\ \A a \in Int : a % ClockModulus \in Clock16
<1>1. ClockModulus \in Nat \ {0}
  BY DEF ClockModulus
<1> QED BY <1>1 DEF Clock16

LEMMA ClockNumbers == 0 \in Clock16 /\ \A a \in Clock16 : a \in Nat
  BY ClockWraps DEF Clock16

\* The new offset is behind all that are not larger, so the table stays sorted.
LEMMA SortedAscending ==
  ASSUME NEW s \in Seq(Clock16), Ascending(s), NEW x \in Clock16
  PROVE  /\ Sorted(s, x) \in Seq(Clock16)
         /\ Len(Sorted(s, x)) = Len(s) + 1
         /\ Ascending(Sorted(s, x))
<1> DEFINE T == {i \in DOMAIN s : s[i] <= x}
           k == Cardinality(T)
           t == InsertAt(s, k + 1, x)
<1>1. /\ Len(s) \in Nat /\ DOMAIN s = 1..Len(s)
      /\ \A i \in 1..Len(s) : s[i] \in Clock16
  BY LenProperties, ElementOfSeq
<1>2. k \in 0..Len(s) /\ T = 1..k
  <2>1. T \in SUBSET (1..Len(s))
    BY <1>1
  <2>2. \A i \in T : \A j \in 1..i : j \in T
    BY <1>1, ClockNumbers DEF Ascending
  <2> HIDE DEF T
  <2> QED BY <1>1, <2>1, <2>2, InitialSegment
<1>3. \A i \in 1..Len(s) : (i <= k) <=> (s[i] <= x)
  BY <1>1, <1>2
<1> HIDE DEF k, T
<1>4. /\ t \in Seq(Clock16)
      /\ Len(t) = Len(s) + 1
      /\ \A j \in 1..(Len(s) + 1) :
           t[j] = IF j < k + 1 THEN s[j] ELSE IF j = k + 1 THEN x ELSE s[j - 1]
  <2> DEFINE p == k + 1
  <2>1. p \in 1..(Len(s) + 1)
    BY <1>1, <1>2
  <2> HIDE DEF p
  <2>2. ASSUME NEW i \in 1..(Len(s) + 1)
        PROVE  /\ InsertAt(s, i, x) \in Seq(Clock16)
               /\ Len(InsertAt(s, i, x)) = Len(s) + 1
               /\ \A j \in 1..(i - 1) : InsertAt(s, i, x)[j] = s[j]
               /\ InsertAt(s, i, x)[i] = x
               /\ \A j \in (i + 1)..(Len(s) + 1) : InsertAt(s, i, x)[j] = s[j - 1]
    BY InsertAtProperties
  <2> QED BY <2>1, <2>2, <1>1, <1>2 DEF p
<1>5. Sorted(s, x) = t
  BY DEF Sorted, k, T
<1> HIDE DEF t
<1>6. Ascending(t)
  <2> SUFFICES ASSUME NEW i \in 1..(Len(s) + 1), NEW j \in 1..(Len(s) + 1), i < j
               PROVE  t[i] <= t[j]
    <3>1. DOMAIN t = 1..(Len(s) + 1)
      BY <1>4, LenProperties
    <3>2. \A i \in 1..(Len(s) + 1) : t[i] \in Clock16
      BY <1>4, ElementOfSeq
    <3>3. \A i \in 1..(Len(s) + 1) : t[i] <= t[i]
      BY <3>2, ClockNumbers
    <3> QED BY <3>1, <3>3, <1>1 DEF Ascending
  <2>1. \A a, b \in 1..Len(s) : a <= b => s[a] <= s[b]
    BY <1>1 DEF Ascending
  <2>2. CASE j < k + 1
    BY <2>1, <2>2, <1>1, <1>2, <1>4
  <2>3. CASE j = k + 1
    BY <2>3, <1>1, <1>2, <1>3, <1>4
  <2>4. CASE j > k + 1
    <3>1. t[j] = s[j - 1] /\ j - 1 \in 1..Len(s) /\ j - 1 > k
      BY <2>4, <1>1, <1>2, <1>4
    <3>2. x <= s[j - 1]
      BY <3>1, <1>1, <1>3, <1>2, ClockNumbers
    <3>3. CASE i < k + 1
      BY <3>1, <3>3, <2>1, <1>1, <1>2, <1>4
    <3>4. CASE i = k + 1
      BY <3>1, <3>2, <3>4, <1>4
    <3>5. CASE i > k + 1
      <4>1. t[i] = s[i - 1] /\ i - 1 \in 1..Len(s) /\ i - 1 <= j - 1
        BY <3>5, <1>1, <1>2, <1>4
      <4> QED BY <3>1, <4>1, <2>1
    <3> QED BY <3>3, <3>4, <3>5, <1>2
  <2> QED BY <2>2, <2>3, <2>4, <1>2
<1> QED BY <1>4, <1>5, <1>6

\* A node's clock: its types, and a sorted table within its bounds.
GoodClock(c) == c \in ClockRecord /\ Len(c.offsets) <= MaxOffsets /\ Ascending(c.offsets)

LEMMA UnsetClockGood == GoodClock(UnsetClock)
<1>1. << >> \in Seq(Clock16) /\ Len(<< >>) = 0 /\ Ascending(<< >>)
  BY DEF Ascending
<1>2. UnsetClock \in ClockRecord
  BY <1>1, ClockNumbers DEF UnsetClock, ClockRecord, Clock16
<1> QED BY <1>1, <1>2, TimeSynchAssumption DEF GoodClock, UnsetClock

\* A full table stays as it is, and the middle of a table is in it.
LEMMA AdjustOffsetGood ==
  ASSUME NEW offsets \in Seq(Clock16), Ascending(offsets), Len(offsets) <= MaxOffsets,
         NEW suggested \in Clock16
  PROVE  GoodClock(AdjustOffset(offsets, suggested))
<1> DEFINE all == IF Len(offsets) < MaxOffsets THEN Sorted(offsets, suggested) ELSE offsets
           middle == all[Len(all) \div 2 + 1]
<1>1. /\ all \in Seq(Clock16) /\ Ascending(all)
      /\ Len(all) \in 1..MaxOffsets
  <2> HIDE DEF middle
  <2>1. Len(offsets) \in Nat /\ MaxOffsets \in Nat \ {0}
    BY LenProperties, TimeSynchAssumption
  <2>2. CASE Len(offsets) < MaxOffsets
    <3>1. all = Sorted(offsets, suggested)
      BY <2>2
    <3> DEFINE longer == Sorted(offsets, suggested)
    <3>2. longer \in Seq(Clock16) /\ Len(longer) = Len(offsets) + 1 /\ Ascending(longer)
      BY SortedAscending
    <3> HIDE DEF all, longer
    <3> QED BY <3>1, <3>2, <2>1, <2>2 DEF longer
  <2>3. CASE ~(Len(offsets) < MaxOffsets)
    BY <2>1, <2>3
  <2> QED BY <2>2, <2>3
<1>2. AdjustOffset(offsets, suggested) = [offsets |-> all, offset |-> middle]
  BY DEF AdjustOffset
<1> HIDE DEF all
<1>3. Len(all) \div 2 + 1 \in 1..Len(all)
  <2>1. MaxOffsets \in Nat
    BY TimeSynchAssumption
  <2> DEFINE l == Len(all)
  <2>2. l \in Nat \ {0}
    BY <1>1, <2>1
  <2> HIDE DEF l
  <2>3. l \div 2 + 1 \in 1..l
    BY <2>2
  <2> QED BY <2>3 DEF l
<1>4. middle \in Clock16
  BY <1>1, <1>3, ElementOfSeq
<1> HIDE DEF middle
<1> QED BY <1>1, <1>2, <1>4, TimeSynchAssumption DEF GoodClock, ClockRecord, Clock16

\* The time of a node fits in 16 bits.
LEMMA TimeTyped ==
  ASSUME TypeOK, NEW n \in Node PROVE Time(n) \in Clock16
<1>1. Raw(n) \in Clock16
  <2>1. life[n] \in 0..MaxLives
    BY DEF TypeOK
  <2>2. <<n, life[n]>> \in Node \X (0..MaxLives)
    BY <2>1
  <2>3. RawClock \in [Node \X (0..MaxLives) -> Clock16]
    BY TimeSynchAssumption, Zenon DEF Clock16
  <2>4. RawClock[<<n, life[n]>>] \in Clock16
    BY <2>2, <2>3
  <2> QED BY <2>4, Zenon DEF Raw
<1>2. clock[n].offset \in Clock16
  BY DEF TypeOK, ClockRecord, Clock16
<1> DEFINE raw == Raw(n)
           offset == clock[n].offset
<1>3. raw \in Int /\ offset \in Int
  BY <1>1, <1>2, ClockNumbers
<1> HIDE DEF raw, offset
<1>4. (raw + offset) % ClockModulus \in Clock16
  BY <1>3, ClockWraps
<1> QED BY <1>4, Zenon DEF Time, raw, offset

\* The sniffer keeps a clock good, whatever a frame says.
LEMMA SniffedGood ==
  ASSUME TypeOK, NEW n \in Node, NEW t, NEW f \in Frame
  PROVE  GoodClock(Sniffed(n, t, f))
<1> DEFINE c == clock[n]
           now == Time(n)
           sent == f.time
           offset == clock[n].offset
           suggested == (offset + ClockModulus + sent - now) % ClockModulus
<1>1. /\ GoodClock(c) /\ c.offset \in Clock16
      /\ c.offsets \in Seq(Clock16) /\ Ascending(c.offsets) /\ Len(c.offsets) <= MaxOffsets
  BY DEF TypeOK, GoodClock, ClockRecord, Clock16
<1>2. suggested \in Clock16
  <2>1. now \in Clock16 /\ sent \in Clock16 /\ offset \in Clock16
    BY <1>1, TimeTyped DEF Frame, Clock16
  <2> HIDE DEF now, sent, offset
  <2>2. now \in Nat /\ sent \in Nat /\ offset \in Nat
    BY <2>1, ClockNumbers
  <2>3. offset + ClockModulus + sent - now \in Int
    BY <2>2, ClockWraps
  <2> QED BY <2>3, ClockWraps
<1>3. << >> \in Seq(Clock16) /\ Ascending(<< >>) /\ Len(<< >>) <= MaxOffsets
  BY TimeSynchAssumption DEF Ascending
<1>4. /\ GoodClock(AdjustOffset(<< >>, suggested))
      /\ GoodClock(AdjustOffset(c.offsets, suggested))
  <2> HIDE DEF suggested, c
  <2> QED BY <1>1, <1>2, <1>3, AdjustOffsetGood
<1>5. \/ Sniffed(n, t, f) = AdjustOffset(<< >>, suggested)
      \/ Sniffed(n, t, f) = AdjustOffset(c.offsets, suggested)
      \/ Sniffed(n, t, f) = c
  <2> DEFINE newer == f.level < t.level \/ (f.level = t.level /\ IsNewer(f.seqno, t.authority_seqno))
             same == f.level = t.level /\ f.seqno = t.authority_seqno
  <2>1. Sniffed(n, t, f) = CASE newer -> AdjustOffset(<< >>, suggested)
                             [] same -> AdjustOffset(c.offsets, suggested)
                             [] OTHER -> c
    BY Zenon DEF Sniffed
  <2> HIDE DEF newer, same, suggested, c
  <2> QED BY <2>1
<1> QED
  <2> HIDE DEF suggested, c
  <2> QED BY <1>1, <1>4, <1>5

\* Addresses differ in one byte, so there are not more nodes than that.
LEMMA NodesAreFinite == IsFiniteSet(Node)
<1>1. Authority \in Injection(Node, 1..254)
  BY TimeSynchAssumption DEF Injection, IsInjective
<1> DEFINE top == 254
<1> HIDE DEF top
<1>2. IsFiniteSet(1..254)
  <2>1. top \in Int
    BY DEF top
  <2>2. IsFiniteSet(1..top)
    BY <2>1, FS_Interval
  <2> QED BY <2>2 DEF top
<1> QED BY <1>1, <1>2, FS_Injection

LEMMA InitTypeOK == Init => TypeOK
<1> SUFFICES ASSUME Init PROVE TypeOK
  OBVIOUS
<1>1. ts \in [Node -> TsRecord]
  BY ClosedGood DEF Init, GoodTs
<1>2. clock \in [Node -> ClockRecord] /\ \A n \in Node : GoodClock(clock[n])
  BY UnsetClockGood DEF Init, GoodClock
<1>3. /\ inits \in [Node -> Nat] /\ (\A n \in Node : inits[n] <= MaxInits[n])
      /\ life \in [Node -> 0..MaxLives] /\ losses \in 0..MaxLosses
  BY TimeSynchAssumption DEF Init
<1>4. up \in SUBSET Node /\ rx \in [Node -> Frame \cup {NoFrame}]
  BY DEF Init
<1> QED BY <1>1, <1>2, <1>3, <1>4 DEF TypeOK, GoodClock

\* The election's records have their types by the invariant above.
LEMMA TsTyped ==
  ASSUME TypeOK, Next, IInv' PROVE ts' \in [Node -> TsRecord]
<1>0. ts \in [Node -> TsRecord]
  BY DEF TypeOK
<1>1. ts' = [n \in Node |-> ts'[n]]
  <2>1. ASSUME NEW n \in Node, NEW t, ts' = [ts EXCEPT ![n] = t]
        PROVE  ts' = [m \in Node |-> ts'[m]]
    BY <1>0, <2>1
  <2>2. ASSUME NEW n \in Node, Initialize(n) PROVE ts' = [m \in Node |-> ts'[m]]
    BY <1>0, <2>2 DEF Initialize
  <2>3. ASSUME NEW n \in Node, \/ SenseEmergency(n) \/ TimerFires(n)
                               \/ SendTimesynchData(n) \/ Recv(n) \/ Crash(n)
        PROVE  ts' = [m \in Node |-> ts'[m]]
    <3>1. \E t : ts' = [ts EXCEPT ![n] = t]
      BY <2>3, Zenon DEF SenseEmergency, TimerFires, SendTimesynchData, Recv, Crash
    <3> QED BY <2>1, <3>1
  <2>4. ASSUME NEW n \in Node, Restart(n) PROVE ts' = [m \in Node |-> ts'[m]]
    BY <1>0, <2>4 DEF Restart
  <2>5. ASSUME Tick PROVE ts' = [m \in Node |-> ts'[m]]
    BY <2>5 DEF Tick
  <2> QED BY <2>2, <2>3, <2>4, <2>5, Zenon DEF Next
<1>2. DOMAIN ts' = Node /\ \A n \in Node : ts'[n] \in TsRecord
  BY DEF IInv, TsInv, GoodTs
<1> QED BY <1>1, <1>2

\* Only what a node hears moves its clock, and power loss resets it.
LEMMA ClockTyped ==
  ASSUME TypeOK, Next
  PROVE  clock' \in [Node -> ClockRecord] /\ \A n \in Node : GoodClock(clock'[n])
<1>0. clock \in [Node -> ClockRecord] /\ \A n \in Node : GoodClock(clock[n])
  BY DEF TypeOK, GoodClock
<1>1. ASSUME NEW n \in Node, NEW c, GoodClock(c), clock' = [clock EXCEPT ![n] = c]
      PROVE  clock' \in [Node -> ClockRecord] /\ \A m \in Node : GoodClock(clock'[m])
  <2>1. c \in ClockRecord
    BY <1>1 DEF GoodClock
  <2> QED BY <1>0, <1>1, <2>1
<1>2. ASSUME NEW n \in Node, Recv(n)
      PROVE  clock' \in [Node -> ClockRecord] /\ \A m \in Node : GoodClock(clock'[m])
  <2>1. rx[n] \in Frame
    BY <1>2 DEF Recv, TypeOK
  <2>2. GoodClock(Sniffed(n, ts[n], rx[n]))
    BY <2>1, SniffedGood
  <2> QED BY <1>1, <1>2, <2>2 DEF Recv
<1>3. ASSUME NEW n \in Node, Crash(n)
      PROVE  clock' \in [Node -> ClockRecord] /\ \A m \in Node : GoodClock(clock'[m])
  BY <1>1, <1>3, UnsetClockGood DEF Crash
<1>4. CASE clock' = clock
  BY <1>0, <1>4
<1>5. \/ \E n \in Node : Recv(n) \/ Crash(n)
      \/ clock' = clock
  BY DEF Next, Initialize, SenseEmergency, TimerFires, SendTimesynchData, Restart, Tick
<1> QED BY <1>2, <1>3, <1>4, <1>5

\* A frame takes the level and the time of the node that sends it.
LEMMA FramesTyped ==
  ASSUME TypeOK, Next PROVE rx' \in [Node -> Frame \cup {NoFrame}]
<1>0. rx \in [Node -> Frame \cup {NoFrame}]
  BY DEF TypeOK
<1>1. ASSUME NEW n \in Node, SendTimesynchData(n)
      PROVE  rx' \in [Node -> Frame \cup {NoFrame}]
  <2> DEFINE frame == [originator |-> Head(ts[n].sq).originator, seqno |-> Head(ts[n].sq).seqno,
                       level |-> ts[n].level, time |-> Time(n)]
  <2>1. PICK lost : rx' = [m \in Node |-> IF m \in (InRange[n] \cap up) \ lost
                                          THEN frame ELSE rx[m]]
    BY <1>1, Zenon DEF SendTimesynchData
  <2>2. Head(ts[n].sq) \in Packet /\ ts[n].level \in 0..255
    BY <1>1 DEF SendTimesynchData, TypeOK, TsRecord
  <2>3. frame \in Frame
    <3>1. Time(n) \in Clock16
      BY TimeTyped
    <3> QED BY <2>2, <3>1 DEF Packet, Frame, Clock16
  <2> HIDE DEF frame
  <2> QED BY <1>0, <2>1, <2>3
<1>2. ASSUME NEW n \in Node, Recv(n) \/ Crash(n)
      PROVE  rx' \in [Node -> Frame \cup {NoFrame}]
  <2>1. rx' = [rx EXCEPT ![n] = NoFrame]
    BY <1>2 DEF Recv, Crash
  <2> QED BY <1>0, <2>1
<1>3. \/ \E n \in Node : SendTimesynchData(n) \/ Recv(n) \/ Crash(n)
      \/ rx' = rx
  BY DEF Next, Initialize, SenseEmergency, TimerFires, Restart, Tick
<1> QED BY <1>0, <1>1, <1>2, <1>3

\* Power, and the counters that bound the model.
LEMMA BoundsTyped ==
  ASSUME TypeOK, Next
  PROVE  /\ up' \in SUBSET Node /\ life' \in [Node -> 0..MaxLives]
         /\ inits' \in [Node -> Nat] /\ \A n \in Node : inits'[n] <= MaxInits[n]
         /\ losses' \in 0..MaxLosses
<1>0. /\ up \in SUBSET Node /\ life \in [Node -> 0..MaxLives]
      /\ inits \in [Node -> Nat] /\ \A n \in Node : inits[n] <= MaxInits[n]
      /\ losses \in 0..MaxLosses
      /\ MaxInits \in [Node -> Nat] /\ MaxLives \in Nat /\ MaxLosses \in Nat
  BY TimeSynchAssumption DEF TypeOK
<1>1. up' \in SUBSET Node
  BY <1>0 DEF Next, Initialize, SenseEmergency, TimerFires, SendTimesynchData, Recv,
              Crash, Restart, Tick
<1>2. life' \in [Node -> 0..MaxLives]
  <2>1. ASSUME NEW n \in Node, Crash(n) PROVE life' \in [Node -> 0..MaxLives]
    <3>1. life[n] + 1 \in 0..MaxLives /\ life' = [life EXCEPT ![n] = life[n] + 1]
      BY <1>0, <2>1 DEF Crash
    <3> QED BY <1>0, <3>1
  <2>2. (\E n \in Node : Crash(n)) \/ life' = life
    BY DEF Next, Initialize, SenseEmergency, TimerFires, SendTimesynchData, Recv, Restart, Tick
  <2> QED BY <1>0, <2>1, <2>2
<1>3. inits' \in [Node -> Nat] /\ \A n \in Node : inits'[n] <= MaxInits[n]
  <2>1. ASSUME NEW n \in Node, Initialize(n)
        PROVE  inits' \in [Node -> Nat] /\ \A m \in Node : inits'[m] <= MaxInits[m]
    <3>1. /\ inits[n] + 1 \in Nat /\ inits[n] + 1 <= MaxInits[n]
          /\ inits' = [inits EXCEPT ![n] = inits[n] + 1]
      BY <1>0, <2>1 DEF Initialize
    <3> QED BY <1>0, <3>1
  <2>2. (\E n \in Node : Initialize(n)) \/ inits' = inits
    BY DEF Next, SenseEmergency, TimerFires, SendTimesynchData, Recv, Crash, Restart, Tick
  <2> QED BY <1>0, <2>1, <2>2
<1>4. losses' \in 0..MaxLosses
  <2>1. ASSUME NEW n \in Node, SendTimesynchData(n) PROVE losses' \in 0..MaxLosses
    <3>1. PICK lost \in SUBSET (InRange[n] \cap up) :
            /\ losses + Cardinality(lost) <= MaxLosses
            /\ losses' = losses + Cardinality(lost)
      BY <2>1, Zenon DEF SendTimesynchData
    <3>2. Cardinality(lost) \in Nat
      <4>1. lost \in SUBSET Node
        BY <1>0
      <4> QED BY <4>1, NodesAreFinite, FS_Subset, FS_CardinalityType
    <3> QED BY <1>0, <3>1, <3>2
  <2>2. (\E n \in Node : SendTimesynchData(n)) \/ losses' = losses
    BY DEF Next, Initialize, SenseEmergency, TimerFires, Recv, Crash, Restart, Tick
  <2> QED BY <1>0, <2>1, <2>2
<1> QED BY <1>1, <1>2, <1>3, <1>4

LEMMA NextTypeOK == TypeOK /\ IInv' /\ [Next]_vars => TypeOK'
<1> SUFFICES ASSUME TypeOK, IInv', [Next]_vars PROVE TypeOK'
  OBVIOUS
<1>1. CASE UNCHANGED vars
  BY <1>1 DEF vars, TypeOK
<1>2. CASE Next
  BY <1>2, TsTyped, ClockTyped, FramesTyped, BoundsTyped DEF TypeOK, GoodClock
<1> QED BY <1>1, <1>2

\* Numbers, levels and times stay within their bytes and words, and the table
\* from which adjust_offset takes a node's time is sorted and never too long.
THEOREM TimeSynchTyped == Spec => []TypeOK
<1> QED BY InitTypeOK, NextTypeOK, AlwaysIInv, PTL DEF Spec

=============================================================================
