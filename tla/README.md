# TLA+ specifications of the indoor sensor network

These modules specify the firmware of the sensor nodes, `src/src/`: the network stack
`emergency_net` (the reliable connection between neighbours, flooding, multicast, the mesh to
the sink, time synchronisation with its leader election), the queues it is built on
(`base/queue_buffer`, `packet_buffer`), the application `main_reg_sensor.c` that is set up and
reset from the sink, computes the ways out of a burning building and blinks along them, and
what the interface at the sink, `src/GUI/`, knows of fires. Each module is model-checked with TLC
on small instances. For every module with state but FireStatus the types and the invariants that
do not depend on the instance are also proved with TLAPS for every value of the constants, and so
are the two refinements.

* `tlc -config X.cfg M` runs a configuration; `tlapm M.tla` checks the proofs of a module.
* A file `MC*.tla` holds the instance and `MC*.cfg` one run each.
* `PROJECT.json` lists the components, the runs, which lines of the source each definition
  models, the hazards the properties are for, and, for every property, a mutant of the model
  (a plausible bug) that the property catches. A mutant stands in a module just before the
  definition it alters, with a comment that says what is wrong with it.

## 1. The system

A node is one Contiki process (`fire_process`) with `ctimer` call-backs and radio call-backs
that run to completion in the same scheduler; only the blink timer (`rtimer`) is an interrupt.
What interleaves are the handlers, on one node and between nodes, and the radio.

| component | state | operations | relies on |
|---|---|---|---|
| queue buffer (`base/queue_buffer.[ch]`) | a ring of slots, a list of used ones, a list of free ones, a size, one iterator | allocate/push/pop at both ends, free any, clear, walk, find | - |
| packet buffer (`emergency_net/packet_buffer.[ch]`) | a queue buffer of packets and one FIFO list for each packet type; the neighbours still to acknowledge, the times sent | add broadcast, unicast or multicast packet, find, free, note an acknowledgement | queue buffer |
| packet headers (`packet.[ch]`) | - | constructors, comparisons | - |
| neighbour connection (`emergency_conn.c`) | sending queue, duplicate queue, ACK timer, data timer | `ec_reliable_broadcast_ns`, `send_neighbor_data`, `send_neighbor_ack`, `neighbor_recv` | packet buffer, radio, ctimers |
| broadcast, multicast, unicast connection (`emergency_conn.c`) | the same queues, two more timers | `ec_broadcast`, `ec_reliable_multicast`, `ec_reliable_unicast`, `broadcast_recv` | the same |
| mesh connection (`emergency_conn.c`) | the mesh list of the sending queue | `ec_mesh`, sent, timeout and receive call-backs | Contiki's mesh |
| time synchronisation (`emergency_conn.c`, `timesynch.c`, `timesynch_gluer.[ch]`) | leader's level and number, the leader timer, the clock's offset and its table | `ec_timesynch_on`, `ec_timesynch_network`, `timesynch_as_leader`, `timesynch_recv`, the sniffer | packet buffer, the radio's time stamps |
| neighbour table (`neighbors.[ch]`, `neighbor_node.[ch]`, `coordinate.[ch]`) | per neighbour: address, coordinate distance, announced path, keep-alive flag | add, remove, look up, set path and distance | - |
| path selection (`main_reg_sensor.c`) | best path neighbour, burning, sensor metric, `has_sent_node_info` | the `ec_neighbors_recv` handlers, sensing, keep-alive send and check | neighbour connection, neighbour table |
| blinking (`main_reg_sensor.c`) | the rtimer, which sequence is next | `blinking_init`, `blinking_update`, `blink` | best path, synchronised time |
| set-up, reset, commands (`main_reg_sensor.c`) | `is_reset_mode`, `is_awaiting_setup_packet`, sink state | button, SETUP, INITIALIZE, RESET, serial commands | all of the above, flash |
| node properties (`base/node_properties.c`) | a tagged record in flash | restore, burn | flash driver |
| interface (`src/GUI`) | node list, fire list, the window shown | read a line, check for new data, replace the window, order a set-up or a reset | the sink's serial line |
| not compiled or not ours | `emergency_mac.*`, unit tests, Contiki 2.4 (`third_party`) | | |

How they interact: the application calls `ec_*` functions, which put packets into the one
sending queue (`sq`) and set a timer; the timer call-backs hand packets to Rime (`abc_send`);
a received frame goes first through the time-synchronisation sniffer, then to the handler of
its channel, which consults the duplicate queue (`dq`), calls the application back **before**
it queues the acknowledgement, and the application may queue packets of its own inside that
call-back. Time synchronisation is switched on by the INITIALIZE packet that also starts the
path computation; sensing fire starts the leader election.

What is hard about it, and what makes each part correct:

* *Queue*: slots change lists in every order. No slot may be lost or be in two lists.
* *Connection*: frames are lost, collide, are repeated; three packets must fit whenever one is
  accepted; a slot keeps its last user's leftovers; a search over types meets an ACK before the
  data; nodes restart with cleared memory. An acknowledgement must mean delivery, a packet be
  delivered once and in order, the queue never stall.
* *Paths*: a distributed distance-vector computation with 16-bit metrics, changing weights,
  removed neighbours, and different packets that enable different parts of a node. Paths must
  be current, best, not better than the truth, free of circles, and lead out.
* *Election*: several nodes lead at once, floods cross, leaders die, numbers wrap. One leader
  must survive, all must follow its clock, and floods must end.
* *Floods, multicasts, reports*: they share one queue and one memory of duplicates, and the
  mesh answers later, or about another packet. What is queued must leave, what is confirmed
  must have been handed over, and a free must find its packet.
* *Life of a node*: floods of different rounds overtake each other, flash is written in three
  steps, queued packets outlive a reset. In the end every node must take part, once.
* *Interface*: two threads share two lists; one removes lines while it goes through them. The
  screen must catch up with the network.

## 2. The modules

```
BoundedDeque  <--implements-- QueueBuffer <--- QueueBufferProofs
ReliableBroadcast <--implements-- NeighborConn --extends--> PacketBuffer, DupeQueue
                                  NeighborConn <--- NeighborConnProofs --> PacketBufferProofs
EmergencyConn --extends--> PacketBuffer, DupeQueue
EmergencyConn <--- EmergencyConnProofs --> PacketBufferProofs
EscapePaths   <--- EscapePathsProofs       (both assume of their packets
NodeLifecycle <--- NodeLifecycleProofs      what NeighborConn gives)
TimeSynch     <--- TimeSynchProofs
FireStatus
SequenceLemmas   (lemmas about sequences and finite sets, under all *Proofs)
MC*              (instances for TLC)
```

**QueueBuffer** has the slots and both lists as sequences of slots, one action for each
function. `BoundedDeque` is what its header promises: a bounded sequence. The refinement
mapping reads the items through the used list.

**PacketBuffer** is a module of operators on a record: `queued` in order of allocation (the
list of a type is a subsequence), `leftover` (of the free slots, next to be used first, the
`unacked_ns` their last user left there, since `packet_buffer_unicast_packet` without
neighbours does not initialise it), and `null_write`. `allocate_buffered_packet` passes the
slot to `add_buffered_packet_tail` before it is tested for NULL; on the MSP430 the write to
address zero does not trap, so the model records it and goes on.

**NeighborConn** is the network of nodes that run the neighbour connection. An action is one
timer call-back or the handling of one received frame; the cases of `neighbor_recv` and
`send_neighbor_data` are disjuncts. A frame at a node's radio waits in `rx`; while it waits,
what else arrives is lost, and any frame may be lost on the way to any node. A unicast or
multicast that does not name a node is not put at its radio, because the code ignores it. A
collision is reported by `abc_send`. Durations are left out: a pending timer may fire at any
time, which includes every schedule of the real timers. The application is present as far as
it calls back into the connection: it forwards what the sink flooded (`Callback`), may answer
with a packet of its own, and may send one spontaneously (`AppBroadcast`). `seen` and `log` are
history variables. `Crash` clears memory, `Restart` finds the same neighbours in flash but the
sequence number back at zero (`reset_node_properties`). **ReliableBroadcast** is the promise of
`emergency_conn.h:71` without buffers, timers and frames: a packet is outstanding until every
peer knows it, or is given up as the oldest after `Attempts` transmissions, or lost with the
power. The mapping takes the data packets of the queue as `outstanding` and `seen` as `known`.

**EscapePaths** is the path computation of `main_reg_sensor.c`. One action is one handler of
`ec_neighbors_recv`, of `ec_broadcasts_recv`, or one timer branch of `fire_process`, run to its
end. `net` holds a FIFO per pair of nodes, which is what NeighborConn provides, and `GiveUp`
drops a packet for one receiver, which it does too; what is sent to a node that has stopped is
given up at once, and what a node had queued when it stopped is lost. A failed `ASSERT` stops a node for good
(`base/log.h`): `failed` says which. Metrics are added modulo 2^16 and hops modulo 2^8. The
neighbour comparison of `PathChanged` is kept as the code has it, without the distances. The
keep-alive check goes through a list while it removes from it: the entry after a removed head is
not examined, so it survives the check, silent or not (`Kept`). Handlers do not interrupt each other,
but the blink timer does: `BlinkFails` may come between handlers, and in the middle of the
keep-alive check, when the best path neighbour has been removed and no other was chosen yet.

**TimeSynch** is the election and the clock. `ts` holds `is_on`, the node's own number, level
and number of its leader, the leader timer (pending, units left) and the queued packets;
`clock` the offset and its table, into which a new offset is inserted in its place so that the
middle one is the median. Time is counted in units of 30 s (leader update 1,
leader timeout 2), a round's packets being forwarded within a unit in any order: a hop takes
1 to 3 s, so a round crosses a network of ten hops within one. `Recv` is the sniffer followed
by `timesynch_recv`; the sniffer goes by the level of the *sender*, which the radio adds to the
frame, `timesynch_recv` by that of the *originator*. Clocks do not drift.

**DupeQueue** is the memory of duplicates that the connections of a node share.

**EmergencyConn** is the rest of `emergency_conn.c`: floods, multicast and unicast, the mesh.
One action is one timer call-back together with the handling of the frame it sends; handling
touches the receiver alone and does not depend on what the sender does next, so this loses no
behaviour but the one where the frame waits while the receiver does something else, which it
might have done before. The application is present by what it queues: it forwards floods,
answers EXTRACT_REPORT with a report; the sequence number wraps at 256; and an application that multicasts is assumed at the
sink (`main_reg_sensor.c:1045-1065` has such calls commented out). Each node has the neighbours of
its table, which grows when it hears IM_YOUR_NEW_NEIGHBOR; a broadcast waits for these, and
`Neighbors` says which they are at first. Of Contiki's mesh the
state is a route or none and a packet or none that waits for one; `mesh_send`, `found_route`
and `route_timed_out` are translated, the discovery itself may succeed or fail at any time.

**NodeLifecycle** is one node after another being set up, started, reset, losing power and
hearing of emergencies. Reliable packets are delivered in order or given up, which is what
ReliableBroadcast says of them; the path is reduced to whether there is one (`bpn` is none,
there, or points into a table that was cleared). The sink does what the interface orders: after
each set-up and each reset comes an INITIALIZE. A set-up packet is burnt to flash in three
writes, and power may fail after the first (`blank`) or the second (`torn`: a tag over erased
data, which the next boot reads as a set-up of zeros).

**FireStatus** is the interface: one thread reads lines, in two steps for the lines of alarms
since looking for a line and adding it are two calls on the shared list; the other goes through
`checkNewData` in steps, one for each access to a shared list. `swallowed` and `latest` are
history.

## 3. The runs

Every run finishes within three minutes on two cores. Those marked ✗ must find a violation:
they show a disagreement between the code and something written in the repository (section 5).

| run | instance | properties and what they show |
|---|---|---|
| MCQueueBuffer | 4 slots, 2 items, every sequence of calls (complete) | `RingIsSound`: no slot is lost or doubled, and the counter is right. `ImplementsDeque` |
| MCNeighborConnPair | 2 nodes; one may crash once, the other sends 2 packets of its own; the sink floods 1; 3 slots, 2 attempts | `NoSlotLost`, `NoStalledPacket` (whoever has a packet has a timer), `OnlyFirstSent`, `DataWaitsForSomeone` (the assertion at `emergency_conn.c:99`), `DeliveredOnce`, `ReservedRoomSuffices` (three slots suffice) |
| MCNeighborConnLine | a line of 3 and a listener; the middle node sends 2; duplicate queue of 1 | `AckedWasSeen`, `DeliveredInOrder`, `ConfirmedWasDelivered`, `ImplementsReliableBroadcast`, and under fairness `QueueDrains` |
| MCEscapePathsFire | the square; the sensor of one node changes twice among no fire and two readings of fire; 1 packet given up | `NeverTooGood`, `AnnouncedIsCurrent`, `ChosenIsBest`, `BurningIsSynched`, `ShortestWhenQuiet`: before any fire, once all is quiet everyone has the length of the shortest way |
| MCEscapePathsChecks | a triangle whose one exit burns or dies; the other two check keep-alives twice, which only one of them sends in time | `CirclesHaveAWayOut`: of nodes that point at each other one knows another way (that there are such circles is finding 15). `StopsForAReason`: a node stops for want of a path only before it has told of itself, when its last neighbour is gone, or when the blink interrupt comes in the middle of the check |
| MCTimeSynch | a line, both ends sense fire, the better dies and returns, 1 frame lost | `NobodyFollowsWorse`, `LeaderIsWatched`, `NoRival`, and under fairness `NeighborsAgree`, `LeaderLives`, `FloodsEnd` |
| MCEmergencyConn | a line of sink and 2 nodes; 1 alarm; 2 packets by the sink, two report requests or a multicast and then a request; 1 frame lost; 4 slots, 1 attempt for a report | `FloodReaches`: no flood is left behind in a queue. `ConfirmedWasHanded`: a multicast leaves the queue only when all it names have it. `ReportNotStranded` |
| MCNodeLifecycle | a triangle: an exit, a node that does not hear the sink, a node still to be set up; 3 packets by the sink, 1 emergency, 1 fault | `StartUpCompletes`: whatever overtakes what, all nodes set up end out of reset mode with path and neighbours, also when another node's flash is torn. `ResetAllowsInit`: only a repeated INITIALIZE, a node set up while a flood is on its way, or a fault stops an exit |
| MCFireStatus | 2 nodes, 4 alarms | `ShowsLatest`, and under fairness `CatchesUp`: the windows do not replace each other for ever |
| MCEscapePathsDeadEnd ✗ | a line, the far end burns, keep-alive checks | `LeadsOut` |
| MCEmergencyConnMesh ✗ | the same line, 2 report requests, no loss | `FreesWhatIsQueued` |
| MCNodeLifecycleEmergency ✗ | the triangle, all set up, no fault | `BlinkingHasPath` |

Each component with state also has its `TypeOK`, among them the width of metrics and hops and
the bounded lengths of the duplicate queue and of the offset table.

**Bounds.** A queue of four slots has front, back, and two inner positions, so that every case
of unlinking occurs. Three is the smallest sending queue that can accept anything at all
(`neighbor_recv` wants room for three), and it fills with two packets of one's own. Two
attempts are a first broadcast and a retransmission, which differ in the code; two own packets
make a queue with a second, unsent packet. A duplicate queue of one is one too short for what
arrives, so eviction happens; three is enough for everything, so that `DeliveredOnce` is about
the protocol and not about forgetting (with one slot of memory and a returning copy it is not
promised). Four nodes in a square are the least network with two ways to choose from, three in
a line the least where news must pass through somebody; these two are also the networks of
`cooja_simulation1.impl`. A sending queue of four lets a node keep one packet and still accept
another, and fills with two; two requests make two reports compete for the mesh. Three commands
by the sink are the shortest round after a round (INITIALIZE, RESET, INITIALIZE, or a set-up
between). The readings are no fire and two of fire more than 200 apart, so that a reading changes
abruptly while the node burns. In a triangle two nodes share an exit and can fall back on each
other when it burns; `Alarmed`, `Lively` and `MaxChecks` say which nodes the flood of EMERGENCY may
reach, whose keep-alives are in time, and how often each checks: in MCEscapePathsChecks the two
that stay, one of them silent, twice each. `MaxSinkPackets` bounds what the sink sends in
MCEmergencyConn, requests and multicasts together: two requests, or a multicast and then a request, never two
requests *and* a multicast, with which the run no longer ends within five minutes. Four alarms are fire, clean and fire of one node while the other interferes. Nine sequence numbers are the fewest with which the overflow rule
(`seqno < last/8`) ever holds, and with one loss and one restart the election wraps around
several times: the state space is not cut by a bound on time. Symmetry is not used: nodes
differ by address, place or role.

**Fairness.** Timers fire, and frames are sent and handled; in TimeSynch time passes; in
FireStatus the reader adds the line it has in hand and the thread that checks goes on.
That is what Contiki's scheduler and timers, and the Java threads, guarantee, and nothing else is assumed: nobody has to
sense fire, lose power, come back, or send. In NeighborConn fairness is weak and per timer and
node; nothing forces a transmission to be heard, so `QueueDrains` holds through give-up.
Deadlock is not checked where a network may be quiet for good, which is its normal end; it is
checked in MCQueueBuffer and MCFireStatus.

## 4. The proofs

| theorem | property | says, for every value of the constants |
|---|---|---|
| `QueueBufferTyped` | `TypeOK` | both lists consist of slots of the ring, the counter is within the capacity |
| `QueueBufferCorrect` | `RingIsSound` | every slot is used or free and never both, and the counter is the length of the list of used slots |
| `IsADeque` | `ImplementsDeque` | the linked slots implement the bounded deque, step by step |
| `NeighborConnTyped` | `TypeOK` | the types, and the duplicate queue's bound |
| `SlotsAreKept` | `NoSlotLost` | no slot of a sending queue is ever lost |
| `AcknowledgedWasSeen` | `AckedWasSeen` | a neighbour is struck off only if it had the packet |
| `NoPacketStalls` | `NoStalledPacket` | who runs and has something to send has a timer that sends it |
| `OneIsSentAtATime` | `OnlyFirstSent` | only the oldest data packet was ever transmitted |
| `SomeoneIsWaitedFor` | `DataWaitsForSomeone` | the assertion at `emergency_conn.c:99` never fails |
| `CopiesAreFarApart` | | another copy of a packet is handed on only after so many packets that the duplicate queue has forgotten its key |
| `ReceivedOnce` | `DeliveredOnce` | no packet is handed on twice, as long as no more went through a node than its duplicate queue holds |
| `DeliversInOrder` | `DeliveredInOrder` | what a node or the sink makes arrives from it in the order of its numbers |
| `ConfirmedUntilCrash` | | as long as no node has lost power, a packet that leaves as acknowledged was handed to all neighbours |
| `ConfirmedIsDelivered` | `ConfirmedWasDelivered` | the same of every step where no node may lose power |
| `ReservedRoomIsEnough` | `ReservedRoomSuffices` | with three free slots a packet is accepted without a null write |
| `KeepsThePromise` | `ImplementsReliableBroadcast` | the protocol implements the promise of the header, step by step |
| `TimeSynchTyped` | `TypeOK` | widths of levels, numbers, clocks; the table of offsets is sorted and bounded |
| `NobodyFollowsWorseAlways` | `NobodyFollowsWorse` | no leader is worse than its follower |
| `LeaderIsWatchedAlways` | `LeaderIsWatched` | who has a leader has the timer that notices its silence |
| `NodeLifecycleTyped` | `TypeOK` | the types, through torn flash and queues that outlive a reset |
| `NoSecondNodeInfo` | `ResetAllowsInit` | only a repeated INITIALIZE, a hasty set-up or a fault stops an exit |
| `StartUpEnds` | `StartUpCompletes` | in a well linked network, without a fault or a repeated INITIALIZE: when all is quiet after INITIALIZE, every node set up has left reset mode, has a path and knows its neighbours |
| `EmergencyConnTyped` | `TypeOK` | the types and the bounds of both queues |
| `ReportsAreTried` | `ReportNotStranded` | a waiting report has a timer, or the mesh holds one |
| `MulticastsAreConfirmed` | `ConfirmedWasHanded` | a multicast leaves the queue only when all it names were handed one of its key |
| `FloodsAreSent` | | as long as no sending queue overflowed: when no broadcast waits, what a node has to send on was handed to, or missed by, whoever is in its range |
| `FloodsReach` | `FloodReaches` | as long as, besides, no duplicate queue is full: no flood is left behind in a queue |
| `EscapePathsTyped` | `TypeOK` | metrics and hops keep their width, `bpn` points into the table or at a special node |
| `BurningKnowsTime` | `BurningIsSynched` | as long as nothing was given up, who burns and has a path is synchronised |
| `StopsOnlyForAReason` | `StopsForAReason` | a node stops for want of a best path neighbour only before it has told of itself, without any neighbour left, or between a removal and the next choice |

They assume only the named ASSUMEs of each module, which TLC evaluates in the runs: capacities
of 1 to 255 (they are `uint8_t`), neighbour tables within the network (of at most eight, and
without doubles), addresses with distinct non-zero first bytes, sensor readings of 12 bits,
bounds that are natural numbers. Fairness plays no part in any of them. Five have a hypothesis
besides, because without it they are false:

* `ConfirmedIsDelivered`: nobody may crash, `Crashers = {}` or `MaxCrashes = 0` (finding 5); this
  is so in MCNeighborConnLine, which checks the property.
* `ReceivedOnce`: `NothingForgotten`, the packets handed on and those the node made fit its
  duplicate queue. In MCNeighborConnPair, which checks the property, they always do.
* `FloodsAreSent`, `FloodsReach`: `FloodersApart`, a node that multicasts senses no emergency
  and the sink's numbers do not wrap. Otherwise one key may be a flood's and a multicast's, and an
  acknowledgement would free the flood. `NothingOverflowed`: a node that has no slot for a packet
  of its own drops it, but remembers it as seen. `FloodsReach` also needs `NothingForgotten`: with
  a `DupeQueueLength` of 2 instead of 4, TLC finds `FloodReaches` violated by a node that has
  forgotten. In MCEmergencyConn itself all three always hold (checked with TLC).
* `StartUpEnds`: `WellLinked`, neighbours know each other, every node has some, and by way of
  nodes that are set up from the beginning one gets from the sink's range to all of these, and
  from the exits to every node. Else INITIALIZE or the path cannot get there. The triangle of
  MCNodeLifecycle is such (`TriangleIsWellLinked`). Besides, `~sink.repeated` and `faults = 0`
  are left to TLC in the general case: the property itself allows for torn flash of other nodes.

*Operators.* `SequenceLemmas` says what removing, inserting and selecting by position does to
length, range and order of a sequence, and when a set of positions can be enumerated in order.
Induction over finite sets is needed for the last; the library states it with an operator as
parameter, so `SetInduction` states it with the set of the sets that have the property instead.
`PacketBufferProofs` says the same of each operator on the sending queue: queued and left-over
slots add up, which entries there are afterwards, and in which order.

*QueueBuffer.* Lists as duplicate-free sequences, disjoint, covering all slots. Lemmas say
which slots occur in a list after taking the head, adding at either end, and removing a
position; each operation is then a step of its own. That invariant is also what the refinement
needs: since a slot occurs once, an item written to it changes the deque at one place.

*NeighborConn.* `AckedWasSeen` is not inductive: the ACK that strikes a neighbour off must be
justified when it arrives. The invariant `IInv` therefore says that an ACK on the air, or in a
queue, was made by a node that has seen its packet; and since a duplicate makes a node repeat
the ACK, that the duplicate queue holds only keys the node has seen. `seen` only grows
(`Grows`), so what was justified stays so (the monotonicity lemmas), also across a crash. That the search
finds the wrong packet for some ACKs (`RecvAck`) does no harm to this property, because what
it strikes off there has the same key. A second invariant, `QInv`, is of one node alone: its
queue is sound (`SoundQueue`: a later data packet was not sent, each waits for someone) and each
type in it has its timer (`Awake`). Every handler is a chain of operations on the record, each of
which keeps both parts or adds one packet and sets its timer; `OneMore` counts the packets, which
gives `ReservedRoomSuffices`. In the refinement a data packet of the queue is an outstanding
message; what a step does to the queue (nothing, one more, the first gone, one neighbour struck
off) is a step of ReliableBroadcast or a stutter, and that a neighbour only leaves `unacked_ns`
with good reason is `IInv`.

Three more invariants follow a packet to the application. `RInv` measures how deep a key lies in
the duplicate queue: no deeper than the number of packets handed on since, plus the node's own
(`Remembers`); a copy that is taken as new must therefore be that far from the one before
(`FarApart`). `OInv` is about order: of one sender, what is in `log`, then what is on the air, then
what is in its queue have ascending numbers, where a packet in the queue may be a copy of the one
on the air. `CInv` says that who knows a packet (`seen`) made it or has it in its `log`, which is
so until a node restarts and uses its numbers again.

In-order delivery is of what a node *makes*. An earlier form of `DeliveredInOrder` spoke of
what a node *sends* of any originator, and TLC refuted it on three nodes with two floods: a node
in range of the sink may hear flood 1 from it before a neighbour brings flood 0, and passes them
on as it got them. `emergency_conn.h:71` promises no order of these.

*TimeSynch.* `IInv` says of each node's record that it has its type and that, if it is on and
has a leader, the timer runs and the leader is not worse than the node; of frames, that they
come from the network and lie at nodes with power; of nodes without power, that their record
is closed. The case that needs the arithmetic is `timesynch_recv`: a level below the present
one is either better than the node's own address or answered by leading. Clocks play no part
there; `TypeOK` has them, and that insertion keeps the table sorted.

*NodeLifecycle.* An exit stops when it computes its path a second time, and what forbids that is
a matter of the whole network: it must not have missed the RESET between two INITIALIZEs, and
node information must not reach it before the INITIALIZE it belongs to. `JInv` says that either
something excuses it (`Excused`, the right-hand side of the property, which stays true), or there
is a set of numbers `I` the sink gave to INITIALIZE and one, `R`, it gave to RESET, which
alternate; every node has seen the commands without a gap and is in the mode of the last; what a
node has seen its neighbour has seen or will get from it (`Forwarded`), in the order sent
(`Ordered`), and node information behind the first of them (`InfoAfter`). Without `Ordered` a
RESET could overtake an INITIALIZE, without `Forwarded` one could be missed, without `InfoAfter`
an exit could compute its path from a node's information and again at INITIALIZE. When a node is
set up into a network that runs, all that is left is that nothing is on its way, which suffices
because the next command is then a repeated INITIALIZE.

`StartUpCompletes` is about what a node learns, so `SInv` adds, as long as nothing excuses it and
all nodes run, `StartUp`: who has told of itself has heard a command of the sink, left the reset
mode and has a path, and knows none but nodes that are set up (`Started`); a node in the sink's
range has heard a command once the sink has initialized; and what a node tells of itself is known
to its neighbour, or waits for it behind every command the neighbour lacks (`Tells`). The order
matters: a node drops information that comes before the INITIALIZE it belongs to. A node takes a
new number when it tells, so nobody can have seen it before (`OwnKeys`, `KeysOf`), and its
neighbours do not take it for a duplicate. When nothing waits any more, the neighbours of a node
that passes commands on have seen what it has seen, and the neighbours of a node that has told
have told; both sets of nodes are `Closed`, so `WellLinked` makes them the whole network
(`AllReached`, `AllTell`). That needs no induction over paths, for the hypothesis speaks of every
closed set of nodes.

*EmergencyConn.* `IInv` says that who was struck off a multicast was handed it, that an
acknowledgement was made by who was handed its packet, and that the duplicate queue holds keys
its node was handed or made; `handed` grows (`Grows`). Keys are used again once the sequence
number has wrapped, so what is proved is of the key. `ReportNotStranded` needs that only the
first report was ever tried, which is why the time-out of the mesh finds the one it is about.

The floods need no induction over paths, since `FloodReaches` is about a node and those in its
range. `FInv` says of each node that what it has to send on (`Due`: its own floods, and those it
was handed unless it is the sink) waits in its queue or has reached whoever is in range (`Reached`: handed to
it, missed by it, made by it, or it is stopped); that what waits has the timer set (`Sound`); that
no key is both a broadcast's and a multicast's (`Keyed`), since an acknowledgement frees the first
packet with its key; and that a duplicate queue which is not full has everything the node was
handed. Each operation on the record keeps what waits (`Passes`); a broadcast leaves the queue in
the step that puts it before everyone in range.

*EscapePaths.* Each handler yields a record that descends from the old one (`Descends`: the same
table but for entries removed, paths of the right width) and packets of the right form
(`Handled`); the choice of a neighbour is the first least of the table, so `bpn` is in it. For
`BurningIsSynched` the invariant `InitializeFirst` says that a node that has not joined the time
synchronisation is silent (no path, nothing sent) and that INITIALIZE is the next packet from
every neighbour that has joined: INITIALIZE is the first packet anyone sends, packets between
two nodes keep their order, and none was given up: the property has `losses = 0` as its premise
(finding 11), and a loss is never taken back. For `StopsForAReason`, `ToldInv` says
that who has told of itself has a path unless no neighbour is left. Each handler keeps that
(`Tells`) or stops the node in the one way that loses a path (`LosesPath`): the keep-alive check
that takes the last neighbour away, or the blink interrupt in the middle of it.

**With TLC only.**

* Liveness (`QueueDrains`, `NeighborsAgree`, `LeaderLives`, `FloodsEnd`, `CatchesUp`) is out of
  the prover's reach.
* `StartUpCompletes` where another node's flash was torn, or INITIALIZE repeated.
* `NoRival` says that the floods of the best leader get through a whole network in time.
* `NeverTooGood`, `ShortestWhenQuiet` and `CirclesHaveAWayOut` are stated with recursive functions
  over the network, and overflow makes the first two false in large networks. `ChosenIsBest`
  depends on the distances (finding 6), and so does `AnnouncedIsCurrent`: a node that changes its
  path by metrics without distances may keep to itself that its announced path has changed. They
  hold of the instances, not of all.
* What these properties excuse is what the code does: `AnnouncedIsCurrent` any reading of a
  burning node's fire (finding 16), `CirclesHaveAWayOut` circles that only a fresh choice would
  resolve (finding 15), `NeverTooGood` neighbours at an unknown distance (finding 10).
  `AnnouncedIsCurrent`, `ChosenIsBest` and `ShortestWhenQuiet` speak of states in which nothing
  was given up.
* FireStatus, whose `CleanFire` selects from a sequence by a predicate, of which the library says
  nothing that can be used without induction over it.

## 5. Where code and text disagree

With a run:

1. `main_reg_sensor.c:451`: 65535 plus a weight wraps: a burning node without a way out
   announces a good path. (MCEscapePathsDeadEnd)
2. `emergency_conn.c:808`: the mesh says "sent" of a packet, and the first report in the queue
   is freed, whichever it is. If the one it was about was given up meanwhile, and the next went
   by a route entered for another node, the free gets NULL, which "should never happen"
   (`packet_buffer.c:189`). (MCEmergencyConnMesh)
3. `main_reg_sensor.c:636`: an emergency that overtakes the node information of the start-up
   stops the nodes it reaches at the assertion of line 263. (MCNodeLifecycleEmergency)

Met while modelling, without a run of their own:

4. `emergency_conn.c:485`: the packet an ACK is for is sought by originator and number over
   all types, and the node's own queued ACK of that packet comes first. The ACK is entered
   there, and the data packet keeps the neighbour until its next copy is answered.
   `RecvAck` models this; `QueueDrains` and the proofs hold in spite of it.
5. `main_reg_sensor.c:559`: a restart resets the sequence number; the neighbours take the first
   packets for duplicates, acknowledge and drop them (`ConfirmedWasDelivered` in
   MCNeighborConnPair with `Crashers <- Second`, so that the sender crashes, and `MaxFloods = 0`).
6. `main_reg_sensor.c:485`: whether to change the best path neighbour is decided by metrics
   without the distances by which the best was just found. On the square of
   MCEscapePathsFire with links near 2000 this violates `ChosenIsBest`.
7. `main_reg_sensor.c:536`: an exit stops at an assertion when INITIALIZE comes twice, which
   the interface causes when it sets up one node after the other, because each set-up is
   followed by an INITIALIZE for all. `ResetAllowsInit` has `sink.repeated` for this, and
   `sink.hasty` for a node set up while INITIALIZE is still passed on: it does not pass it on
   itself, and what it tells may overtake INITIALIZE on another way.
8. `packet_buffer.c:10`, `88`: a full queue is said to drop the packet, but the null slot is
   written first; own packets are not checked for room.
9. `emergency_conn.c:58`, `63`: after a give-up the next packet goes out with the header and
   data of the dropped one, which `GiveUpFirstData` models. `emergency_conn.c:14-15`, `61`, `369`:
   the limits of neighbour data and of reports seem to be swapped.
10. `neighbors.c:19`: if a node information is given up, the neighbour stays at distance zero
   while its later announcements count. `NeverTooGood` without `DistancesKnown`, in MCEscapePathsFire.
11. `emergency_conn.c:946`: a node can have a path without being synchronised, when its
   INITIALIZE is given up; sensing fire stops it. `BurningIsSynched` without
   `losses = 0`, likewise.
12. `emergency_conn.c:880-881`: INITIALIZE resets the number a leader sends to zero while its
    last packet may still be forwarded. If that is numbered eight or more, each of the two
    counts as newer than the other and nodes hand them to each other for ever. `FloodsEnd`, in
    MCTimeSynch with `MaxInits <- BestTwice`, `MaxLives = 0`, `MaxLosses = 0`.
13. `main_reg_sensor.c:616-620`: a node set up while a RESET is still passed on may get that
    RESET after its INITIALIZE and stays in reset mode. `StartUpCompletes` without `~sink.hasty`.
    A node set up into a network that runs hears no node information, because each is sent once.
14. `SerialCommunication.java:174-192`: fire, clean and fire again before the list is gone
    through leave the node clean, because the second "fire" is found in the list
    (`ShowsLatest` without `~swallowed`, which is set when a line is looked for and an equal one
    that the list already overrules is found; the race of look and addition is not excused). `SensorNetworkGUI.java:140` marks a cleaned node as
    burning in one window. One lamp stands for all nodes: the end of one fire turns it off
    while another burns. The reset button leaves the fire list as it is.
15. `main_reg_sensor.c:484-490`: two neighbours whose way out gets dearer or is lost may change to
    each other at the same time. What each then hears makes the other no better than it was and
    no longer usable, and the best that remains is neither the sender nor of lower metric, so
    neither changes nor announces anything: they point at each other for good, although each knows
    another way. In MCEscapePathsChecks `Quiet => \A n \in Node :
    Follow[Cardinality(Node)][n] \notin Node` is violated when the exit of the triangle senses
    fire, against "Neighbor updated its metrics. Broadcast changes." (line 490).
16. `main_reg_sensor.c:1183-1188`: a node that burns already stores an abrupt new reading, which
    weighs in its path, and announces nothing, against the same comment. `AnnouncedIsCurrent`
    with `OurPath(np[m], m)` itself is violated in MCEscapePathsFire by readings 500 and 800.

## 6. Not modelled

* The blink sequence itself: whether a node blinks, and whether its assertions hold, is in
  EscapePaths and NodeLifecycle; the rtimer, the phase along the path and the LEDs are not.
* Commands of the serial line that simulate or print (`init`, `blink`, `id`, the files
  `cooja_simulation*.impl`), the list of burning coordinates (kept, never read), layout of
  packets, log output, the drawing of windows, the lamp.
* `emergency_mac` is not compiled; `ec_timesynch_off` has no caller; the unit tests are tests.
* The iterator that `queue_buffer.h:90` shares between walks: no modelled caller nests them.
* Contiki but for the mesh, the radio driver, the flash driver, and the vendored tool chain.
  The latter (`src/tools/msp430`, headers of registers and of the C library) is the larger part
  of the C text beside Contiki and has no behaviour of the system in it.
* Of Contiki's mesh: queue buffers that run out, and replies for other destinations than the
  sink, which the application never asks for.
* Composition: TimeSynch assumes that the other traffic leaves it slots in the sending queue;
  NeighborConn and EmergencyConn do not compete with each other for them. In NodeLifecycle the
  sending queue and the memory of duplicates have no limit.

## 7. Plan

Done: QueueBuffer, PacketBuffer, DupeQueue, NeighborConn, EmergencyConn, EscapePaths,
NodeLifecycle, TimeSynch and FireStatus, with the runs and theorems above; both refinements
proved step by step. To come:

1. FireStatus: `TypeOK`, which is inductive together with "a line the reader has not found is not
   in the list", and `ShowsLatest`, for which `CleanFire` has to be written without `SelectSeq`,
   as `Kept` is in EscapePaths.
2. Blinking: the sequence number that runs along the path against the synchronised clock.
