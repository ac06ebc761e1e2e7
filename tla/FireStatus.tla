----------------------------- MODULE FireStatus -----------------------------
(***************************************************************************)
(* What the graphical interface (src/GUI) knows of fires: one thread reads *)
(* the lines that the sink prints and enters them in two lists             *)
(* (SerialCommunication.plotMap); another compares the lists with what it  *)
(* saw last (SensorNetworkGUI.checkNewData) and builds a new window when   *)
(* they differ (GUIRunner).  The threads share the lists without a lock    *)
(* beyond that of each call.                                               *)
(*                                                                         *)
(* Of a node only its id and whether it burns are kept: its place and      *)
(* whether it is an exit do not change.  The lamp is left out.             *)
(***************************************************************************)
EXTENDS SequencesExt

CONSTANTS
  Node,      \* the nodes that report
  NoLine,    \* the reader waits for a line
  MaxAlarms  \* bound: EMERGENCY and ANTI_EMERGENCY packets that reach the sink

ASSUME FireStatusAssumption == MaxAlarms \in Nat

\* A report, and a line of the fire list: fire, or "clean:".
Report == [id : Node, on_fire : BOOLEAN]
FireLine == [id : Node, clean : BOOLEAN]

ASSUME NoLineAssumption == NoLine \notin FireLine

VARIABLES
  unreported, \* the nodes whose report has yet to reach the sink
  alarms,
  latest,     \* history: what the sink heard last of each node, its report aside
  reader,     \* the line the reader has in hand, and whether the list has it
  data,       \* SerialCommunication.data
  fireData,   \* SerialCommunication.fireData
  gui,        \* the SensorNetworkGUI and how far its checkNewData is
  window,     \* what the window on the screen shows
  swallowed   \* history: when a line came, an older one like it was in the list, overruled

vars == <<unreported, alarms, latest, reader, data, fireData, gui, window, swallowed>>

\* A SensorNetworkGUI under construction.
NewGUI == [constructing |-> TRUE, pc |-> "nodes", x |-> 0, newData |-> FALSE,
           nodeVector |-> << >>, oldNodeVector |-> << >>, oldFireVector |-> << >>]

Init ==
  /\ unreported = Node
  /\ alarms = 0
  /\ latest = [n \in Node |-> "nothing"]
  /\ reader = [line |-> NoLine, found |-> FALSE]
  /\ data = << >> /\ fireData = << >>
  /\ gui = NewGUI
  /\ window = << >>
  /\ swallowed = FALSE

-----------------------------------------------------------------------------
(* The reader, plotMap.                                                      *)

\* @NODE_REPORT_PACKET: each node answers the one request.  The report may be
\* older than an alarm that came first.
ReadReport(n) ==
  /\ reader.line = NoLine /\ n \in unreported
  /\ unreported' = unreported \ {n}
  /\ \E on_fire \in BOOLEAN :
       /\ data' = Append(data, [id |-> n, on_fire |-> on_fire])
       /\ latest' = [latest EXCEPT ![n] = IF @ # "nothing" THEN @
                                          ELSE IF on_fire THEN "fire" ELSE "no fire"]
  /\ UNCHANGED <<alarms, reader, fireData, gui, window, swallowed>>

\* A line of the list is followed by one that says the opposite.
Overruled(i) == \E j \in i + 1 .. Len(fireData) :
  fireData[j] = [fireData[i] EXCEPT !.clean = ~@]

\* @EMERGENCY_PACKET, @ANTI_EMERGENCY_PACKET: is the line in the list?
ReadAlarm(n) ==
  /\ reader.line = NoLine /\ alarms < MaxAlarms
  /\ alarms' = alarms + 1
  /\ \E clean \in BOOLEAN :
       LET line == [id |-> n, clean |-> clean]
       IN  /\ reader' = [line |-> line, found |-> Contains(fireData, line)]
           /\ latest' = [latest EXCEPT ![n] = IF clean THEN "no fire" ELSE "fire"]
           /\ swallowed' = (swallowed \/ \E i \in DOMAIN fireData :
                                           fireData[i] = line /\ Overruled(i))
  /\ UNCHANGED <<unreported, data, fireData, gui, window>>

\* Mutant of AddLine: it is added in any case.
AddLineAgain ==
  /\ reader.line # NoLine
  /\ fireData' = Append(fireData, reader.line)
  /\ reader' = [line |-> NoLine, found |-> FALSE]
  /\ UNCHANGED <<unreported, alarms, latest, data, gui, window, swallowed>>

\* If it was not, it is added.
AddLine ==
  /\ reader.line # NoLine
  /\ fireData' = IF reader.found THEN fireData ELSE Append(fireData, reader.line)
  /\ reader' = [line |-> NoLine, found |-> FALSE]
  /\ UNCHANGED <<unreported, alarms, latest, data, gui, window, swallowed>>

-----------------------------------------------------------------------------
(* checkNewData, by the thread that constructs a SensorNetworkGUI and then   *)
(* over and over by the main thread.                                         *)

\* The reports are parsed anew and compared with those seen last.
CheckNodes ==
  /\ gui.pc = "nodes"
  /\ gui' = [gui EXCEPT !.pc = "fires", !.nodeVector = data,
                        !.oldNodeVector = IF data = << >> THEN @ ELSE data,
                        !.newData = data # << >> /\ data # gui.oldNodeVector]
  /\ UNCHANGED <<unreported, alarms, latest, reader, data, fireData, window, swallowed>>

\* Mutant of CheckFires: the list seen is not remembered.
CheckFiresForgets ==
  /\ gui.pc = "fires"
  /\ gui' = IF fireData = gui.oldFireVector
            THEN [gui EXCEPT !.pc = "done"]
            ELSE [gui EXCEPT !.pc = "loop", !.x = 1]
  /\ UNCHANGED <<unreported, alarms, latest, reader, data, fireData, window, swallowed>>

\* The fire list is gone through if it is not the one seen last.
CheckFires ==
  /\ gui.pc = "fires"
  /\ gui' = IF fireData = gui.oldFireVector
            THEN [gui EXCEPT !.pc = "done"]
            ELSE [gui EXCEPT !.pc = "loop", !.x = 1, !.oldFireVector = fireData]
  /\ UNCHANGED <<unreported, alarms, latest, reader, data, fireData, window, swallowed>>

\* Mutant of CleanFire: the fires that it cleans stay in the list.
CleanFireOnly(lines, x) == RemoveAt(lines, x)

\* cleanFire: line x goes, and every fire of that node before it.
CleanFire(lines, x) ==
  LET before == SelectSeq(SubSeq(lines, 1, x - 1),
                          LAMBDA line : line # [lines[x] EXCEPT !.clean = FALSE])
  IN  before \o SubSeq(lines, x + 1, Len(lines))

WithFire(reports, n, on_fire) ==
  [q \in DOMAIN reports |->
     IF reports[q].id = n THEN [reports[q] EXCEPT !.on_fire = on_fire] ELSE reports[q]]

\* Line x of the list, if there still is one: a node that is known burns, or
\* is cleaned.  What the window is to show of a cleaned node is fire, too, until
\* the next check (setOnFire(true), SensorNetworkGUI.java:140).
ProcessFire ==
  /\ gui.pc = "loop"
  /\ IF gui.x > Len(fireData)
     THEN /\ gui' = [gui EXCEPT !.pc = "done"]
          /\ UNCHANGED <<data, fireData>>
     ELSE LET line  == fireData[gui.x]
              known == \E q \in DOMAIN gui.nodeVector : gui.nodeVector[q].id = line.id
              nodes == WithFire(gui.nodeVector, line.id, TRUE)
          IN  IF known
              THEN /\ gui' = [gui EXCEPT !.x = @ + 1, !.newData = TRUE,
                                         !.nodeVector = nodes, !.oldNodeVector = nodes]
                   /\ data' = WithFire(data, line.id, ~line.clean)
                   /\ fireData' = IF line.clean THEN CleanFire(fireData, gui.x) ELSE fireData
              ELSE /\ gui' = [gui EXCEPT !.x = @ + 1]
                   /\ UNCHANGED <<data, fireData>>
  /\ UNCHANGED <<unreported, alarms, latest, reader, window, swallowed>>

\* A new SensorNetworkGUI shows its window (updateWindow) and is polled; one that
\* found new data is replaced by another.
Finish ==
  /\ gui.pc = "done"
  /\ \/ /\ gui.constructing
        /\ window' = gui.nodeVector
        /\ gui' = [gui EXCEPT !.constructing = FALSE, !.pc = "nodes", !.newData = FALSE]
     \/ /\ ~gui.constructing
        /\ gui' = IF gui.newData THEN NewGUI ELSE [gui EXCEPT !.pc = "nodes"]
        /\ UNCHANGED window
  /\ UNCHANGED <<unreported, alarms, latest, reader, data, fireData, swallowed>>

CheckNewData == CheckNodes \/ CheckFires \/ ProcessFire \/ Finish

Next ==
  \/ \E n \in Node : ReadReport(n) \/ ReadAlarm(n)
  \/ AddLine
  \/ CheckNodes \/ CheckFires \/ ProcessFire \/ Finish

(* Both threads run: a line in hand is added, and the check goes on forever. *)
Spec == Init /\ [][Next]_vars /\ WF_vars(AddLine) /\ WF_vars(CheckNewData)

-----------------------------------------------------------------------------
\* Every variable has its type, and no line or node is in a list twice.
TypeOK ==
  /\ unreported \subseteq Node
  /\ alarms \in 0..MaxAlarms
  /\ latest \in [Node -> {"nothing", "fire", "no fire"}]
  /\ reader \in [line : FireLine \cup {NoLine}, found : BOOLEAN]
  /\ data \in Seq(Report)
  /\ fireData \in Seq(FireLine) /\ IsInjective(fireData)
  /\ gui \in [constructing : BOOLEAN, pc : {"nodes", "fires", "loop", "done"},
              x : Nat, newData : BOOLEAN, nodeVector : Seq(Report),
              oldNodeVector : Seq(Report), oldFireVector : Seq(FireLine)]
  /\ window \in Seq(Report)
  /\ swallowed \in BOOLEAN

-----------------------------------------------------------------------------
\* The next check will find nothing new.
Settled ==
  /\ reader.line = NoLine /\ ~gui.constructing /\ gui.pc = "nodes"
  /\ gui.oldNodeVector = data /\ gui.oldFireVector = fireData

\* When the lists have settled, the window shows of every node that reported what
\* the sink heard of it last, a report that came late notwithstanding
\* (checkNewData, "Check if there is any new data from the network").
\* The list may be gone through between the look for a line and its addition.
\* Unless a line was swallowed: fire, clean and fire again before the list is
\* gone through leave the node clean, whatever happens between look and addition.
ShowsLatest ==
  Settled /\ ~swallowed =>
    /\ {window[q].id : q \in DOMAIN window} = Node \ unreported
    /\ \A q \in DOMAIN window : window[q].on_fire = (latest[window[q].id] = "fire")

\* The window catches up again and again: whatever a check removes from the list
\* it goes through, the windows do not replace each other forever.
CatchesUp == []<>Settled

=============================================================================
