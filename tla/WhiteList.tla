----------------------------- MODULE WhiteList -----------------------------
(***************************************************************************)
(* The whitelist of the SensorAdapter (WhiteList.cpp): a table of enabled  *)
(* sensors, the thread that reads config/whitelist.csv into it every five  *)
(* seconds, the operator who edits the file meanwhile, and the main        *)
(* thread's stopPeriodicRefresh.                                           *)
(*                                                                         *)
(* A line of the file is the sensor it lists, or one of                    *)
(*   "comment"  it begins with #             "version"  version=0.0.2      *)
(*   "blank"    it is empty                  "wrong"    another version    *)
(*   "bad"      it has fewer than two commas, or an empty second field     *)
(***************************************************************************)
EXTENDS Naturals, Sequences, FiniteSets

CONSTANTS
  Sensors,  \* base names
  Files     \* the contents the operator may give the file

Lines == Sensors \cup {"comment", "blank", "version", "wrong", "bad"}

ASSUME FilesAssumption == Files \subseteq Seq(Lines)
ASSUME SensorsAssumption == {"comment", "blank", "version", "wrong", "bad"} \cap Sensors = {}

VARIABLES
  process,       \* "running", or "terminated" by an uncaught exception
  file,          \* the content of whitelist.csv
  target,        \* the content the operator is writing
  table,         \* whiteListTable
  pc,            \* where the refresh thread is
  lines,         \* what it has read of the file and not parsed yet
  csvList,       \* the sensors it has found in the file
  enableRefresh,
  main           \* where the main thread is

fileVars == <<file, target>>
readVars == <<pc, lines, csvList>>
mainVars == <<enableRefresh, main>>
vars == <<process, fileVars, table, readVars, mainVars>>

Running == process = "running"

----------------------------------------------------------------------------
Init ==
  /\ process = "running"
  /\ file \in Files
  /\ target = file
  /\ table = {}
  /\ pc = "sleep"  \* enableRefresh is tested before the first read, too
  /\ lines = <<>>
  /\ csvList = {}
  /\ enableRefresh = TRUE
  /\ main = "running"

----------------------------------------------------------------------------
(* The refresh thread: thWhiteListPeriodicRefresh, readWhiteListCsv.       *)

\* The file is opened; it fits the stream's buffer, which is filled once.
Open ==
  /\ Running
  /\ pc = "open"
  /\ lines' = file
  /\ csvList' = {}
  /\ pc' = "header"
  /\ UNCHANGED <<process, fileVars, table, mainVars>>

\* readWhiteListCsv returns: the file cannot be opened, the version is wrong,
\* or a row is bad.  The rows before it stay, and nothing is removed.
Return ==
  /\ pc' = "sleep"
  /\ lines' = <<>>
  /\ UNCHANGED csvList

OpenFails ==
  /\ Running
  /\ pc = "open"
  /\ Return
  /\ UNCHANGED <<process, fileVars, table, mainVars>>

\* The version loop.  A file without a version line ends it as well, a blank
\* line throws (line.at(0)) and a wrong version returns.
ReadHeader ==
  /\ Running
  /\ pc = "header"
  /\ \/ /\ lines = <<>>
        /\ pc' = "rows"
        /\ UNCHANGED <<process, lines, csvList>>
     \/ /\ lines # <<>> /\ Head(lines) \in {"comment", "version"}
        /\ lines' = Tail(lines)
        /\ pc' = IF Head(lines) = "version" THEN "rows" ELSE "header"
        /\ UNCHANGED <<process, csvList>>
     \/ /\ lines # <<>> /\ Head(lines) = "blank"
        /\ process' = "terminated"
        /\ UNCHANGED <<pc, lines, csvList>>
     \/ /\ lines # <<>> /\ Head(lines) \notin {"comment", "version", "blank"}
        /\ Return
        /\ UNCHANGED process
  /\ UNCHANGED <<fileVars, table, mainVars>>

\* Mutant: a sensor that is already in the table is not put into csvList.
ReadRowKnown ==
  /\ Running
  /\ pc = "rows"
  /\ lines # <<>>
  /\ IF Head(lines) \in Sensors
     THEN /\ csvList' = csvList \cup ({Head(lines)} \ table)
          /\ table' = table \cup {Head(lines)}
          /\ lines' = Tail(lines)
          /\ UNCHANGED pc
     ELSE /\ IF Head(lines) \in {"comment", "blank"}
             THEN lines' = Tail(lines) /\ UNCHANGED <<pc, csvList>>
             ELSE Return
          /\ UNCHANGED table
  /\ UNCHANGED <<process, fileVars, mainVars>>

\* Mutant: the row is listed and the table is filled later.
ReadRowLists ==
  /\ Running
  /\ pc = "rows"
  /\ lines # <<>>
  /\ IF Head(lines) \in Sensors
     THEN csvList' = csvList \cup {Head(lines)} /\ lines' = Tail(lines) /\ UNCHANGED pc
     ELSE IF Head(lines) \in {"comment", "blank"}
          THEN lines' = Tail(lines) /\ UNCHANGED <<pc, csvList>>
          ELSE Return
  /\ UNCHANGED <<process, fileVars, table, mainVars>>

\* A row: the sensor is added to csvList, and to the table when it is new; one
\* that is in csvList already is skipped.
ReadRow ==
  /\ Running
  /\ pc = "rows"
  /\ lines # <<>>
  /\ IF Head(lines) \in Sensors
     THEN /\ csvList' = csvList \cup {Head(lines)}
          /\ table' = table \cup {Head(lines)}
          /\ lines' = Tail(lines)
          /\ UNCHANGED pc
     ELSE /\ IF Head(lines) \in {"comment", "blank"}
             THEN lines' = Tail(lines) /\ UNCHANGED <<pc, csvList>>
             ELSE Return
          /\ UNCHANGED table
  /\ UNCHANGED <<process, fileVars, mainVars>>

\* Mutant: nothing is removed at the end of the file.
EndOfFileReturns ==
  /\ Running
  /\ pc = "rows"
  /\ lines = <<>>
  /\ Return
  /\ UNCHANGED <<process, fileVars, table, mainVars>>

EndOfFile ==
  /\ Running
  /\ pc = "rows"
  /\ lines = <<>>
  /\ pc' = "remove"
  /\ UNCHANGED <<process, fileVars, table, lines, csvList, mainVars>>

\* One round of the loop that compares the sizes of csvList and of the table.
RemoveMissing(s) ==
  /\ Running
  /\ pc = "remove"
  /\ Cardinality(csvList) # Cardinality(table)
  /\ s \in table \ csvList
  /\ table' = table \ {s}
  /\ UNCHANGED <<process, fileVars, readVars, mainVars>>

SizesEqual ==
  /\ Running
  /\ pc = "remove"
  /\ Cardinality(csvList) = Cardinality(table)
  /\ Return
  /\ UNCHANGED <<process, fileVars, table, mainVars>>

\* Mutant: the thread goes on reading when it should stop.
WakeUpAgain ==
  /\ Running
  /\ pc = "sleep"
  /\ pc' = "open"
  /\ UNCHANGED <<process, fileVars, table, lines, csvList, mainVars>>

\* sleep(5), then the test of enableRefresh.
WakeUp ==
  /\ Running
  /\ pc = "sleep"
  /\ pc' = IF enableRefresh THEN "open" ELSE "stopped"
  /\ UNCHANGED <<process, fileVars, table, lines, csvList, mainVars>>

RefreshStep ==
  \/ Open \/ OpenFails \/ ReadHeader \/ ReadRow \/ EndOfFile
  \/ (\E s \in Sensors : RemoveMissing(s)) \/ SizesEqual \/ WakeUp

----------------------------------------------------------------------------
(* The operator's editor, which need not replace the file in one step.     *)

\* What the file holds of a line that is written in part.
Cut(l) == IF l \in Sensors THEN "bad" ELSE IF l = "version" THEN "wrong" ELSE l

\* The file is truncated.
BeginWrite(f) ==
  /\ Running
  /\ file = target /\ f # file
  /\ file' = <<>>
  /\ target' = f
  /\ UNCHANGED <<process, table, readVars, mainVars>>

\* n lines of it are there, and perhaps a part of the next one.
WritePart(n, cut) ==
  /\ Running
  /\ file = <<>> /\ n < Len(target)
  /\ file' = SubSeq(target, 1, n) \o (IF cut THEN <<Cut(target[n + 1])>> ELSE <<>>)
  /\ UNCHANGED <<process, target, table, readVars, mainVars>>

EndWrite ==
  /\ Running
  /\ file # target
  /\ file' = target
  /\ UNCHANGED <<process, target, table, readVars, mainVars>>

Writer ==
  \/ \E f \in Files : BeginWrite(f)
  \/ \E n \in 0..Len(target), cut \in BOOLEAN : WritePart(n, cut)
  \/ EndWrite

----------------------------------------------------------------------------
(* The main thread: stopPeriodicRefresh.                                   *)

StopRefresh ==
  /\ Running
  /\ main = "running"
  /\ main' = "joining"
  /\ enableRefresh' = FALSE
  /\ UNCHANGED <<process, fileVars, table, readVars>>

RefreshStopped ==
  /\ Running
  /\ main = "joining"
  /\ pc = "stopped"
  /\ main' = "done"
  /\ UNCHANGED <<process, fileVars, table, readVars, enableRefresh>>

----------------------------------------------------------------------------
Next == RefreshStep \/ Writer \/ StopRefresh \/ RefreshStopped

Spec == Init /\ [][Next]_vars

\* The refresh thread is scheduled and its sleep ends; opening an existing
\* file does not fail for ever.
FairSpec == Spec /\ WF_vars(RefreshStep) /\ SF_vars(Open) /\ WF_vars(RefreshStopped)

----------------------------------------------------------------------------
(* Properties.                                                             *)

\* Every variable has its type, and the table holds all that csvList holds:
\* without that the loop that compares their sizes could spin for ever.
TypeOK ==
  /\ process \in {"running", "terminated"}
  /\ file \in Seq(Lines) /\ target \in Seq(Lines)
  /\ table \subseteq Sensors
  /\ pc \in {"open", "header", "rows", "remove", "sleep", "stopped"}
  /\ lines \in Seq(Lines)
  /\ csvList \subseteq Sensors
  /\ pc \in {"rows", "remove"} => csvList \subseteq table
  /\ enableRefresh \in BOOLEAN
  /\ main \in {"running", "joining", "done"}

\* The sensors that rows list before the first bad one.
Rows(ls) ==
  {s \in Sensors : \E i \in 1..Len(ls) :
     ls[i] = s /\ \A j \in 1..i : ls[j] \in Sensors \cup {"comment", "blank"}}

Parses(ls) == \A i \in 1..Len(ls) : ls[i] \in Sensors \cup {"comment", "blank"}

\* The set a load is going to make of the table: what the file lists, or, with
\* a bad row in it, the rows before that and all that was there.
Goal ==
  IF pc = "rows"
  THEN IF Parses(lines) THEN csvList \cup Rows(lines) ELSE table \cup Rows(lines)
  ELSE IF pc = "remove" THEN csvList ELSE table

AL == INSTANCE AllowList WITH allowed <- table, goal <- Goal

\* Readers of the table see an AllowList: what sensorIsEnabled answers changes
\* by one sensor at a time, additions first, towards what the file says, and
\* gets there, whatever state of an unfinished edit the thread reads.
ImplementsAllowList == AL!Spec

\* The table follows the file: once a well-formed file stays as it is, the
\* table becomes what it lists, and stays so.
FollowsFile ==
  \A f \in Files :
    (f # <<>> /\ Head(f) = "version" /\ Parses(Tail(f))) =>
      (<>[](file = f /\ Running /\ main = "running") => <>[](table = Rows(Tail(f))))

\* stopPeriodicRefresh returns, also in the middle of a refresh.
RefreshEnds == (main = "joining") ~> (main = "done" \/ ~Running)

=============================================================================
