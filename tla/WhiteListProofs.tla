-------------------------- MODULE WhiteListProofs --------------------------
(***************************************************************************)
(* Proofs about the whitelist, for every set of sensors and of files: type *)
(* correctness, that every step is a step of AllowList or a stutter, that  *)
(* a load makes of the table what its file lists and shortens with every   *)
(* step, and which files cannot end the process.  That the loads go on     *)
(* needs fairness and stays with the model checker.                        *)
(***************************************************************************)
EXTENDS WhiteList, FiniteSetTheorems, TLAPS

Skipped == Sensors \cup {"comment", "blank"}

\* What makes TypeOK inductive: a load begins with an empty csvList, so that
\* csvList has only what has been put into the table as well; and the table is
\* finite, as sensors are added to it one by one.
TypeInv ==
  /\ TypeOK
  /\ pc = "header" => csvList = {}
  /\ IsFiniteSet(table)

----------------------------------------------------------------------------
(* What a file's first line contributes to Rows and Parses.                *)

LEMMA HeadTail ==
  ASSUME NEW ls \in Seq(Lines), ls # <<>>
  PROVE  /\ Len(ls) \in Nat \ {0} /\ Head(ls) = ls[1] /\ Head(ls) \in Lines
         /\ Tail(ls) \in Seq(Lines) /\ Len(Tail(ls)) = Len(ls) - 1
         /\ \A i \in 1..Len(Tail(ls)) : Tail(ls)[i] = ls[i + 1]
OBVIOUS

LEMMA ParsesStep ==
  ASSUME NEW ls \in Seq(Lines), ls # <<>>
  PROVE  Parses(ls) <=> (Head(ls) \in Skipped /\ Parses(Tail(ls)))
<1>1. ASSUME Parses(ls) PROVE Head(ls) \in Skipped /\ Parses(Tail(ls))
  BY <1>1, HeadTail DEF Parses, Skipped
<1>2. ASSUME Head(ls) \in Skipped, Parses(Tail(ls)) PROVE Parses(ls)
  <2> SUFFICES ASSUME NEW i \in 1..Len(ls) PROVE ls[i] \in Skipped
    BY DEF Parses, Skipped
  <2>1. CASE i = 1
    BY <2>1, <1>2, HeadTail
  <2>2. CASE i # 1
    <3>1. i - 1 \in 1..Len(Tail(ls)) /\ Tail(ls)[i - 1] = ls[i]
      BY <2>2, HeadTail
    <3>2. QED
      BY <3>1, <1>2 DEF Parses, Skipped
  <2>3. QED
    BY <2>1, <2>2
<1>3. QED
  BY <1>1, <1>2

LEMMA RowsStep ==
  ASSUME NEW ls \in Seq(Lines), ls # <<>>
  PROVE  Rows(ls) = IF Head(ls) \in Skipped
                    THEN ({Head(ls)} \cap Sensors) \cup Rows(Tail(ls))
                    ELSE {}
<1> DEFINE Upto(q, i) == \A j \in 1..i : q[j] \in Skipped
<1>1. \A q : Rows(q) = {s \in Sensors : \E i \in 1..Len(q) : q[i] = s /\ Upto(q, i)}
  BY DEF Rows, Skipped
<1>2. ASSUME Head(ls) \notin Skipped PROVE Rows(ls) = {}
  <2>1. \A i \in 1..Len(ls) : ~Upto(ls, i)
    BY <1>2, HeadTail
  <2>2. QED
    BY <2>1, <1>1
<1>3. ASSUME Head(ls) \in Skipped
      PROVE  Rows(ls) = ({Head(ls)} \cap Sensors) \cup Rows(Tail(ls))
  <2>1. \A i \in 1..Len(Tail(ls)) : Upto(Tail(ls), i) <=> Upto(ls, i + 1)
    <3> SUFFICES ASSUME NEW i \in 1..Len(Tail(ls))
                 PROVE  Upto(Tail(ls), i) <=> Upto(ls, i + 1)
      OBVIOUS
    <3>1. ASSUME Upto(ls, i + 1) PROVE Upto(Tail(ls), i)
      BY <3>1, HeadTail
    <3>2. ASSUME Upto(Tail(ls), i), NEW j \in 1..(i + 1) PROVE ls[j] \in Skipped
      <4>1. CASE j = 1
        BY <4>1, <1>3, HeadTail
      <4>2. CASE j # 1
        <5>1. j - 1 \in 1..i /\ Tail(ls)[j - 1] = ls[j]
          BY <4>2, HeadTail
        <5>2. QED
          BY <5>1, <3>2
      <4>3. QED
        BY <4>1, <4>2
    <3>3. QED
      BY <3>1, <3>2
  <2>2. ASSUME NEW s \in Rows(ls) PROVE s \in ({Head(ls)} \cap Sensors) \cup Rows(Tail(ls))
    <3>1. PICK i \in 1..Len(ls) : ls[i] = s /\ Upto(ls, i)
      BY <2>2, <1>1
    <3>2. s \in Sensors
      BY <2>2, <1>1
    <3>3. CASE i = 1
      BY <3>1, <3>2, <3>3, HeadTail
    <3>4. CASE i # 1
      <4>1. i - 1 \in 1..Len(Tail(ls)) /\ Tail(ls)[i - 1] = s /\ Upto(Tail(ls), i - 1)
        BY <3>1, <3>4, <2>1, HeadTail
      <4>2. QED
        BY <4>1, <3>2, <1>1
    <3>5. QED
      BY <3>3, <3>4
  <2>3. ASSUME NEW s \in Sensors, s = Head(ls) PROVE s \in Rows(ls)
    <3>1. 1 \in 1..Len(ls) /\ ls[1] = s /\ Upto(ls, 1)
      BY <2>3, <1>3, HeadTail
    <3>2. QED
      BY <3>1, <1>1
  <2>4. ASSUME NEW s \in Rows(Tail(ls)) PROVE s \in Rows(ls)
    <3>1. PICK i \in 1..Len(Tail(ls)) : Tail(ls)[i] = s /\ Upto(Tail(ls), i)
      BY <2>4, <1>1
    <3>2. i + 1 \in 1..Len(ls) /\ ls[i + 1] = s /\ Upto(ls, i + 1)
      BY <3>1, <2>1, HeadTail
    <3>3. s \in Sensors
      BY <2>4, <1>1
    <3>4. QED
      BY <3>2, <3>3, <1>1
  <2>5. QED
    BY <2>2, <2>3, <2>4
<1>4. QED
  BY <1>2, <1>3

LEMMA NoRows == Rows(<<>>) = {} /\ Parses(<<>>)
BY DEF Rows, Parses

\* A part of a file, with a line cut short at its end, is a sequence of lines.
LEMMA PartOfFile ==
  ASSUME NEW q \in Seq(Lines), NEW n \in Nat, n < Len(q), NEW cut \in BOOLEAN
  PROVE  SubSeq(q, 1, n) \o (IF cut THEN <<Cut(q[n + 1])>> ELSE <<>>) \in Seq(Lines)
<1>1. q[n + 1] \in Lines /\ Cut(q[n + 1]) \in Lines
  BY DEF Cut, Lines
<1>2. SubSeq(q, 1, n) \in Seq(Lines)
  OBVIOUS
<1>3. (IF cut THEN <<Cut(q[n + 1])>> ELSE <<>>) \in Seq(Lines)
  BY <1>1
<1>4. QED
  BY <1>2, <1>3

----------------------------------------------------------------------------
(* Type correctness.                                                       *)

LEMMA TypeInvInit == Init => TypeInv
BY FilesAssumption, FS_EmptySet DEF Init, TypeInv, TypeOK

LEMMA TypeInvStep == TypeInv /\ [Next]_vars => TypeInv'
<1> SUFFICES ASSUME TypeInv, [Next]_vars PROVE TypeInv'
  OBVIOUS
<1> USE DEF TypeInv, TypeOK
<1>1. CASE Open
  BY <1>1 DEF Open, fileVars, mainVars
<1>2. CASE OpenFails
  BY <1>2 DEF OpenFails, Return, fileVars, mainVars
<1>3. CASE ReadHeader
  <2>1. CASE lines = <<>>
    BY <1>3, <2>1 DEF ReadHeader, fileVars, mainVars
  <2>2. CASE lines # <<>>
    <3>1. Tail(lines) \in Seq(Lines)
      BY <2>2, HeadTail
    <3>2. lines' \in Seq(Lines) /\ csvList' = csvList /\ pc' \in {"header", "rows", "sleep"}
      <4>1. CASE Head(lines) \in {"comment", "version", "blank"}
        BY <1>3, <2>2, <3>1, <4>1 DEF ReadHeader
      <4>2. CASE Head(lines) \notin {"comment", "version", "blank"}
        <5>1. lines' = <<>> /\ csvList' = csvList /\ pc' = "sleep"
          BY <1>3, <2>2, <4>2 DEF ReadHeader, Return
        <5>2. QED
          BY <5>1
      <4>3. QED
        BY <4>1, <4>2
    <3>3. process' \in {"running", "terminated"} /\ UNCHANGED <<file, target, table, enableRefresh, main>>
      BY <1>3, <2>2 DEF ReadHeader, Return, fileVars, mainVars
    <3>4. csvList = {} /\ UNCHANGED csvList
      BY <1>3, <3>2 DEF ReadHeader
    <3>5. QED
      BY <3>2, <3>3, <3>4
  <2>3. QED
    BY <2>1, <2>2
<1>4. CASE ReadRow
  <2>1. lines # <<>> /\ Head(lines) \in Lines /\ Tail(lines) \in Seq(Lines)
    BY <1>4, HeadTail DEF ReadRow
  <2>2. CASE Head(lines) \in Sensors
    <3>1. IsFiniteSet(table \cup {Head(lines)})
      BY FS_AddElement
    <3>2. QED
      BY <1>4, <2>1, <2>2, <3>1 DEF ReadRow, fileVars, mainVars
  <2>3. CASE Head(lines) \notin Sensors
    <3>1. /\ lines' \in Seq(Lines) /\ csvList' = csvList /\ pc' \in {"rows", "sleep"}
          /\ UNCHANGED <<process, file, target, table, enableRefresh, main>>
      <4>1. CASE Head(lines) \in {"comment", "blank"}
        BY <1>4, <2>1, <2>3, <4>1 DEF ReadRow, fileVars, mainVars
      <4>2. CASE Head(lines) \notin {"comment", "blank"}
        <5>1. lines' = <<>>
          BY <1>4, <2>3, <4>2 DEF ReadRow, Return
        <5>2. QED
          BY <1>4, <2>3, <4>2, <5>1 DEF ReadRow, Return, fileVars, mainVars
      <4>3. QED
        BY <4>1, <4>2
    <3>2. csvList \subseteq table
      BY <1>4 DEF ReadRow
    <3>3. QED
      BY <3>1, <3>2
  <2>4. QED
    BY <2>2, <2>3
<1>5. CASE EndOfFile
  BY <1>5 DEF EndOfFile, fileVars, mainVars
<1>6. ASSUME NEW s \in Sensors, RemoveMissing(s) PROVE TypeInv'
  <2>1. IsFiniteSet(table \ {s})
    BY FS_RemoveElement
  <2>2. QED
    BY <1>6, <2>1 DEF RemoveMissing, fileVars, readVars, mainVars
<1>7. CASE SizesEqual
  BY <1>7 DEF SizesEqual, Return, fileVars, mainVars
<1>8. CASE WakeUp
  BY <1>8 DEF WakeUp, fileVars, mainVars
<1>9. ASSUME NEW f \in Files, BeginWrite(f) PROVE TypeInv'
  BY <1>9, FilesAssumption DEF BeginWrite, readVars, mainVars
<1>10. ASSUME NEW n \in 0..Len(target), NEW cut \in BOOLEAN, WritePart(n, cut) PROVE TypeInv'
  <2>1. file' \in Seq(Lines)
    BY <1>10, PartOfFile DEF WritePart
  <2>2. QED
    BY <1>10, <2>1 DEF WritePart, readVars, mainVars
<1>11. CASE EndWrite
  BY <1>11 DEF EndWrite, readVars, mainVars
<1>12. CASE StopRefresh
  BY <1>12 DEF StopRefresh, fileVars, readVars
<1>13. CASE RefreshStopped
  BY <1>13 DEF RefreshStopped, fileVars, readVars
<1>14. CASE UNCHANGED vars
  BY <1>14 DEF vars, fileVars, readVars, mainVars
<1>15. QED
  BY <1>1, <1>2, <1>3, <1>4, <1>5, <1>6, <1>7, <1>8, <1>9, <1>10, <1>11, <1>12, <1>13, <1>14
     DEF Next, RefreshStep, Writer

LEMMA TypeInvCorrect == Spec => []TypeInv
BY TypeInvInit, TypeInvStep, PTL DEF Spec

\* Every variable has its type; while a file is loaded, the table holds every
\* sensor that readWhiteListCsv has put into csvList.
THEOREM TypeCorrect == Spec => []TypeOK
<1>1. TypeInv => TypeOK
  BY DEF TypeInv
<1>2. QED
  BY <1>1, TypeInvCorrect, PTL

----------------------------------------------------------------------------
(* Refinement.                                                             *)

\* What is set up or dropped, and what a step of the environment leaves alone.
LEMMA GoalUnchanged ==
  UNCHANGED <<table, pc, lines, csvList>> => UNCHANGED <<table, Goal>>
BY DEF Goal

\* The end of the version loop is a Load: until then the goal is the table.
LEMMA LoadStep == TypeOK /\ TypeOK' /\ ReadHeader => [AL!Next]_AL!vars
<1> SUFFICES ASSUME TypeOK, TypeOK', ReadHeader PROVE [AL!Next]_AL!vars
  OBVIOUS
<1>1. Goal = table /\ table' = table
  BY DEF ReadHeader, Goal
<1>2. Goal' \in SUBSET Sensors
  BY DEF TypeOK, Goal, Rows
<1>3. AL!Load(Goal')
  BY <1>1 DEF AL!Load
<1>4. QED
  BY <1>2, <1>3 DEF AL!Next

\* A row allows one sensor of the goal, or none; the goal stays as it is.
LEMMA AllowStep == TypeOK /\ ReadRow => [AL!Next]_AL!vars
<1> SUFFICES ASSUME TypeOK, ReadRow PROVE [AL!Next]_AL!vars
  OBVIOUS
<1>1. lines \in Seq(Lines) /\ lines # <<>> /\ pc = "rows"
  BY DEF TypeOK, ReadRow
<1>2. Parses(lines) <=> (Head(lines) \in Skipped /\ Parses(Tail(lines)))
  BY <1>1, ParsesStep
<1>3. Rows(lines) = IF Head(lines) \in Skipped
                    THEN ({Head(lines)} \cap Sensors) \cup Rows(Tail(lines)) ELSE {}
  BY <1>1, RowsStep
<1>4. CASE Head(lines) \in Sensors
  <2>1. /\ csvList' = csvList \cup {Head(lines)} /\ table' = table \cup {Head(lines)}
        /\ lines' = Tail(lines) /\ pc' = pc
    BY <1>4 DEF ReadRow
  <2>2. Goal' = IF Parses(Tail(lines)) THEN csvList' \cup Rows(Tail(lines))
                                       ELSE table' \cup Rows(Tail(lines))
    BY <1>1, <2>1 DEF Goal
  <2>3. Goal' = Goal /\ Head(lines) \in Goal
    BY <1>1, <1>2, <1>3, <1>4, <2>1, <2>2 DEF Goal, Skipped
  <2>4. CASE Head(lines) \in table
    BY <2>1, <2>3, <2>4 DEF AL!vars
  <2>5. CASE Head(lines) \notin table
    <3>1. AL!Allow(Head(lines))
      BY <2>1, <2>3, <2>5 DEF AL!Allow
    <3>2. QED
      BY <1>4, <3>1 DEF AL!Next, AL!Change
  <2>6. QED
    BY <2>4, <2>5
<1>5. CASE Head(lines) \in {"comment", "blank"}
  <2>1. csvList' = csvList /\ table' = table /\ lines' = Tail(lines) /\ pc' = pc
    BY <1>5, SensorsAssumption DEF ReadRow
  <2>2. Goal' = IF Parses(Tail(lines)) THEN csvList \cup Rows(Tail(lines))
                                       ELSE table \cup Rows(Tail(lines))
    BY <1>1, <2>1 DEF Goal
  <2>3. {Head(lines)} \cap Sensors = {}
    BY <1>5, SensorsAssumption
  <2>4. Goal' = Goal
    BY <1>1, <1>2, <1>3, <1>5, <2>2, <2>3 DEF Goal, Skipped
  <2>5. QED
    BY <2>1, <2>4 DEF AL!vars
<1>6. CASE Head(lines) \notin Skipped
  <2>1. table' = table /\ pc' = "sleep"
    BY <1>6 DEF ReadRow, Return, Skipped
  <2>2. Goal = table /\ Goal' = table
    BY <1>1, <1>2, <1>3, <1>6, <2>1 DEF Goal
  <2>3. QED
    BY <2>1, <2>2 DEF AL!vars
<1>7. QED
  BY <1>4, <1>5, <1>6 DEF Skipped

\* The removal forbids what the file lacks; it stops when the sizes agree,
\* which by then means that the sets do.
LEMMA SameSize ==
  ASSUME TypeInv, pc = "remove", Cardinality(csvList) = Cardinality(table)
  PROVE  csvList = table
<1>1. csvList \subseteq table /\ IsFiniteSet(table)
  BY DEF TypeInv, TypeOK
<1>2. QED
  BY <1>1, FS_Subset

LEMMA RefineStep == TypeInv /\ TypeInv' /\ [Next]_vars => [AL!Next]_AL!vars
<1> SUFFICES ASSUME TypeInv, TypeInv', [Next]_vars PROVE [AL!Next]_AL!vars
  OBVIOUS
<1>1. CASE Open
  BY <1>1 DEF Open, Goal, AL!vars
<1>2. CASE OpenFails
  BY <1>2 DEF OpenFails, Return, Goal, AL!vars
<1>3. CASE ReadHeader
  BY <1>3, LoadStep DEF TypeInv
<1>4. CASE ReadRow
  BY <1>4, AllowStep DEF TypeInv
<1>5. CASE EndOfFile
  <2>1. Goal = csvList
    BY <1>5, NoRows DEF EndOfFile, Goal
  <2>2. Goal' = csvList /\ table' = table
    BY <1>5 DEF EndOfFile, Goal
  <2>3. QED
    BY <2>1, <2>2 DEF AL!vars
<1>6. ASSUME NEW s \in Sensors, RemoveMissing(s) PROVE [AL!Next]_AL!vars
  <2>1. Goal = csvList /\ Goal' = csvList /\ csvList \subseteq table
    BY <1>6 DEF RemoveMissing, readVars, Goal, TypeInv, TypeOK
  <2>2. AL!Forbid(s)
    BY <1>6, <2>1 DEF RemoveMissing, AL!Forbid
  <2>3. QED
    BY <2>2 DEF AL!Next, AL!Change
<1>7. CASE SizesEqual
  <2>1. csvList = table
    BY <1>7, SameSize DEF SizesEqual
  <2>2. Goal = table /\ Goal' = table /\ table' = table
    BY <1>7, <2>1 DEF SizesEqual, Return, Goal
  <2>3. QED
    BY <2>2 DEF AL!vars
<1>8. CASE WakeUp
  BY <1>8 DEF WakeUp, Goal, AL!vars
<1>9. CASE Writer \/ StopRefresh \/ RefreshStopped \/ UNCHANGED vars
  <2>1. UNCHANGED <<table, pc, lines, csvList>>
    BY <1>9 DEF Writer, BeginWrite, WritePart, EndWrite, StopRefresh, RefreshStopped, vars, readVars
  <2>2. QED
    BY <2>1, GoalUnchanged DEF AL!vars
<1>10. QED
  BY <1>1, <1>2, <1>3, <1>4, <1>5, <1>6, <1>7, <1>8, <1>9 DEF Next, RefreshStep

\* The whitelist implements the safety of AllowList: for what sensorIsEnabled
\* answers, a load is one by one, additions first, whatever state of an
\* unfinished edit readWhiteListCsv finds.
THEOREM RefinesAllowList == Spec => AL!SafeSpec
<1>1. Init => AL!Init
  BY DEF Init, Goal, AL!Init
<1>2. QED
  BY <1>1, RefineStep, TypeInvCorrect, PTL DEF Spec, AL!SafeSpec

----------------------------------------------------------------------------
(* The version loop never throws, if the operator leaves no blank line there. *)

\* The first line that is not a comment is not blank.
SafeHeader(ls) ==
  \A i \in 1..Len(ls) : (\A j \in 1..i - 1 : ls[j] = "comment") => ls[i] # "blank"

\* What the thread reads, or has read and not parsed yet, has a safe header.
HeaderInv ==
  /\ process = "running"
  /\ SafeHeader(file) /\ SafeHeader(target)
  /\ pc = "header" => SafeHeader(lines)

\* A part of a file keeps the file's header, also when a line of it is cut.
LEMMA SafePart ==
  ASSUME NEW q \in Seq(Lines), SafeHeader(q), NEW n \in Nat, n < Len(q), NEW cut \in BOOLEAN
  PROVE  SafeHeader(SubSeq(q, 1, n) \o (IF cut THEN <<Cut(q[n + 1])>> ELSE <<>>))
<1> DEFINE part == SubSeq(q, 1, n) \o (IF cut THEN <<Cut(q[n + 1])>> ELSE <<>>)
<1>1. \A l \in Lines : (Cut(l) = "comment" <=> l = "comment") /\ (Cut(l) = "blank" => l = "blank")
  BY SensorsAssumption DEF Cut, Lines
<1>2. /\ Len(part) \in {n, n + 1}
      /\ \A i \in 1..n : part[i] = q[i]
      /\ Len(part) = n + 1 => part[n + 1] = Cut(q[n + 1])
  <2>1. CASE cut
    BY <2>1
  <2>2. CASE ~cut
    BY <2>2
  <2>3. QED
    BY <2>1, <2>2
<1>3. \A i \in 1..Len(part) : /\ i \in 1..Len(q) /\ q[i] \in Lines
                              /\ part[i] = q[i] \/ part[i] = Cut(q[i])
  BY <1>2
<1> HIDE DEF part
<1>4. SUFFICES ASSUME NEW i \in 1..Len(part), \A j \in 1..i - 1 : part[j] = "comment"
               PROVE  part[i] # "blank"
  BY DEF SafeHeader, part
<1>5. i \in 1..Len(q) /\ \A j \in 1..i - 1 : q[j] = "comment"
  BY <1>1, <1>2, <1>3, <1>4
<1>6. q[i] # "blank"
  BY <1>5 DEF SafeHeader
<1>7. QED
  BY <1>1, <1>3, <1>6

\* A comment in front of a header makes no difference.
LEMMA SafeTail ==
  ASSUME NEW ls \in Seq(Lines), ls # <<>>, SafeHeader(ls)
  PROVE  /\ Head(ls) # "blank"
         /\ Head(ls) = "comment" => SafeHeader(Tail(ls))
<1>1. ls[1] # "blank"
  BY HeadTail DEF SafeHeader
<1>2. ASSUME Head(ls) = "comment", NEW i \in 1..Len(Tail(ls)),
             \A j \in 1..i - 1 : Tail(ls)[j] = "comment"
      PROVE  Tail(ls)[i] # "blank"
  <2>1. i + 1 \in 1..Len(ls) /\ Tail(ls)[i] = ls[i + 1]
    BY HeadTail
  <2>2. ASSUME NEW j \in 1..i PROVE ls[j] = "comment"
    <3>1. CASE j = 1
      BY <1>2, <3>1, HeadTail
    <3>2. CASE j # 1
      <4>1. j - 1 \in 1..i - 1 /\ j - 1 \in 1..Len(Tail(ls)) /\ Tail(ls)[j - 1] = ls[j]
        BY <2>1, <3>2, HeadTail
      <4>2. QED
        BY <1>2, <4>1
    <3>3. QED
      BY <3>1, <3>2
  <2>3. QED
    BY <2>1, <2>2 DEF SafeHeader
<1>3. QED
  BY <1>1, <1>2, HeadTail DEF SafeHeader

\* If every file has a safe header, so has every part of one that is read.
LEMMA HeaderStep ==
  ASSUME \A f \in Files : SafeHeader(f)
  PROVE  TypeInv /\ HeaderInv /\ [Next]_vars => HeaderInv'
<1> SUFFICES ASSUME TypeInv, HeaderInv, [Next]_vars PROVE HeaderInv'
  OBVIOUS
<1> USE DEF HeaderInv
<1>1. lines \in Seq(Lines) /\ target \in Seq(Lines)
  BY DEF TypeInv, TypeOK
<1>2. CASE ReadHeader
  <2>1. UNCHANGED <<file, target>>
    BY <1>2 DEF ReadHeader, fileVars
  <2>2. CASE lines = <<>>
    BY <1>2, <2>1, <2>2 DEF ReadHeader
  <2>3. CASE lines # <<>>
    <3>1. Head(lines) # "blank" /\ (Head(lines) = "comment" => SafeHeader(Tail(lines)))
      BY <1>1, <1>2, <2>3, SafeTail DEF ReadHeader
    <3>2. QED
      BY <1>2, <2>1, <2>3, <3>1 DEF ReadHeader, Return
  <2>4. QED
    BY <2>2, <2>3
<1>3. ASSUME NEW f \in Files, BeginWrite(f) PROVE HeaderInv'
  BY <1>3 DEF BeginWrite, readVars, SafeHeader
<1>4. ASSUME NEW n \in 0..Len(target), NEW cut \in BOOLEAN, WritePart(n, cut) PROVE HeaderInv'
  <2>1. SafeHeader(file')
    BY <1>1, <1>4, SafePart DEF WritePart
  <2>2. QED
    BY <1>4, <2>1 DEF WritePart, readVars
<1>5. CASE EndWrite
  BY <1>5 DEF EndWrite, readVars
<1>6. CASE Open \/ OpenFails \/ ReadRow \/ EndOfFile \/ (\E s \in Sensors : RemoveMissing(s)) \/
           SizesEqual \/ WakeUp \/ StopRefresh \/ RefreshStopped
  BY <1>6 DEF Open, OpenFails, ReadRow, EndOfFile, RemoveMissing, SizesEqual, WakeUp, StopRefresh,
     RefreshStopped, Return, fileVars, readVars
<1>7. CASE UNCHANGED vars
  BY <1>7 DEF vars, fileVars, readVars
<1>8. QED
  BY <1>2, <1>3, <1>4, <1>5, <1>6, <1>7 DEF Next, RefreshStep, Writer

\* line.at(0) is the only way the refresh thread ends the process: files whose
\* first line that is no comment is not blank never do, however they are edited
\* and wherever the thread meets the edit.
THEOREM SafeFilesNeverAbort ==
  ASSUME \A f \in Files : SafeHeader(f) PROVE Spec => []Running
<1>1. Init => HeaderInv
  BY \A f \in Files : SafeHeader(f) DEF Init, HeaderInv
<1>2. TypeInv /\ HeaderInv /\ [Next]_vars => HeaderInv'
  BY \A f \in Files : SafeHeader(f), HeaderStep
<1>3. HeaderInv => Running
  BY DEF HeaderInv, Running
<1>4. QED
  BY <1>1, <1>2, <1>3, TypeInvCorrect, PTL DEF Spec

----------------------------------------------------------------------------
(* A load ends, in what the file lists.                                    *)

WellFormed(f) == f # <<>> /\ Head(f) = "version" /\ Parses(Tail(f))

\* The thread is in the middle of a load of the well-formed f.
Loading(f) ==
  \/ pc = "header" /\ lines = f /\ csvList = {}
  \/ pc = "rows" /\ Parses(lines) /\ csvList \cup Rows(lines) = Rows(Tail(f))
  \/ pc = "remove" /\ csvList = Rows(Tail(f))

\* A load that opens a well-formed file makes the table exactly what the file
\* listed then, whatever the operator does to the file meanwhile.
LoadIsFaithful ==
  [][\A f \in Files : WellFormed(f) =>
       /\ Open /\ file = f => Loading(f)'
       /\ Loading(f) => Loading(f)' \/ (pc' = "sleep" /\ table' = Rows(Tail(f)))]_vars

\* The table is what f lists, and so is what a load in progress makes of it.
Agrees(f) ==
  table = Rows(Tail(f)) /\ (pc \in {"header", "rows", "remove"} => Loading(f))

\* A table that agrees with a well-formed file is not touched by the loads that
\* follow while the file stays: no sensor is ever forbidden for a moment.
AgreementIsKept ==
  [][\A f \in Files : WellFormed(f) /\ Agrees(f) /\ file = f => Agrees(f)']_vars

\* How far a load has come: its stages, and in each what it has left.
Stage(p) == IF p = "header" THEN 3 ELSE IF p = "rows" THEN 2 ELSE IF p = "remove" THEN 1 ELSE 0
Left == IF pc = "remove" THEN Cardinality(table) ELSE Len(lines)

\* No step of a load is in vain, and it can always take one: the loop that
\* compares the sizes finds something to remove until they are equal.
LoadIsFinite ==
  [][RefreshStep /\ pc \in {"header", "rows", "remove"} =>
       \/ Stage(pc') < Stage(pc)
       \/ pc' = pc /\ Left' < Left
       \/ process' = "terminated"]_vars

RemovalGoesOn ==
  pc = "remove" => Cardinality(csvList) = Cardinality(table) \/ table \ csvList # {}

\* One step of a load of f.
LEMMA LoadingStep ==
  ASSUME TypeInv, [Next]_vars, NEW f \in Seq(Lines), WellFormed(f), Loading(f)
  PROVE  Loading(f)' \/ (pc' = "sleep" /\ table' = Rows(Tail(f)))
<1>1. CASE ReadHeader
  <2>1. pc = "header" /\ lines = f /\ csvList = {} /\ f # <<>> /\ Head(f) = "version" /\ Parses(Tail(f))
    BY <1>1 DEF ReadHeader, Loading, WellFormed
  <2>2. pc' = "rows" /\ lines' = Tail(f) /\ csvList' = {}
    BY <1>1, <2>1 DEF ReadHeader
  <2>3. QED
    BY <2>1, <2>2 DEF Loading
<1>2. CASE ReadRow
  <2>1. /\ lines \in Seq(Lines) /\ lines # <<>> /\ pc = "rows"
        /\ Parses(lines) /\ csvList \cup Rows(lines) = Rows(Tail(f))
    BY <1>2 DEF ReadRow, Loading, TypeInv, TypeOK
  <2>2. /\ Head(lines) \in Skipped /\ Parses(Tail(lines))
        /\ Rows(lines) = ({Head(lines)} \cap Sensors) \cup Rows(Tail(lines))
    BY <2>1, ParsesStep, RowsStep
  <2>3. pc' = "rows" /\ lines' = Tail(lines) /\ csvList' = csvList \cup ({Head(lines)} \cap Sensors)
    BY <1>2, <2>1, <2>2, SensorsAssumption DEF ReadRow, Skipped
  <2>4. QED
    BY <2>1, <2>2, <2>3 DEF Loading
<1>3. CASE EndOfFile
  BY <1>3, NoRows DEF EndOfFile, Loading
<1>4. CASE SizesEqual
  BY <1>4, SameSize DEF SizesEqual, Return, Loading
<1>5. ASSUME NEW s \in Sensors, RemoveMissing(s) PROVE Loading(f)'
  BY <1>5 DEF RemoveMissing, readVars, Loading
<1>6. CASE Open \/ OpenFails \/ WakeUp
  BY <1>6 DEF Open, OpenFails, WakeUp, Loading
<1>7. CASE Writer \/ StopRefresh \/ RefreshStopped \/ UNCHANGED vars
  <2>1. UNCHANGED <<pc, lines, csvList>>
    BY <1>7 DEF Writer, BeginWrite, WritePart, EndWrite, StopRefresh, RefreshStopped, vars, readVars
  <2>2. QED
    BY <2>1 DEF Loading
<1>8. QED
  BY <1>1, <1>2, <1>3, <1>4, <1>5, <1>6, <1>7 DEF Next, RefreshStep

\* The first half of FollowsFile without its fairness: where a load arrives.
THEOREM LoadsAreFaithful == Spec => LoadIsFaithful
<1>1. ASSUME NEW f \in Files, WellFormed(f), Open, file = f PROVE Loading(f)'
  BY <1>1 DEF Open, Loading
<1>2. TypeInv /\ [Next]_vars =>
        [\A f \in Files : WellFormed(f) =>
           /\ Open /\ file = f => Loading(f)'
           /\ Loading(f) => Loading(f)' \/ (pc' = "sleep" /\ table' = Rows(Tail(f)))]_vars
  BY <1>1, LoadingStep, FilesAssumption
<1>3. QED
  BY <1>2, TypeInvCorrect, PTL DEF Spec, LoadIsFaithful

\* The second half: where it has arrived it stays.
THEOREM AgreementStays == Spec => AgreementIsKept
<1>1. ASSUME TypeInv, [Next]_vars, NEW f \in Files, WellFormed(f), Agrees(f), file = f
      PROVE  Agrees(f)'
  <2>0. f \in Seq(Lines)
    BY FilesAssumption
  <2>1. CASE Open
    BY <1>1, <2>1 DEF Open, Agrees, Loading
  <2>2. CASE ReadRow
    <3>1. lines \in Seq(Lines) /\ lines # <<>> /\ pc = "rows" /\ Rows(lines) \subseteq table /\ Loading(f)
      BY <1>1, <2>2 DEF ReadRow, Agrees, Loading, TypeInv, TypeOK
    <3>2. Head(lines) \in Sensors => Head(lines) \in table
      BY <3>1, RowsStep DEF Skipped
    <3>3. table' = table
      BY <2>2, <3>2 DEF ReadRow
    <3>4. pc' \in {"rows", "sleep"}
      BY <2>2 DEF ReadRow, Return
    <3>5. QED
      BY <1>1, <2>0, <3>1, <3>3, <3>4, LoadingStep DEF Agrees
  <2>3. ASSUME NEW s \in Sensors, RemoveMissing(s) PROVE FALSE
    BY <1>1, <2>3 DEF RemoveMissing, Agrees, Loading
  <2>4. CASE ReadHeader \/ EndOfFile \/ SizesEqual
    <3>1. pc \in {"header", "rows", "remove"} /\ table' = table
      BY <2>4 DEF ReadHeader, EndOfFile, SizesEqual
    <3>2. Loading(f)' \/ pc' = "sleep"
      BY <1>1, <2>0, <3>1, LoadingStep DEF Agrees
    <3>3. QED
      BY <1>1, <3>1, <3>2 DEF Agrees
  <2>5. CASE OpenFails \/ WakeUp
    BY <1>1, <2>5 DEF OpenFails, WakeUp, Return, Agrees
  <2>6. CASE Writer \/ StopRefresh \/ RefreshStopped \/ UNCHANGED vars
    <3>1. UNCHANGED <<table, pc, lines, csvList>>
      BY <2>6 DEF Writer, BeginWrite, WritePart, EndWrite, StopRefresh, RefreshStopped, vars, readVars
    <3>2. QED
      BY <1>1, <3>1 DEF Agrees, Loading
  <2>7. QED
    BY <1>1, <2>1, <2>2, <2>3, <2>4, <2>5, <2>6 DEF Next, RefreshStep
<1>2. TypeInv /\ [Next]_vars =>
        [\A f \in Files : WellFormed(f) /\ Agrees(f) /\ file = f => Agrees(f)']_vars
  BY <1>1
<1>3. QED
  BY <1>2, TypeInvCorrect, PTL DEF Spec, AgreementIsKept

\* A load that has begun comes to its end in finitely many steps, which bounds
\* how long stopPeriodicRefresh waits for it.
THEOREM LoadsAreFinite == Spec => LoadIsFinite /\ []RemovalGoesOn
<1>1. ASSUME TypeInv, pc \in {"header", "rows", "remove"}, RefreshStep
      PROVE  Stage(pc') < Stage(pc) \/ (pc' = pc /\ Left' < Left) \/ process' = "terminated"
  <2> DEFINE Goal1 == Stage(pc') < Stage(pc) \/ (pc' = pc /\ Left' < Left) \/ process' = "terminated"
  <2>1. CASE lines # <<>> /\ lines' = Tail(lines) /\ pc' = pc /\ pc \in {"header", "rows"}
    <3>1. Len(Tail(lines)) < Len(lines)
      BY <1>1, <2>1, HeadTail DEF TypeInv, TypeOK
    <3>2. QED
      BY <2>1, <3>1 DEF Left
  <2>2. CASE ReadHeader
    BY <2>1, <2>2 DEF ReadHeader, Return, Stage, Running
  <2>3. CASE ReadRow
    BY <2>1, <2>3 DEF ReadRow, Return, Stage
  <2>4. CASE EndOfFile \/ SizesEqual
    BY <2>4 DEF EndOfFile, SizesEqual, Return, Stage
  <2>5. ASSUME NEW s \in Sensors, RemoveMissing(s) PROVE Goal1
    <3>1. /\ pc = "remove" /\ pc' = pc /\ s \in table /\ table' = table \ {s}
      BY <2>5 DEF RemoveMissing, readVars
    <3>2. Cardinality(table') = Cardinality(table) - 1 /\ Cardinality(table) \in Nat
      BY <1>1, <3>1, FS_RemoveElement, FS_CardinalityType DEF TypeInv
    <3>3. QED
      BY <3>1, <3>2 DEF Left
  <2>6. CASE Open \/ OpenFails \/ WakeUp
    BY <1>1, <2>6 DEF Open, OpenFails, WakeUp
  <2>7. QED
    BY <1>1, <2>2, <2>3, <2>4, <2>5, <2>6 DEF RefreshStep
<1>2. TypeInv => RemovalGoesOn
  BY DEF TypeInv, TypeOK, RemovalGoesOn
<1>3. TypeInv /\ [Next]_vars =>
        [RefreshStep /\ pc \in {"header", "rows", "remove"} =>
           \/ Stage(pc') < Stage(pc)
           \/ pc' = pc /\ Left' < Left
           \/ process' = "terminated"]_vars
  BY <1>1
<1>4. QED
  BY <1>2, <1>3, TypeInvCorrect, PTL DEF Spec, LoadIsFinite

============================================================================
