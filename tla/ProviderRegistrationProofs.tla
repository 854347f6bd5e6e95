--------------------- MODULE ProviderRegistrationProofs ---------------------
(***************************************************************************)
(* Proofs about ProviderRegistration, for any sensors, threads and routes, *)
(* and whatever requests and answers the network loses.                    *)
(***************************************************************************)
EXTENDS ProviderRegistration, TLAPS

----------------------------------------------------------------------------
(* The inductive invariants.                                               *)

\* Between sensorExists's no and the end of registerSensor.
RegisterPC == {"checkList", "register", "unregister", "reregister", "insert"}
MeasurePC == RegisterPC \cup {"setValue"}

\* A busy thread handles a request about a sensor.
JobState == \A t \in Threads : pc[t] \notin {"idle", "stopped"} => sensor[t] \in Sensors

TypeInv == TypeOK /\ JobState

\* What a thread learnt from sensorExists stays true until shutdown: a sensor
\* that was found is still there.
FoundIsThere ==
  main \in {"running", "stopping"} =>
    \A t \in Threads : pc[t] \in {"setValue", "getKey", "getValue"} => sensor[t] \in table

SafeInv == FoundIsThere /\ SafeUntilShutdown

\* With one thread for each sensor, a sensor that was not found is still
\* missing, its registration is not undone by another thread, and the one
\* measurement in hand is the latest.
RouteState ==
  \A t \in Threads :
    /\ pc[t] \in RegisterPC => sensor[t] \notin table
    /\ pc[t] \in MeasurePC => <<t, sensor[t]>> \in Routes /\ fresh[t]

ListedState ==
  main = "running" =>
    /\ table \subseteq registry
    /\ \A t \in Threads : pc[t] = "insert" => sensor[t] \in registry

LatestState ==
  Running => \A s \in table :
    s \in latest \/ \E t \in Threads : pc[t] = "setValue" /\ sensor[t] = s

----------------------------------------------------------------------------
(* Types.                                                                  *)

\* What an answer to a POST says of the registry.
LEMMA RegisterAnswer ==
  ASSUME NEW s \in Sensors, NEW a \in RegisterAnswers(s)
  PROVE  /\ registry \subseteq a.reg /\ a.reg \subseteq registry \cup {s}
         /\ a.code = "created" => s \in a.reg
BY DEF RegisterAnswers, Lost

\* What an answer to a PUT says of the registry.
LEMMA RemoveAnswer ==
  ASSUME NEW s \in Sensors, NEW a \in RemoveAnswers(s)
  PROVE  a.reg \subseteq registry /\ registry \ {s} \subseteq a.reg
BY DEF RemoveAnswers, Lost

\* Every step keeps the types.
LEMMA TypeInvStep == TypeInv /\ [Next]_vars => TypeInv'
<1> SUFFICES ASSUME TypeInv, [Next]_vars PROVE TypeInv'
  OBVIOUS
<1> USE SensorsAssumption, ThreadsAssumption, RoutesAssumption
       DEF TypeInv, TypeOK, JobState, ThreadPC, MainPC, vars, tableVars,
           registryVars, jobVars, mainVars
<1>1. ASSUME NEW t \in Threads, NEW s \in Sensors, Measurement(t, s) PROVE TypeInv'
  BY <1>1 DEF Measurement
<1>2. ASSUME NEW t \in Threads, SetLastValue(t) PROVE TypeInv'
  BY <1>2 DEF SetLastValue, Finish
<1>3. ASSUME NEW t \in Threads, CheckWhiteList(t) PROVE TypeInv'
  BY <1>3 DEF CheckWhiteList, Finish, Goto
<1>4. ASSUME NEW t \in Threads, Register(t) PROVE TypeInv'
  <2>1. sensor[t] \in Sensors
    BY <1>4 DEF Register
  <2>2. PICK a \in RegisterAnswers(sensor[t]) : registry' = a.reg
    BY <1>4 DEF Register
  <2>3. registry' \subseteq registry \cup {sensor[t]}
    BY <2>1, <2>2, RegisterAnswer
  <2>4. QED
    BY <1>4, <2>1, <2>3 DEF Register, Goto
<1>5. ASSUME NEW t \in Threads, Unregister(t) PROVE TypeInv'
  <2>1. sensor[t] \in Sensors
    BY <1>5 DEF Unregister
  <2>2. PICK a \in RemoveAnswers(sensor[t]) : registry' = a.reg
    BY <1>5 DEF Unregister
  <2>3. registry' \subseteq registry \cup {sensor[t]}
    BY <2>1, <2>2, RemoveAnswer
  <2>4. QED
    BY <1>5, <2>1, <2>3 DEF Unregister, Goto, Finish
<1>6. ASSUME NEW t \in Threads, Reregister(t) PROVE TypeInv'
  <2>1. sensor[t] \in Sensors
    BY <1>6 DEF Reregister
  <2>2. PICK a \in RegisterAnswers(sensor[t]) : registry' = a.reg
    BY <1>6 DEF Reregister
  <2>3. registry' \subseteq registry \cup {sensor[t]}
    BY <2>1, <2>2, RegisterAnswer
  <2>4. QED
    BY <1>6, <2>1, <2>3 DEF Reregister, Goto, Finish
<1>7. ASSUME NEW t \in Threads, Insert(t) PROVE TypeInv'
  BY <1>7 DEF Insert, Finish
<1>8. ASSUME NEW t \in Threads, RaceWithMain(t) PROVE TypeInv'
  BY <1>8 DEF RaceWithMain
<1>9. ASSUME NEW s \in Sensors, Get(s) PROVE TypeInv'
  BY <1>9 DEF Get
<1>10. ASSUME NEW verified \in BOOLEAN, GetKey(verified) PROVE TypeInv'
  BY <1>10 DEF GetKey, Goto, Finish
<1>11. CASE GetValue
  BY <1>11 DEF GetValue, Finish
<1>12. CASE OtherPacket
  BY <1>12 DEF OtherPacket, Finish
<1>13. CASE StopMote
  BY <1>13 DEF StopMote
<1>14. CASE MoteStopped
  BY <1>14 DEF MoteStopped
<1>15. CASE UnregisterCommand
  BY <1>15 DEF UnregisterCommand
<1>16. ASSUME NEW s \in Sensors, Deregister(s) PROVE TypeInv'
  <2>1. PICK a \in RemoveAnswers(s) : registry' = a.reg
    BY <1>16 DEF Deregister
  <2>2. registry' \subseteq registry
    BY <2>1, RemoveAnswer
  <2>3. QED
    BY <1>16, <2>2 DEF Deregister
<1>17. CASE ClearTable
  BY <1>17 DEF ClearTable
<1>18. CASE Destroy
  BY <1>18 DEF Destroy
<1>19. ASSUME NEW e \in SUBSET Sensors, Refresh(e) PROVE TypeInv'
  BY <1>19 DEF Refresh
<1>20. CASE RegistryRecovers
  BY <1>20 DEF RegistryRecovers
<1>21. CASE UNCHANGED vars
  BY <1>21
<1>22. QED
  BY <1>1, <1>2, <1>3, <1>4, <1>5, <1>6, <1>7, <1>8, <1>9, <1>10, <1>11, <1>12,
     <1>13, <1>14, <1>15, <1>16, <1>17, <1>18, <1>19, <1>20, <1>21
     DEF Next, ProviderStep, GetStep, MainStep

\* The initial states have them.
LEMMA TypeInvInit == Init => TypeInv
BY SensorsAssumption DEF Init, TypeInv, TypeOK, JobState, ThreadPC, MainPC

\* So they hold in every state of a run.
LEMMA TypeInvCorrect == Spec => []TypeInv
BY TypeInvInit, TypeInvStep, PTL DEF Spec

\* TypeOK holds for any sensors and threads: in particular no value is ever
\* stored for a sensor that has no entry.
THEOREM TypeCorrect == Spec => []TypeOK
<1>1. TypeInv => TypeOK
  BY DEF TypeInv
<1>2. QED
  BY <1>1, TypeInvCorrect, PTL

----------------------------------------------------------------------------
(* Check-then-act on the table.                                            *)

\* Until shutdown the table only grows, so what sensorExists found is found again.
LEMMA SafeInvStep == TypeInv /\ SafeInv /\ [Next]_vars => SafeInv'
<1> SUFFICES ASSUME TypeInv, SafeInv, [Next]_vars PROVE SafeInv'
  OBVIOUS
<1> USE SensorsAssumption, ThreadsAssumption, RoutesAssumption
       DEF TypeInv, TypeOK, JobState, SafeInv, FoundIsThere, SafeUntilShutdown,
           Running, MainPC, vars, tableVars, registryVars, jobVars, mainVars
<1>1. ASSUME NEW t \in Threads, NEW s \in Sensors, Measurement(t, s) PROVE SafeInv'
  BY <1>1 DEF Measurement
<1>2. ASSUME NEW t \in Threads, SetLastValue(t) PROVE SafeInv'
  BY <1>2 DEF SetLastValue, Finish
<1>3. ASSUME NEW t \in Threads, CheckWhiteList(t) PROVE SafeInv'
  BY <1>3 DEF CheckWhiteList, Finish, Goto
<1>4. ASSUME NEW t \in Threads, Register(t) PROVE SafeInv'
  BY <1>4 DEF Register, RegisterAnswers, Lost, Goto
<1>5. ASSUME NEW t \in Threads, Unregister(t) PROVE SafeInv'
  BY <1>5 DEF Unregister, RemoveAnswers, Lost, Goto, Finish
<1>6. ASSUME NEW t \in Threads, Reregister(t) PROVE SafeInv'
  BY <1>6 DEF Reregister, RegisterAnswers, Lost, Goto, Finish
<1>7. ASSUME NEW t \in Threads, Insert(t) PROVE SafeInv'
  BY <1>7 DEF Insert, Finish
<1>8. ASSUME NEW s \in Sensors, Get(s) PROVE SafeInv'
  BY <1>8 DEF Get
<1>9. ASSUME NEW verified \in BOOLEAN, GetKey(verified) PROVE SafeInv'
  BY <1>9 DEF GetKey, Goto, Finish
<1>10. CASE GetValue
  BY <1>10 DEF GetValue, Finish
<1>11. ASSUME NEW s \in Sensors, Deregister(s) PROVE SafeInv'
  BY <1>11 DEF Deregister, RemoveAnswers, Lost
<1>12. CASE ClearTable
  BY <1>12 DEF ClearTable
<1>13. CASE (\E t \in Threads : RaceWithMain(t)) \/ OtherPacket \/ StopMote \/
           MoteStopped \/ UnregisterCommand \/ Destroy \/
           (\E e \in SUBSET Sensors : Refresh(e)) \/ RegistryRecovers
  BY <1>13 DEF RaceWithMain, OtherPacket, Finish, StopMote, MoteStopped,
      UnregisterCommand, Destroy, Refresh, RegistryRecovers
<1>14. CASE UNCHANGED vars
  BY <1>14
<1>15. QED
  BY <1>1, <1>2, <1>3, <1>4, <1>5, <1>6, <1>7, <1>8, <1>9, <1>10, <1>11, <1>12,
     <1>13, <1>14
     DEF Next, ProviderStep, GetStep, MainStep

\* Whatever the interleaving, the table's unchecked find is safe until the
\* operator ends the program.
THEOREM TableIsSafe == Spec => []SafeUntilShutdown
<1>1. Init => SafeInv
  BY DEF Init, SafeInv, FoundIsThere, SafeUntilShutdown
<1>2. SafeInv => SafeUntilShutdown
  BY DEF SafeInv
<1>3. QED
  BY <1>1, <1>2, SafeInvStep, TypeInvCorrect, PTL DEF Spec

----------------------------------------------------------------------------
(* One thread for each sensor.                                             *)

\* Nobody else puts a sensor into the table while its thread registers it.
LEMMA RouteStep ==
  ASSUME SingleRoute PROVE TypeInv /\ RouteState /\ [Next]_vars => RouteState'
<1> SUFFICES ASSUME TypeInv, RouteState, [Next]_vars PROVE RouteState'
  OBVIOUS
<1> USE SensorsAssumption, ThreadsAssumption, RoutesAssumption
       DEF TypeInv, TypeOK, JobState, RouteState, RegisterPC, MeasurePC,
           SingleRoute, vars, tableVars, registryVars, jobVars, mainVars
<1>1. ASSUME NEW t \in Threads, NEW s \in Sensors, Measurement(t, s) PROVE RouteState'
  BY <1>1 DEF Measurement
<1>2. ASSUME NEW t \in Threads, SetLastValue(t) PROVE RouteState'
  BY <1>2 DEF SetLastValue, Finish
<1>3. ASSUME NEW t \in Threads, CheckWhiteList(t) PROVE RouteState'
  BY <1>3 DEF CheckWhiteList, Finish, Goto
<1>4. ASSUME NEW t \in Threads, Register(t) PROVE RouteState'
  BY <1>4 DEF Register, RegisterAnswers, Lost, Goto
<1>5. ASSUME NEW t \in Threads, Unregister(t) PROVE RouteState'
  BY <1>5 DEF Unregister, RemoveAnswers, Lost, Goto, Finish
<1>6. ASSUME NEW t \in Threads, Reregister(t) PROVE RouteState'
  BY <1>6 DEF Reregister, RegisterAnswers, Lost, Goto, Finish
<1>7. ASSUME NEW t \in Threads, Insert(t) PROVE RouteState'
  BY <1>7 DEF Insert, Finish
<1>8. ASSUME NEW s \in Sensors, Get(s) PROVE RouteState'
  BY <1>8 DEF Get
<1>9. ASSUME NEW verified \in BOOLEAN, GetKey(verified) PROVE RouteState'
  BY <1>9 DEF GetKey, Goto, Finish
<1>10. CASE GetValue
  BY <1>10 DEF GetValue, Finish
<1>11. CASE ClearTable
  BY <1>11 DEF ClearTable
<1>12. CASE (\E t \in Threads : RaceWithMain(t)) \/ OtherPacket \/ StopMote \/
           MoteStopped \/ UnregisterCommand \/
           (\E s \in Sensors : Deregister(s)) \/ Destroy \/
           (\E e \in SUBSET Sensors : Refresh(e)) \/ RegistryRecovers
  BY <1>12 DEF RaceWithMain, OtherPacket, Finish, StopMote, MoteStopped,
      UnregisterCommand, Deregister, RemoveAnswers, Lost, Destroy, Refresh,
      RegistryRecovers
<1>13. CASE UNCHANGED vars
  BY <1>13
<1>14. QED
  BY <1>1, <1>2, <1>3, <1>4, <1>5, <1>6, <1>7, <1>8, <1>9, <1>10, <1>11, <1>12,
     <1>13
     DEF Next, ProviderStep, GetStep, MainStep

\* A sensor is inserted after a 201, and only its own thread removes it from the
\* registry, before the insertion.
LEMMA ListedStep ==
  ASSUME SingleRoute PROVE TypeInv /\ RouteState /\ ListedState /\ [Next]_vars => ListedState'
<1> SUFFICES ASSUME TypeInv, RouteState, ListedState, [Next]_vars PROVE ListedState'
  OBVIOUS
<1> USE SensorsAssumption, ThreadsAssumption, RoutesAssumption
       DEF TypeInv, TypeOK, JobState, RouteState, RegisterPC, MeasurePC,
           SingleRoute, vars, tableVars, registryVars, jobVars, mainVars,
           ListedState
<1>1. ASSUME NEW t \in Threads, NEW s \in Sensors, Measurement(t, s) PROVE ListedState'
  BY <1>1 DEF Measurement
<1>2. ASSUME NEW t \in Threads, SetLastValue(t) PROVE ListedState'
  BY <1>2 DEF SetLastValue, Finish
<1>3. ASSUME NEW t \in Threads, CheckWhiteList(t) PROVE ListedState'
  BY <1>3 DEF CheckWhiteList, Finish, Goto
<1>4. ASSUME NEW t \in Threads, Register(t) PROVE ListedState'
  BY <1>4 DEF Register, RegisterAnswers, Lost, Goto
<1>5. ASSUME NEW t \in Threads, Unregister(t) PROVE ListedState'
  <2>1. sensor[t] \in Sensors /\ sensor[t] \notin table
    BY <1>5 DEF Unregister
  <2>2. \A u \in Threads : u # t /\ pc[u] = "insert" => sensor[u] # sensor[t]
    BY <1>5 DEF Unregister
  <2>3. PICK a \in RemoveAnswers(sensor[t]) : registry' = a.reg
    BY <1>5 DEF Unregister
  <2>4. registry \ {sensor[t]} \subseteq registry'
    BY <2>1, <2>3, RemoveAnswer
  <2>5. \A u \in Threads : pc'[u] = "insert" => u # t /\ pc[u] = "insert"
    BY <1>5 DEF Unregister, Goto, Finish
  <2>6. QED
    BY <1>5, <2>1, <2>2, <2>4, <2>5 DEF Unregister, Goto, Finish
<1>6. ASSUME NEW t \in Threads, Reregister(t) PROVE ListedState'
  BY <1>6 DEF Reregister, RegisterAnswers, Lost, Goto, Finish
<1>7. ASSUME NEW t \in Threads, Insert(t) PROVE ListedState'
  BY <1>7 DEF Insert, Finish
<1>8. ASSUME NEW s \in Sensors, Get(s) PROVE ListedState'
  BY <1>8 DEF Get
<1>9. ASSUME NEW verified \in BOOLEAN, GetKey(verified) PROVE ListedState'
  BY <1>9 DEF GetKey, Goto, Finish
<1>10. CASE GetValue
  BY <1>10 DEF GetValue, Finish
<1>11. ASSUME NEW s \in Sensors, Deregister(s) PROVE ListedState'
  BY <1>11 DEF Deregister, RemoveAnswers, Lost
<1>12. CASE ClearTable
  BY <1>12 DEF ClearTable
<1>13. CASE (\E t \in Threads : RaceWithMain(t)) \/ OtherPacket \/ StopMote \/
           MoteStopped \/ UnregisterCommand \/ Destroy \/
           (\E e \in SUBSET Sensors : Refresh(e)) \/ RegistryRecovers
  BY <1>13 DEF RaceWithMain, OtherPacket, Finish, StopMote, MoteStopped,
      UnregisterCommand, Destroy, Refresh, RegistryRecovers
<1>14. CASE UNCHANGED vars
  BY <1>14
<1>15. QED
  BY <1>1, <1>2, <1>3, <1>4, <1>5, <1>6, <1>7, <1>8, <1>9, <1>10, <1>11, <1>12,
     <1>13, <1>14
     DEF Next, ProviderStep, GetStep, MainStep

\* The one measurement of a sensor in hand is stored last.
LEMMA LatestStep ==
  ASSUME SingleRoute PROVE TypeInv /\ RouteState /\ LatestState /\ [Next]_vars => LatestState'
<1> SUFFICES ASSUME TypeInv, RouteState, LatestState, [Next]_vars PROVE LatestState'
  OBVIOUS
<1> USE SensorsAssumption, ThreadsAssumption, RoutesAssumption
       DEF TypeInv, TypeOK, JobState, RouteState, RegisterPC, MeasurePC,
           SingleRoute, vars, tableVars, registryVars, jobVars, mainVars,
           LatestState, Running
<1>1. ASSUME NEW t \in Threads, NEW s \in Sensors, Measurement(t, s) PROVE LatestState'
  BY <1>1 DEF Measurement
<1>2. ASSUME NEW t \in Threads, SetLastValue(t) PROVE LatestState'
  <2> SUFFICES ASSUME Running', NEW s \in table
               PROVE  s \in latest' \/ \E u \in Threads : pc'[u] = "setValue" /\ sensor'[u] = s
    BY <1>2 DEF SetLastValue
  <2>1. CASE s = sensor[t]
    <3>1. fresh[t]
      BY <1>2 DEF SetLastValue
    <3>2. latest' = IF fresh[t] THEN latest \cup {s} ELSE latest \ {s}
      BY <1>2, <2>1 DEF SetLastValue
    <3>3. QED
      BY <3>1, <3>2
  <2>2. CASE s # sensor[t]
    <3>1. s \in latest => s \in latest'
      BY <1>2, <2>2 DEF SetLastValue
    <3>2. \A u \in Threads : u # t => pc'[u] = pc[u] /\ sensor'[u] = sensor[u]
      BY <1>2 DEF SetLastValue, Finish
    <3>3. QED
      BY <1>2, <2>2, <3>1, <3>2 DEF SetLastValue
  <2>3. QED
    BY <2>1, <2>2
<1>3. ASSUME NEW t \in Threads, CheckWhiteList(t) PROVE LatestState'
  BY <1>3 DEF CheckWhiteList, Finish, Goto
<1>4. ASSUME NEW t \in Threads, Register(t) PROVE LatestState'
  BY <1>4 DEF Register, RegisterAnswers, Lost, Goto
<1>5. ASSUME NEW t \in Threads, Unregister(t) PROVE LatestState'
  BY <1>5 DEF Unregister, RemoveAnswers, Lost, Goto, Finish
<1>6. ASSUME NEW t \in Threads, Reregister(t) PROVE LatestState'
  BY <1>6 DEF Reregister, RegisterAnswers, Lost, Goto, Finish
<1>7. ASSUME NEW t \in Threads, Insert(t) PROVE LatestState'
  BY <1>7 DEF Insert, Finish
<1>8. ASSUME NEW s \in Sensors, Get(s) PROVE LatestState'
  BY <1>8 DEF Get
<1>9. ASSUME NEW verified \in BOOLEAN, GetKey(verified) PROVE LatestState'
  BY <1>9 DEF GetKey, Goto, Finish
<1>10. CASE GetValue
  BY <1>10 DEF GetValue, Finish
<1>11. CASE ClearTable
  BY <1>11 DEF ClearTable
<1>12. CASE (\E t \in Threads : RaceWithMain(t)) \/ OtherPacket \/ StopMote \/
           MoteStopped \/ UnregisterCommand \/
           (\E s \in Sensors : Deregister(s)) \/ Destroy \/
           (\E e \in SUBSET Sensors : Refresh(e)) \/ RegistryRecovers
  BY <1>12 DEF RaceWithMain, OtherPacket, Finish, StopMote, MoteStopped,
      UnregisterCommand, Deregister, RemoveAnswers, Lost, Destroy, Refresh,
      RegistryRecovers
<1>13. CASE UNCHANGED vars
  BY <1>13
<1>14. QED
  BY <1>1, <1>2, <1>3, <1>4, <1>5, <1>6, <1>7, <1>8, <1>9, <1>10, <1>11, <1>12,
     <1>13
     DEF Next, ProviderStep, GetStep, MainStep

\* Both hold in every state of a run.
LEMMA SingleRouteCorrect ==
  ASSUME SingleRoute PROVE Spec => [](TypeInv /\ RouteState /\ ListedState /\ LatestState)
<1>1. Init => RouteState /\ ListedState /\ LatestState
  BY DEF Init, RouteState, ListedState, LatestState, RegisterPC, MeasurePC
<1>2. TypeInv /\ RouteState /\ [Next]_vars => RouteState'
  BY SingleRoute, RouteStep
<1>3. TypeInv /\ RouteState /\ ListedState /\ [Next]_vars => ListedState'
  BY SingleRoute, ListedStep
<1>4. TypeInv /\ RouteState /\ LatestState /\ [Next]_vars => LatestState'
  BY SingleRoute, LatestStep
<1>5. QED
  BY <1>1, <1>2, <1>3, <1>4, TypeInvCorrect, PTL DEF Spec

\* With one thread for each sensor, a sensor of the table is in the registry,
\* whatever requests and answers were lost; the run of two routes shows that
\* the premise is needed.
THEOREM KnownIsRegistered == ASSUME SingleRoute PROVE Spec => []KnownSensorIsRegistered
<1>1. ListedState => KnownSensorIsRegistered
  BY DEF ListedState, KnownSensorIsRegistered
<1>2. QED
  BY <1>1, SingleRoute, SingleRouteCorrect, PTL

\* With one thread for each sensor, the table holds its latest measurement
\* whenever no measurement of it is being handled.
THEOREM LatestIsStored == ASSUME SingleRoute PROVE Spec => []StoresLatestValue
<1>1. LatestState => StoresLatestValue
  BY DEF LatestState, StoresLatestValue
<1>2. QED
  BY <1>1, SingleRoute, SingleRouteCorrect, PTL

----------------------------------------------------------------------------
(* How the program ends.                                                   *)

\* enableOperation is cleared by the exit command only, and only the UDP thread
\* stops for it.
ExitState ==
  /\ \A t \in Threads : pc[t] = "stopped" => t = Udp /\ ~moteEnabled
  /\ main = "running" => moteEnabled
  /\ main = "stopping" => ~moteEnabled
  /\ ExitIsOrderly

\* The UDP thread never leaves "stopped", and main never enables it again.
LEMMA ExitStep == TypeInv /\ ExitState /\ [Next]_vars => ExitState'
<1> SUFFICES ASSUME TypeInv, ExitState, [Next]_vars PROVE ExitState'
  OBVIOUS
<1> USE ThreadsAssumption
       DEF TypeInv, TypeOK, ExitState, ExitIsOrderly, Running, MainPC, vars, tableVars,
           registryVars, jobVars, mainVars
<1>1. ASSUME NEW t \in Threads, NEW s \in Sensors, Measurement(t, s) PROVE ExitState'
  BY <1>1 DEF Measurement
<1>2. ASSUME NEW t \in Threads, ProviderStep(t) PROVE ExitState'
  <2>1. /\ pc[t] # "stopped"
        /\ pc' \in {[pc EXCEPT ![t] = p] : p \in ThreadPC}
        /\ pc'[t] = "stopped" => t = Udp /\ ~moteEnabled
        /\ process' \in {process, "undefined"}
        /\ process = "running"
        /\ UNCHANGED mainVars
    BY <1>2 DEF ProviderStep, SetLastValue, CheckWhiteList, Register, Unregister, Reregister,
        Insert, Goto, Finish, ThreadPC
  <2>2. QED
    BY <2>1
<1>3. ASSUME NEW t \in Threads, RaceWithMain(t) PROVE ExitState'
  BY <1>3 DEF RaceWithMain
<1>4. ASSUME NEW s \in Sensors, Get(s) PROVE ExitState'
  BY <1>4 DEF Get
<1>5. CASE GetStep
  BY <1>5 DEF GetStep, GetKey, GetValue, Goto, Finish
<1>6. CASE OtherPacket
  BY <1>6 DEF OtherPacket, Finish
<1>7. CASE MainStep
  BY <1>7 DEF MainStep, StopMote, MoteStopped, UnregisterCommand, Deregister, ClearTable, Destroy
<1>8. CASE (\E e \in SUBSET Sensors : Refresh(e)) \/ RegistryRecovers
  BY <1>8 DEF Refresh, RegistryRecovers
<1>9. CASE UNCHANGED vars
  BY <1>9
<1>10. QED
  BY <1>1, <1>2, <1>3, <1>4, <1>5, <1>6, <1>7, <1>8, <1>9 DEF Next

\* "exit" waits for the UDP thread and returns in peace; "unregister" does
\* neither, whatever sensors and threads there are.
THEOREM ProgramEnds == Spec => []ExitIsOrderly
<1>1. Init => ExitState
  BY DEF Init, ExitState, ExitIsOrderly
<1>2. ExitState => ExitIsOrderly
  BY DEF ExitState
<1>3. QED
  BY <1>1, <1>2, ExitStep, TypeInvCorrect, PTL DEF Spec

----------------------------------------------------------------------------
(* What registerSensor turns away.                                         *)

\* A thread that asks the registry has passed every early return.
AcceptedState ==
  /\ \A s \in table : Accepted(s)
  /\ \A t \in Threads : pc[t] \in {"register", "unregister", "reregister", "insert"} =>
       Accepted(sensor[t])

\* Only CheckWhiteList lets a sensor through, and no other request of the same
\* thread comes in between.
LEMMA AcceptedStep == TypeInv /\ AcceptedState /\ [Next]_vars => AcceptedState'
<1> SUFFICES ASSUME TypeInv, AcceptedState, [Next]_vars PROVE AcceptedState'
  OBVIOUS
<1> USE ThreadsAssumption
       DEF TypeInv, TypeOK, AcceptedState, vars, tableVars, registryVars, jobVars, mainVars
<1>1. ASSUME NEW t \in Threads, NEW s \in Sensors, Measurement(t, s) PROVE AcceptedState'
  BY <1>1 DEF Measurement
<1>2. ASSUME NEW t \in Threads, CheckWhiteList(t) PROVE AcceptedState'
  BY <1>2 DEF CheckWhiteList, Finish, Goto
<1>3. ASSUME NEW t \in Threads, Register(t) \/ Unregister(t) \/ Reregister(t) PROVE AcceptedState'
  <2>1. /\ pc[t] \in {"register", "unregister", "reregister"}
        /\ \E p \in ThreadPC : pc' = [pc EXCEPT ![t] = p]
        /\ UNCHANGED <<table, sensor>>
    BY <1>3 DEF Register, Unregister, Reregister, Goto, Finish, ThreadPC, tableVars
  <2>2. QED
    BY <2>1
<1>4. ASSUME NEW t \in Threads, SetLastValue(t) \/ Insert(t) PROVE AcceptedState'
  BY <1>4 DEF SetLastValue, Insert, Finish
<1>5. CASE (\E t \in Threads : RaceWithMain(t)) \/ OtherPacket \/ GetStep \/
           (\E s \in Sensors : Get(s))
  BY <1>5 DEF RaceWithMain, OtherPacket, GetStep, GetKey, GetValue, Get, Goto, Finish
<1>6. CASE MainStep
  BY <1>6 DEF MainStep, StopMote, MoteStopped, UnregisterCommand, Deregister, ClearTable, Destroy
<1>7. CASE (\E e \in SUBSET Sensors : Refresh(e)) \/ RegistryRecovers
  BY <1>7 DEF Refresh, RegistryRecovers
<1>8. CASE UNCHANGED vars
  BY <1>8
<1>9. QED
  BY <1>1, <1>2, <1>3, <1>4, <1>5, <1>6, <1>7, <1>8 DEF Next, ProviderStep

\* A sensor whose flags are P never becomes known, however often it sends and
\* whatever the whitelist and the registry say: its empty key paths fail fopen.
THEOREM PlainSensorNeverKnown == Spec => [](table \subseteq Secure \cap Complete)
<1>1. Init => AcceptedState
  BY DEF Init, AcceptedState
<1>2. TypeInv /\ AcceptedState => table \subseteq Secure \cap Complete
  BY DEF TypeInv, TypeOK, AcceptedState, Accepted
<1>3. QED
  BY <1>1, <1>2, AcceptedStep, TypeInvCorrect, PTL DEF Spec

----------------------------------------------------------------------------
(* The dialogue with the registry.                                         *)

\* Where registerSensor can be next when the registry answers every request.
After(p) ==
  CASE p = "register" -> {"unregister", "insert"}
    [] p = "unregister" -> {"reregister"}
    [] p = "reregister" -> {"insert"}
    [] OTHER -> {}

\* A registration that has begun goes on to the next request, or to the table,
\* and never gives up, while the registry answers.
RegistrationSucceeds ==
  [][registryUp => \A t \in Threads :
       pc[t] \in {"register", "unregister", "reregister", "insert"} =>
         \/ pc'[t] \in {pc[t]} \cup After(pc[t]) /\ sensor'[t] = sensor[t]
         \/ sensor[t] \in table']_vars

\* The registry does not list a sensor after a removal that it answered: with
\* one thread for each sensor nobody else registers it.
RemovedState ==
  \A t \in Threads : pc[t] = "reregister" => sensor[t] \notin registry

\* Only the sensor's own thread registers it, and it leaves "reregister" then.
LEMMA RemovedStep ==
  ASSUME SingleRoute, ~StrictRemove
  PROVE  TypeInv /\ RouteState /\ RemovedState /\ [Next]_vars => RemovedState'
<1> SUFFICES ASSUME TypeInv, RouteState, RemovedState, [Next]_vars PROVE RemovedState'
  OBVIOUS
<1> USE ThreadsAssumption
       DEF TypeInv, TypeOK, JobState, RouteState, RegisterPC, MeasurePC, SingleRoute,
           RemovedState, vars, tableVars, registryVars, jobVars, mainVars
<1>1. ASSUME NEW t \in Threads, NEW s \in Sensors, Measurement(t, s) PROVE RemovedState'
  BY <1>1 DEF Measurement
<1>2. ASSUME NEW t \in Threads, Register(t) \/ Reregister(t) PROVE RemovedState'
  <2>1. sensor[t] \in Sensors /\ <<t, sensor[t]>> \in Routes
    BY <1>2 DEF Register, Reregister
  <2>2. registry' \subseteq registry \cup {sensor[t]}
    BY <1>2, <2>1, RegisterAnswer DEF Register, Reregister
  <2>3. pc'[t] # "reregister" /\ \A u \in Threads : u # t => pc'[u] = pc[u]
    BY <1>2 DEF Register, Reregister, Goto, Finish
  <2>4. sensor' = sensor
    BY <1>2 DEF Register, Reregister, Goto, Finish
  <2>5. ASSUME NEW u \in Threads, pc'[u] = "reregister" PROVE sensor'[u] \notin registry'
    <3>1. u # t /\ pc[u] = "reregister"
      BY <2>3, <2>5
    <3>2. sensor[u] # sensor[t]
      BY <2>1, <3>1
    <3>3. QED
      BY <2>2, <2>4, <3>1, <3>2
  <2>6. QED
    BY <2>5
<1>3. ASSUME NEW t \in Threads, Unregister(t) PROVE RemovedState'
  <2>1. PICK a \in RemoveAnswers(sensor[t]) :
          registry' = a.reg /\ (IF a.code = "ok" THEN Goto(t, "reregister") ELSE Finish(t))
    BY <1>3 DEF Unregister
  <2>2. a.reg \subseteq registry /\ (a.code = "ok" => sensor[t] \notin a.reg)
    BY <2>1 DEF RemoveAnswers, Lost
  <2>3. QED
    BY <1>3, <2>1, <2>2 DEF Unregister, Goto, Finish
<1>4. ASSUME NEW t \in Threads, SetLastValue(t) \/ CheckWhiteList(t) \/ Insert(t) PROVE RemovedState'
  BY <1>4 DEF SetLastValue, CheckWhiteList, Insert, Goto, Finish
<1>5. CASE (\E t \in Threads : RaceWithMain(t)) \/ OtherPacket \/ GetStep \/
           (\E s \in Sensors : Get(s))
  BY <1>5 DEF RaceWithMain, OtherPacket, GetStep, GetKey, GetValue, Get, Goto, Finish
<1>6. ASSUME NEW s \in Sensors, Deregister(s) PROVE RemovedState'
  BY <1>6, RemoveAnswer DEF Deregister
<1>7. CASE StopMote \/ MoteStopped \/ UnregisterCommand \/ ClearTable \/ Destroy \/
           (\E e \in SUBSET Sensors : Refresh(e)) \/ RegistryRecovers
  BY <1>7 DEF StopMote, MoteStopped, UnregisterCommand, ClearTable, Destroy, Refresh,
      RegistryRecovers
<1>8. CASE UNCHANGED vars
  BY <1>8
<1>9. QED
  BY <1>1, <1>2, <1>3, <1>4, <1>5, <1>6, <1>7, <1>8 DEF Next, ProviderStep, MainStep

\* One step of a registration, while the registry answers.
LEMMA RegistrationStep ==
  ASSUME SingleRoute, ~StrictRemove, TypeInv, RouteState, RemovedState, [Next]_vars, registryUp,
         NEW t \in Threads, pc[t] \in {"register", "unregister", "reregister", "insert"}
  PROVE  \/ pc'[t] \in {pc[t]} \cup After(pc[t]) /\ sensor'[t] = sensor[t]
         \/ sensor[t] \in table'
<1> DEFINE Goal == \/ pc'[t] \in {pc[t]} \cup After(pc[t]) /\ sensor'[t] = sensor[t]
                   \/ sensor[t] \in table'
<1> USE ThreadsAssumption
       DEF TypeInv, TypeOK, JobState, vars, tableVars, registryVars, jobVars, mainVars
<1>1. ASSUME NEW u \in Threads, NEW s \in Sensors, Measurement(u, s) PROVE Goal
  BY <1>1 DEF Measurement
<1>2. ASSUME NEW u \in Threads, u # t,
             ProviderStep(u) \/ RaceWithMain(u)
      PROVE Goal
  BY <1>2 DEF ProviderStep, SetLastValue, CheckWhiteList, Register, Unregister, Reregister,
      Insert, RaceWithMain, Goto, Finish
<1>3. CASE Register(t)
  BY <1>3 DEF Register, Goto, After
<1>4. CASE Unregister(t)
  BY <1>4 DEF Unregister, RemoveAnswers, Lost, Goto, After
<1>5. CASE Reregister(t)
  BY <1>5 DEF Reregister, RemovedState, RegisterAnswers, Lost, Goto, After
<1>6. CASE Insert(t)
  BY <1>6 DEF Insert
<1>7. CASE SetLastValue(t) \/ CheckWhiteList(t) \/ RaceWithMain(t)
  BY <1>7 DEF SetLastValue, CheckWhiteList, RaceWithMain
<1>8. CASE OtherPacket \/ GetStep \/ (\E s \in Sensors : Get(s))
  BY <1>8 DEF OtherPacket, GetStep, GetKey, GetValue, Get, Goto, Finish
<1>9. CASE MainStep
  BY <1>9 DEF MainStep, StopMote, MoteStopped, UnregisterCommand, Deregister, ClearTable, Destroy
<1>10. CASE (\E e \in SUBSET Sensors : Refresh(e)) \/ RegistryRecovers
  BY <1>10 DEF Refresh, RegistryRecovers
<1>11. CASE UNCHANGED vars
  BY <1>11
<1>12. QED
  BY <1>1, <1>2, <1>3, <1>4, <1>5, <1>6, <1>7, <1>8, <1>9, <1>10, <1>11 DEF Next, ProviderStep

\* The safety half of EnabledSensorIsRegistered: with one thread for each sensor
\* and a registry that ignores the port of a removal, a registration begun while
\* the registry answers ends in the table, whatever was lost before.
THEOREM RegistrationGoesThrough ==
  ASSUME SingleRoute, ~StrictRemove PROVE Spec => RegistrationSucceeds
<1>1. Init => RemovedState
  BY DEF Init, RemovedState
<1>2. TypeInv /\ RouteState /\ RemovedState /\ [Next]_vars => RemovedState'
  BY SingleRoute, ~StrictRemove, RemovedStep
<1>3. Spec => [](TypeInv /\ RouteState /\ ListedState /\ LatestState)
  BY SingleRoute, SingleRouteCorrect
<1>4. TypeInv /\ RouteState /\ RemovedState /\ [Next]_vars =>
        [registryUp => \A t \in Threads :
           pc[t] \in {"register", "unregister", "reregister", "insert"} =>
             \/ pc'[t] \in {pc[t]} \cup After(pc[t]) /\ sensor'[t] = sensor[t]
             \/ sensor[t] \in table']_vars
  BY SingleRoute, ~StrictRemove, RegistrationStep
<1>5. QED
  BY <1>1, <1>2, <1>3, <1>4, PTL DEF Spec, RegistrationSucceeds

\* The registry lists s, from an earlier run or after a lost answer, and the
\* adapter neither knows it nor is about to insert it.
Stale(s) ==
  /\ s \in registry \ table
  /\ \A t \in Threads : pc[t] = "insert" => sensor[t] # s

\* A listing that blocks a registration blocks it for ever.
StaleListingIsFinal == [][\A s \in Sensors : Stale(s) => Stale(s)']_vars

\* With a registry that compares the port, the removal of a secure sensor (sent
\* under PORT, registered under PORT+1) finds nothing: the second POST fails
\* like the first and the sensor is never served again.
THEOREM StaleListingBlocks == ASSUME StrictRemove PROVE Spec => StaleListingIsFinal
<1>1. ASSUME TypeInv, [Next]_vars, NEW s \in Sensors, Stale(s) PROVE Stale(s)'
  <2> USE <1>1, ThreadsAssumption
         DEF TypeInv, TypeOK, JobState, Stale, vars, tableVars, registryVars, jobVars, mainVars
  <2>1. ASSUME NEW t \in Threads, NEW r \in Sensors, Measurement(t, r) PROVE Stale(s)'
    BY <2>1 DEF Measurement
  <2>2. ASSUME NEW t \in Threads, Register(t) PROVE Stale(s)'
    BY <2>2 DEF Register, RegisterAnswers, Lost, Goto
  <2>3. ASSUME NEW t \in Threads, Unregister(t) PROVE Stale(s)'
    BY <2>3, StrictRemove DEF Unregister, RemoveAnswers, Lost, Goto, Finish
  <2>4. ASSUME NEW t \in Threads, Reregister(t) PROVE Stale(s)'
    BY <2>4 DEF Reregister, RegisterAnswers, Lost, Goto, Finish
  <2>5. ASSUME NEW t \in Threads, SetLastValue(t) \/ CheckWhiteList(t) \/ Insert(t) PROVE Stale(s)'
    BY <2>5 DEF SetLastValue, CheckWhiteList, Insert, Goto, Finish
  <2>6. CASE (\E t \in Threads : RaceWithMain(t)) \/ OtherPacket \/ GetStep \/
             (\E r \in Sensors : Get(r))
    BY <2>6 DEF RaceWithMain, OtherPacket, GetStep, GetKey, GetValue, Get, Goto, Finish
  <2>7. ASSUME NEW r \in Sensors, Deregister(r) PROVE Stale(s)'
    BY <2>7, StrictRemove DEF Deregister, RemoveAnswers, Lost
  <2>8. CASE StopMote \/ MoteStopped \/ UnregisterCommand \/ ClearTable \/ Destroy \/
             (\E e \in SUBSET Sensors : Refresh(e)) \/ RegistryRecovers
    BY <2>8 DEF StopMote, MoteStopped, UnregisterCommand, ClearTable, Destroy, Refresh,
        RegistryRecovers
  <2>9. CASE UNCHANGED vars
    BY <2>9
  <2>10. QED
    BY <2>1, <2>2, <2>3, <2>4, <2>5, <2>6, <2>7, <2>8, <2>9 DEF Next, ProviderStep, MainStep
<1>2. TypeInv /\ [Next]_vars => [\A s \in Sensors : Stale(s) => Stale(s)']_vars
  BY <1>1
<1>3. QED
  BY <1>2, TypeInvCorrect, PTL DEF Spec, StaleListingIsFinal

=============================================================================
