------------------------ MODULE ProviderRegistration ------------------------
(***************************************************************************)
(* The provider side of the SensorAdapter: a measurement that arrives on   *)
(* the UDP mote thread or, as a POST, on the HTTP or the HTTPS server      *)
(* thread (SensorHandler::processProvider, registerSensor), the table of   *)
(* registered sensors (SensorTable.cpp), a consumer's GET on the HTTPS     *)
(* server thread (Callback_Serve_HTTPs_GET) and the main thread's "exit"   *)
(* and "unregister" commands (Adapter.cpp, unregisterAllProvider).         *)
(*                                                                         *)
(* Each call of SensorTable takes the mutex for that call only, so a call  *)
(* is one action; unregisterAllProvider walks and clears the map without   *)
(* it.  The Arrowhead Service Registry is external: it is modelled from    *)
(* the requests sent to it and the codes the adapter tells apart.          *)
(***************************************************************************)
EXTENDS Naturals

CONSTANTS
  Sensors,      \* base names, numbered in the key order of the std::map
  Secure,       \* the sensors whose flags are PS; the others' are P
  Complete,     \* the sensors with every entry in the configuration files
  Threads,      \* the threads that process measurements
  Udp,          \* the UDP mote thread
  Https,        \* the HTTPS server thread, which also answers the GETs
  Routes,       \* <<t, s>> when the measurements of s arrive on thread t
  StrictRemove  \* whether the registry's remove compares the port: the adapter
                \* registers a secure sensor under PORT+1 and removes PORT

ASSUME SensorsAssumption ==
  Sensors \subseteq Nat \ {0} /\ Secure \subseteq Sensors /\ Complete \subseteq Sensors
ASSUME ThreadsAssumption == Udp \in Threads /\ Https \in Threads /\ Udp # Https
ASSUME RoutesAssumption == Routes \subseteq Threads \X Sensors
ASSUME StrictAssumption == StrictRemove \in BOOLEAN

\* Nobody mixes transports: a sensor's measurements arrive on one thread.
SingleRoute ==
  \A t, u \in Threads, s \in Sensors : <<t, s>> \in Routes /\ <<u, s>> \in Routes => t = u

VARIABLES
  process,     \* "running", "terminated" by std::terminate, or "undefined"
  table,       \* keys of sensorTable
  latest,      \* those whose lastValue is the latest measurement received
  registry,    \* the sensors the Service Registry lists for this adapter
  registryUp,  \* from some time on, every request to it is answered
  enabled,     \* the sensors the whitelist allows
  pc,          \* where each thread is
  sensor,      \* baseName of the request each thread handles
  fresh,       \* whether its measurement is still the sensor's latest
  moteEnabled, \* MoteInterface::enableOperation
  main,        \* where the main thread is
  cursor       \* the key unregisterAllProvider's iterator has passed

tableVars == <<table, latest>>
registryVars == <<registry, registryUp>>
jobVars  == <<pc, sensor, fresh>>
mainVars == <<moteEnabled, main, cursor>>
vars == <<process, tableVars, registryVars, enabled, jobVars, mainVars>>

----------------------------------------------------------------------------
ThreadPC == {"idle", "setValue", "checkList", "register", "unregister", "reregister",
             "insert", "getKey", "getValue", "stopped"}
MainPC == {"running", "stopping", "iterating", "returning", "destroyed"}

Running == process = "running"

\* Handling of the request ends; the UDP thread tests enableOperation.
Finish(t) ==
  /\ pc' = [pc EXCEPT ![t] = IF t = Udp /\ ~moteEnabled THEN "stopped" ELSE "idle"]
  /\ UNCHANGED <<sensor, fresh>>

Goto(t, p) == pc' = [pc EXCEPT ![t] = p] /\ UNCHANGED <<sensor, fresh>>

\* registerSensor reaches the registry: every table lookup succeeds, and both
\* key files open.  A P sensor has no key paths, and fopen("") fails.
Accepted(s) == s \in Complete /\ s \in Secure

----------------------------------------------------------------------------
(* The registry: the answers to a request and what it lists after each.    *)

\* A request or its answer may be lost while the registry is not up.
Lost(changed) ==
  IF registryUp THEN {} ELSE {[code |-> "none", reg |-> registry],
                              [code |-> "none", reg |-> changed]}

\* POST register: 201 for a new service, an error code for one that is listed.
RegisterAnswers(s) ==
  {IF s \in registry THEN [code |-> "error", reg |-> registry]
                     ELSE [code |-> "created", reg |-> registry \cup {s}]}
  \cup Lost(registry \cup {s})

\* PUT remove: 200, or 204 when nothing was found.
RemoveAnswers(s) ==
  LET removed == IF StrictRemove THEN registry ELSE registry \ {s}
  IN  {[code |-> "ok", reg |-> removed]} \cup Lost(removed)

----------------------------------------------------------------------------
Init ==
  /\ process = "running"
  /\ table = {}
  /\ latest = {}
  /\ registry \in SUBSET Secure      \* what an earlier run left behind
  /\ registryUp = FALSE
  /\ enabled \in SUBSET Sensors
  /\ pc = [t \in Threads |-> "idle"]
  /\ sensor = [t \in Threads |-> 0]
  /\ fresh = [t \in Threads |-> FALSE]
  /\ moteEnabled = TRUE
  /\ main = "running"
  /\ cursor = 0

----------------------------------------------------------------------------
(* A measurement: processProvider.                                         *)

\* Mutant: the value is stored before the entry exists.
MeasurementStoredEarly(t, s) ==
  /\ Running
  /\ pc[t] = "idle"
  /\ <<t, s>> \in Routes
  /\ latest' = latest \cup {s}
  /\ fresh' = [u \in Threads |-> u = t \/ (fresh[u] /\ sensor[u] # s)]
  /\ sensor' = [sensor EXCEPT ![t] = s]
  /\ pc' = [pc EXCEPT ![t] = IF s \in table THEN "setValue" ELSE "checkList"]
  /\ UNCHANGED <<process, table, registryVars, enabled, mainVars>>

\* It arrives on t and sensorExists is called.
Measurement(t, s) ==
  /\ Running
  /\ pc[t] = "idle"
  /\ <<t, s>> \in Routes
  /\ latest' = latest \ {s}
  /\ fresh' = [u \in Threads |-> u = t \/ (fresh[u] /\ sensor[u] # s)]
  /\ sensor' = [sensor EXCEPT ![t] = s]
  /\ pc' = [pc EXCEPT ![t] = IF s \in table THEN "setValue" ELSE "checkList"]
  /\ UNCHANGED <<process, table, registryVars, enabled, mainVars>>

\* Mutant: a measurement of a known sensor is dropped.
SetNoValue(t) ==
  /\ Running
  /\ pc[t] = "setValue"
  /\ Finish(t)
  /\ UNCHANGED <<process, tableVars, registryVars, enabled, mainVars>>

\* setLastValue dereferences what find returns, end() included.
SetLastValue(t) ==
  /\ Running
  /\ pc[t] = "setValue"
  /\ IF sensor[t] \in table
     THEN /\ latest' = IF fresh[t] THEN latest \cup {sensor[t]} ELSE latest \ {sensor[t]}
          /\ UNCHANGED process
     ELSE /\ process' = "undefined"
          /\ UNCHANGED latest
  /\ Finish(t)
  /\ UNCHANGED <<table, registryVars, enabled, mainVars>>

\* oWhiteList.sensorIsEnabled, then the early returns of registerSensor.
CheckWhiteList(t) ==
  /\ Running
  /\ pc[t] = "checkList"
  /\ IF sensor[t] \in enabled /\ Accepted(sensor[t]) THEN Goto(t, "register") ELSE Finish(t)
  /\ UNCHANGED <<process, tableVars, registryVars, enabled, mainVars>>

\* Mutant: the code of the answer is not looked at.
RegisterUnchecked(t) ==
  /\ Running
  /\ pc[t] = "register"
  /\ \E a \in RegisterAnswers(sensor[t]) : registry' = a.reg
  /\ Goto(t, "insert")
  /\ UNCHANGED <<process, tableVars, registryUp, enabled, mainVars>>

\* Mutant: no re-registration of a sensor the registry already lists.
RegisterOnce(t) ==
  /\ Running
  /\ pc[t] = "register"
  /\ \E a \in RegisterAnswers(sensor[t]) :
       /\ registry' = a.reg
       /\ IF a.code = "created" THEN Goto(t, "insert") ELSE Finish(t)
  /\ UNCHANGED <<process, tableVars, registryUp, enabled, mainVars>>

\* registerToServiceRegistry: any code but 201 is taken for a duplicate.
Register(t) ==
  /\ Running
  /\ pc[t] = "register"
  /\ \E a \in RegisterAnswers(sensor[t]) :
       /\ registry' = a.reg
       /\ Goto(t, IF a.code = "created" THEN "insert" ELSE "unregister")
  /\ UNCHANGED <<process, tableVars, registryUp, enabled, mainVars>>

\* unregisterFromServiceRegistry: 200 and 204 go on to the second POST.
Unregister(t) ==
  /\ Running
  /\ pc[t] = "unregister"
  /\ \E a \in RemoveAnswers(sensor[t]) :
       /\ registry' = a.reg
       /\ IF a.code = "ok" THEN Goto(t, "reregister") ELSE Finish(t)
  /\ UNCHANGED <<process, tableVars, registryUp, enabled, mainVars>>

Reregister(t) ==
  /\ Running
  /\ pc[t] = "reregister"
  /\ \E a \in RegisterAnswers(sensor[t]) :
       /\ registry' = a.reg
       /\ IF a.code = "created" THEN Goto(t, "insert") ELSE Finish(t)
  /\ UNCHANGED <<process, tableVars, registryUp, enabled, mainVars>>

\* SensorTable::insert: map::insert keeps the value of an entry that exists.
Insert(t) ==
  /\ Running
  /\ pc[t] = "insert"
  /\ table' = table \cup {sensor[t]}
  /\ latest' = IF sensor[t] \notin table /\ fresh[t] THEN latest \cup {sensor[t]} ELSE latest
  /\ Finish(t)
  /\ UNCHANGED <<process, registryVars, enabled, mainVars>>

----------------------------------------------------------------------------
(* A consumer's GET for a secure sensor.                                   *)

\* sensorExists; without an entry the handler returns.
Get(s) ==
  /\ Running
  /\ pc[Https] = "idle"
  /\ s \in Secure \cap table
  /\ pc' = [pc EXCEPT ![Https] = "getKey"]
  /\ sensor' = [sensor EXCEPT ![Https] = s]
  /\ fresh' = [fresh EXCEPT ![Https] = FALSE]
  /\ UNCHANGED <<process, tableVars, registryVars, enabled, mainVars>>

\* getPrivateKeyPath, which dereferences what find returns; the signature and
\* the token are then verified or the handler returns.
GetKey(verified) ==
  /\ Running
  /\ pc[Https] = "getKey"
  /\ process' = IF sensor[Https] \in table THEN process ELSE "undefined"
  /\ IF verified THEN Goto(Https, "getValue") ELSE Finish(Https)
  /\ UNCHANGED <<tableVars, registryVars, enabled, mainVars>>

\* getLastValue, which dereferences what find returns.
GetValue ==
  /\ Running
  /\ pc[Https] = "getValue"
  /\ process' = IF sensor[Https] \in table THEN process ELSE "undefined"
  /\ Finish(Https)
  /\ UNCHANGED <<tableVars, registryVars, enabled, mainVars>>

----------------------------------------------------------------------------
(* The main thread.                                                        *)

\* "exit": stopMoteUDPInterface clears enableOperation ...
StopMote ==
  /\ Running
  /\ main = "running"
  /\ main' = "stopping"
  /\ moteEnabled' = FALSE
  /\ UNCHANGED <<process, tableVars, registryVars, enabled, jobVars, cursor>>

\* (the UDP thread notices it after one more packet, whatever the packet is)
OtherPacket ==
  /\ Running
  /\ pc[Udp] = "idle"
  /\ ~moteEnabled
  /\ Finish(Udp)
  /\ UNCHANGED <<process, tableVars, registryVars, enabled, mainVars>>

\* Mutant: unregisterAllProvider does not wait for the UDP thread.
MoteNotJoined ==
  /\ Running
  /\ main = "stopping"
  /\ main' = "iterating"
  /\ UNCHANGED <<process, tableVars, registryVars, enabled, jobVars, moteEnabled, cursor>>

\* ... and joins the UDP thread before unregisterAllProvider.
MoteStopped ==
  /\ Running
  /\ main = "stopping"
  /\ pc[Udp] = "stopped"
  /\ main' = "iterating"
  /\ UNCHANGED <<process, tableVars, registryVars, enabled, jobVars, moteEnabled, cursor>>

\* "unregister": unregisterAllProvider with every thread running.
UnregisterCommand ==
  /\ Running
  /\ main = "running"
  /\ main' = "iterating"
  /\ UNCHANGED <<process, tableVars, registryVars, enabled, jobVars, moteEnabled, cursor>>

\* deregisterSensor of the next key; what it returns is ignored.
Deregister(s) ==
  /\ Running
  /\ main = "iterating"
  /\ s \in table /\ s > cursor
  /\ \A r \in table : r > cursor => s <= r
  /\ \E a \in RemoveAnswers(s) : registry' = a.reg
  /\ cursor' = s
  /\ UNCHANGED <<process, tableVars, registryUp, enabled, jobVars, moteEnabled, main>>

ClearTable ==
  /\ Running
  /\ main = "iterating"
  /\ \A r \in table : r <= cursor
  /\ table' = {}
  /\ latest' = {}
  /\ main' = "returning"
  /\ UNCHANGED <<process, registryVars, enabled, jobVars, moteEnabled, cursor>>

\* A call of SensorTable overlaps the walk, the clear or the destruction of the
\* map, which do not take its mutex: a data race.
RaceWithMain(t) ==
  /\ Running
  /\ main \in {"iterating", "destroyed"}
  /\ pc[t] \in {"idle", "setValue", "insert", "getKey", "getValue"}
  /\ process' = "undefined"
  /\ UNCHANGED <<tableVars, registryVars, enabled, jobVars, mainVars>>

\* main returns: the members of SensorHandler are destroyed before the base
\* classes stop the servers.  After "unregister" the UDP and whitelist threads
\* are still joinable, and their destruction calls std::terminate.
Destroy ==
  /\ Running
  /\ main = "returning"
  /\ main' = "destroyed"
  /\ process' = IF moteEnabled THEN "terminated" ELSE process
  /\ UNCHANGED <<tableVars, registryVars, enabled, jobVars, moteEnabled, cursor>>

----------------------------------------------------------------------------
(* The environment.                                                        *)

\* Mutant: the sensors that are no longer allowed are erased from the table.
RefreshErases(e) ==
  /\ Running
  /\ e # enabled
  /\ enabled' = e
  /\ table' = table \cap e
  /\ latest' = latest \cap e
  /\ UNCHANGED <<process, registryVars, jobVars, mainVars>>

\* A refresh of the whitelist gives another set of enabled sensors.
Refresh(e) ==
  /\ Running
  /\ e # enabled
  /\ enabled' = e
  /\ UNCHANGED <<process, tableVars, registryVars, jobVars, mainVars>>

RegistryRecovers ==
  /\ Running
  /\ ~registryUp
  /\ registryUp' = TRUE
  /\ UNCHANGED <<process, tableVars, registry, enabled, jobVars, mainVars>>

----------------------------------------------------------------------------
ProviderStep(t) ==
  \/ SetLastValue(t) \/ CheckWhiteList(t) \/ Register(t) \/ Unregister(t)
  \/ Reregister(t) \/ Insert(t)

GetStep == (\E verified \in BOOLEAN : GetKey(verified)) \/ GetValue

MainStep ==
  \/ StopMote \/ MoteStopped \/ UnregisterCommand
  \/ \E s \in Sensors : Deregister(s)
  \/ ClearTable \/ Destroy

Next ==
  \/ \E t \in Threads : \/ \E s \in Sensors : Measurement(t, s)
                        \/ ProviderStep(t) \/ RaceWithMain(t)
  \/ \E s \in Sensors : Get(s)
  \/ GetStep \/ OtherPacket \/ MainStep
  \/ \E e \in SUBSET Sensors : Refresh(e)
  \/ RegistryRecovers

Spec == Init /\ [][Next]_vars

\* A thread finishes the request it has begun (the HTTP client and the token
\* check return), and a sensor's measurements keep coming and being accepted.
Fairness ==
  /\ \A t \in Threads : WF_vars(ProviderStep(t))
  /\ WF_vars(GetStep)
  /\ \A s \in Sensors : SF_vars(\E t \in Threads : Measurement(t, s))

FairSpec == Spec /\ Fairness

----------------------------------------------------------------------------
(* Properties.                                                             *)

\* Every variable has its type; the sensors whose stored value is the latest
\* one have an entry.
TypeOK ==
  /\ process \in {"running", "terminated", "undefined"}
  /\ table \subseteq Sensors
  /\ latest \subseteq table
  /\ registry \subseteq Sensors
  /\ registryUp \in BOOLEAN
  /\ enabled \subseteq Sensors
  /\ pc \in [Threads -> ThreadPC]
  /\ sensor \in [Threads -> Sensors \cup {0}]
  /\ fresh \in [Threads -> BOOLEAN]
  /\ moteEnabled \in BOOLEAN
  /\ main \in MainPC
  /\ cursor \in Sensors \cup {0}

\* Some thread is between removing s from the registry and registering it again.
Reregistering(s) == \E t \in Threads : sensor[t] = s /\ pc[t] \in {"reregister", "unregister"}

\* SensorTable.h:45 says that sensorExists holds of a sensor that is "already
\* known and registered": while the adapter runs, the registry lists a sensor
\* of the table, or is about to, whatever requests and answers were lost.
KnownSensorIsRegistered ==
  main = "running" => \A s \in table : s \in registry \/ Reregistering(s)

\* The manual says that the adapter stores the last measured value: when no
\* thread handles a request about a sensor of the table, its entry holds the
\* latest measurement received, the one that registered it included.
StoresLatestValue ==
  Running => \A s \in table :
    (\A t \in Threads : sensor[t] = s => pc[t] \in {"idle", "stopped"}) => s \in latest

\* The check-then-act sequences on the table (sensorExists, then a call that
\* dereferences find's result) are safe until the operator ends the program:
\* only then is anything removed from the table.
SafeUntilShutdown ==
  process = "undefined" => main \in {"iterating", "returning", "destroyed"}

\* The two commands that end the program differ: after "exit" the UDP thread is
\* through with the table before main walks, clears and destroys it, and main's
\* return aborts after "unregister", always, and after "exit" never.
ExitIsOrderly ==
  /\ ~moteEnabled /\ main \in {"iterating", "returning", "destroyed"} => pc[Udp] = "stopped"
  /\ process = "terminated" <=> main = "destroyed" /\ moteEnabled

\* The manual says that a sensor that is not registered yet is registered when
\* its message arrives: one that stays enabled and fully configured, and keeps
\* sending, gets into the table and stays there once the registry answers, also
\* when an earlier run, or an answer that was lost, left it in the registry.
EnabledSensorIsRegistered ==
  \A s \in Complete :
    <>[](s \in enabled /\ registryUp /\ main = "running") => <>[](s \in table)

\* A comment in readWhiteListCsv says of the removal of a sensor "Remove from
\* WhiteList table, remove from SensorTable and deregister in ServiceRegistry":
\* a sensor that stays disabled leaves the table.
DisabledSensorIsForgotten ==
  \A s \in Sensors :
    <>[](s \notin enabled /\ registryUp /\ main = "running") => <>[](s \notin table)

=============================================================================
