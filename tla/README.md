# Verification of the Arrowhead clients

This directory holds TLA+ models of the Arrowhead client repository, TLC
configurations that check them on small instances, and theorems about them that
TLAPS checks for every instance. Paths below are relative to `src/`; `SA/` stands for
`ArrowheadCpp/SensorAdapter/src/`.

    tlc -config ConsumerTable_safety.cfg MCConsumerTable.tla
    tlapm ConsumerTableProofs.tla

`PROJECT.json` lists the runs, the lines each definition models, mutants of the code
that each checked property catches, the hazards and the findings.

## 1. Inventory

The repository has no tests. Its own code is the C++ SensorAdapter (3.4k lines), two C++
examples and a group of Java clients. The rest is vendored (json.hpp, curl,
libmicrohttpd, iniparser, jnetpcap) or build output: most of the lines of the
repository, so the lines that the modules model are a small share of all lines however
much of its own code they cover.

| component | state | operations | hard behaviour | correct when |
|---|---|---|---|---|
| consumer side: `SA/Adapter/Consumer/ConsumerTable.cpp`, `processConsumer`, `Callback_OrchestrationResponse` | map of consumers, each with a `std::thread` and the last value; one mutex | look up, insert, store received data, reap, delete all | a TCP thread per consumer, a detached reaper per ended connection, flags polled without synchronisation, joins under the mutex | one thread per consumer, none lost; entries only for live consumers; no join waits for ever |
| provider side: `processProvider`, `registerSensor`, `deregisterSensor`, GET callbacks in `SA/Adapter/SensorHandler.cpp`, `SensorTable.cpp` | map of registered sensors with last value and key path; the external Service Registry | measurement, register, re-register, GET, unregister all | three threads, a check and an act in separate critical sections, requests and answers lost, restarts | table and registry agree; values are not lost; every enabled sensor gets registered |
| whitelist: `WhiteList.cpp` | map of enabled sensors, a refresh thread | periodic reload of a csv file, look up, stop | the file is edited while it is read; bad rows; a loop that ends when two sizes agree | look-ups follow the file and never forbid a sensor that old and new file allow |
| UDP mote interface: `MoteInterface.cpp` | socket, `enableOperation` | receive loop, stop | the loop tests its flag only after a packet | stops when told |
| main program: `Adapter.cpp` | none | `exit`, `unregister` | order of stops, joinable threads at destruction | ends without abort |
| HTTP/HTTPS servers and clients: `Http_Handler.cpp`, `Https_Handler.cpp` | per-connection `con_cls`, request buffers | callbacks of libmicrohttpd, requests through curl | chunks, repeated callbacks, bodies of any method, missing completion callback | each request is handled once, and what it allocates freed once |
| token check: `Security/`, `Callback_Serve_HTTPs_GET` | none; reads the sensor table and the clock | verify signature, compare fields | clock, malformed tokens | a value is sent to the token's consumer only |
| configuration readers: `MoteTable`, `ProvidedService`, `ConsumedService` | maps read at start | look up | a reader that counts braces | what the file says is found |
| C++ examples (`ArrowheadCpp/ProviderExample`, `ConsumerExample`) | one sensor, one request | register, serve; orchestrate, GET | re-registration | as above |
| Java consumer (`consumer/`) | a pool of five threads, the pcap handle, futures | request, capture, calculate, stop | tasks that wait for tasks of their own pool; a stop that overtakes its start; shutdown between two submits | a request loses its capture to another's stop only in exchange; what is logged is of its request; waits end |
| Java providers, subscriber, publisher (`provider/`, `ArrowheadProviderTest/`, `subscriber/`, `publisher/`, over `client-common/`) | a web server, the entries announced | announce, replace a duplicate, listen, remove on shutdown | failure of one step of several, crash and restart, a request handled after its timeout, shutdown hooks | what a listening client announced is listed; what a stopped one removes is gone (not every kind removes) |

How they interact: `SensorHandler` inherits the two HTTP interfaces and the mote interface,
whose threads call its virtual functions; it owns the tables. The UDP mote thread runs
`processProvider` and `processConsumer` to their end, HTTP requests to the core systems
included. The HTTP and HTTPS server threads run the POST and GET callbacks. Receiver and
reaper threads write the consumer table. The main thread waits for a command and stops
the others in this order: mote interface, registrations, whitelist, consumers.

## 2. Plan

1. `ConsumerTable` (done): the most concurrent part; type correctness, ownership of
   threads, safety of the joins and the order of waits proved.
2. `ProviderRegistration` (done): agreement of table and registry under loss and restart;
   safety proved.
3. `WhiteList` implementing the abstract `AllowList` (done): refinement checked, its safety
   part proved, and where a load arrives.
4. `HttpServers` implementing the abstract `RequestServer` (done): the libmicrohttpd
   handlers of both servers and the token check; refinement checked, its safety part and
   the authorisation of answers proved.
5. `MonitoredConsumer` (done): the Java consumer's pool; safety and what starves it proved.
6. `ServiceClients` (done): the lives of the Java providers, the subscriber, the
   publisher and the C++ ProviderExample; safety, and that reliable starts and stops complete, proved.
7. Open: the main thread's whole `exit` and `unregister` sequence over abstract components,
   with the order of destruction (detached reapers, joinable threads).
8. Open: pure functions (`parseTCPRobotArmData`, the brace counter of the configuration
   readers), each against a reference definition over bounded inputs.
9. Open: the C++ ConsumerExample, and the token check of the examples' servers.

## 3. Modules

### ConsumerTable

A `ConsumerTable` state is the map (`table`, `handle`, `lastValue`: keys, threads and values), the
mutex, and for each thread where it is in the code:

- the UDP mote thread: `ProcessConsumer` (consumerExists), `ReadValue`, `ReadTypeAndReply` for a
  known consumer; `StartReceiver`, `ReadyObserved`, `InsertConsumer`, `ReplyToNew` or
  `JoinFailed` for a new one; `OrchestrationFails`; `OtherPacket`;
- a receiver thread (one of `Conns` per call of `insertNewConsumer`): `ConnectFails` or
  `ConnectSucceeds`, the two flags, the recv loop (`ReceiveData`, `Disconnected`, `TimedOut`),
  `UpdateLastValue`/`LockOnly`, `Return`;
- its reaper: `ReaperLock`, `ReaperErase`;
- the main thread: `StopMote`, `MoteStopped`, `DeleteAllLock`, `DeleteAllClear`.

One action per critical section; the mutex is a variable because reapers and
`deleteAllConsumer` keep it while they join. The two plain bools through which a receiver
reports its start are a data race: with `StoresInOrder = FALSE` either store may become
visible first. `operator[]` adds a default entry where the code's does, and `map::insert`
leaves an existing entry alone, after which a joinable thread is destroyed and the
process is `terminated`. `x`, `y`, `z` and `s` are one value, and `parseTCPRobotArmData` is the choice
between a complete field and none. Consumers are numbered in key order because
`getConsumerLastValue` depends on it. The Windows branch is not modelled.

### ProviderRegistration

Threads that process measurements (`Measurement`, `SetLastValue`, `CheckWhiteList`, `Register`, `Unregister`,
`Reregister`, `Insert`: the calls of `processProvider` and `registerSensor`, one per critical section or
request), the HTTPS GET (`Get`, `GetKey`, `GetValue`), the commands (`StopMote`, `OtherPacket`,
`MoteStopped`, `UnregisterCommand`, `Deregister`, `ClearTable`, `Destroy`) and the environment (`Refresh`,
`RegistryRecovers`). `latest` has the sensors whose stored value is the last one received, `fresh` says
whether a measurement in hand still is. Looking up a missing entry dereferences `end()`;
`unregisterAllProvider` takes no mutex, so a call of the table in the meantime is a data race
(`RaceWithMain`); both lead to the process state `undefined`.

The Service Registry is external: a POST of a listed service gets an error code and is
otherwise 201; a PUT remove gets 200 or 204; until `registryUp` a request or its answer may
be lost. A secure sensor is registered under PORT+1 and removed under PORT
(`SA/Interface/ServiceRegistryInterface.cpp:245,286`); `StrictRemove` says whether the registry
compares it, and the runs assume it does not. `Init` starts from whatever an earlier run left in
the registry. `Routes` says on which thread a sensor's measurements arrive.

### WhiteList and AllowList

`WhiteList` is the refresh thread line by line (`Open`, `ReadHeader`, `ReadRow`, `EndOfFile`, `RemoveMissing`,
`SizesEqual`, `WakeUp`), an editor that truncates the file and writes it in parts, lines cut short
included, and `stopPeriodicRefresh`. A line is a sensor or one of five kinds of other line.
`AllowList` is what the rest of the adapter relies on: a load fixes the set to reach, sensors are
then allowed one by one, and only after that are others forbidden. The refinement mapping
takes the table for `allowed` and computes `goal` from where the thread is: while rows are
read it is `csvList` and the rows still to come or, if one of those is bad, the table and the rows
before the bad one.

### HttpServers and RequestServer

`HttpServers` has for each connection where libmicrohttpd is with it (`state`), the request it
handles, `*con_cls` (`context`: NULL, the address of the handler's static, or a con_info), the
con_infos allocated (`live`) and the answer queued. An action is one call of a handler:
`GetFirstCall`, `HttpGet`, `HttpsGet`, `PostFirstCall`, `PostPiece`, `PostLastCall`, `UnknownMethod`; or a step of
libmicrohttpd. What a connection goes through (`Receive`, `BodyEnds`, `AnswerSent`, `ClientCloses`, `Timeout`) is
translated from the repository's changed copy of `connection.c`
(`ArrowheadCpp/SensorAdapter/changes/libmicrohttpd/src/microhttpd/`); the daemon (`Connect`, `KillServer`, `CloseAll`)
is external. Whenever a request ends (`Leave`), `Notify` runs `request_completed` on the HTTP server;
the HTTPS server is started without it.

libmicrohttpd reads the body of every method that declares one. So a GET, too, may have pieces
and an end of its body that comes apart from the headers (`end`), and while it waits for them the static
of `MHD_Callback` (`SA/Interface/Http_Handler.cpp:148`) is in `*con_cls`. When that connection ends, `request_completed`
takes the static for a con_info and frees it (`FreesOther`, after which the process is
`undefined`). A request without a body (`Bare`) has its two calls in one pass of the server's thread. No handler
takes a piece of a GET, so a piece comes again with every pass, and an answer to it is refused, which closes the
connection. An answer queued after `MHD_stop_daemon` has been called is dropped (`cut`).

The two servers share their code but for this and for the GET, whose callback on the HTTPS
server is the decision over the token, check by check: `Verified`, `ReturnsFalse`, `Identified`, `ReadsPastEnd`,
`NotExpired`, `Serves`. A token is the outcome of signature, decryption and parsing; consumer names are their
first labels, which is what the code compares. When the callback returns false nothing is
queued, and the handler is called again until the connection times out. `Nameless` has the clients of
whose name the code reads a second part that does not exist: a name of one part, or no certificate,
which gives the name `error` (`SA/Adapter/SensorHandler.cpp:720`). That is undefined behaviour, too.

Left out: pipelined requests, requests that libmicrohttpd refuses by itself, `iterate_post`. An HTTP
GET gets "text", value or not. `known` stands for the table of `ProviderRegistration`.

`RequestServer` is what clients rely on: a request is answered at most once, after its
measurement (if it has a whole one) was handed on exactly once, and does not stay open.

### MonitoredConsumer

The consumer thread (`SendRequest`, `Answered`, `Unavailable`, `RequestThrows`, `StopCapture`, `SubmitCalculation`, `SeesFlag`: the loop
of `ConsumerMain` and `Stub.sendRequestM`), the threads of the pool (`Take`, then `CaptureEnds`, `RunSubtask`, or
the steps of `CalculationThread.run`: `SubmitBandwidth`, `SubmitLoss`, `GetBandwidth`, `GetLoss`, `PutLog`) and the main
thread (`ReadStop`, `InputFails`, `EndOfInput`, `ReleaseResources`).

Each request has a queue of its own (`Stub.java:66`), which its capture fills and its calculation reads; a
task is named by its request. `packets` has, by queue, when its packets were seen: the request that was the last
sent then (`Packet`). The captures are not kept apart by the native code: each is a loop on the one pcap
handle that ends when it sees the handle's break flag, and clears it; `teste.stop` sets it, also
when no capture runs yet. So a stop may end the capture of another request, and a capture that outlives
its request takes packets of later ones. `shutdownNow` drops the pool's queue and interrupts the
threads; a capture cannot be interrupted.

A subtask returns a value, throws, or, for the loss, returns a text in its place: `"error"` when
starting or reading `ping` throws (`CalculationThread.java:140-143`), or an empty string when `ping` says nothing (the command of line
124 has no space before the address). An exception of the input, or of closing it, leaves the flag set while the main thread
goes on to join (`ConsumerMain.java:148-150`). Left out: the contents of packets, errors of pcap, the orchestration
request before the loop and those after `shutdownNow`, which touch no state. `flag`, which is not volatile, is read
as it is: the loop does requests and sleeps between two reads.

### ServiceClients

A process of a client is `off`, at an announcement (`registering`, `replacing`, `again`), `listening`, at a
removal (`stopping`), or in a state nobody wrote down: `returned` (the subscriber's main thread has
ended; its web server keeps the JVM alive), `orphan` (an exception ended the main thread and the
web server goes on), `hung` (a shutdown hook called `System.exit`, which waits for the hooks). What
kinds of client do differently is in `NeverListens`, `Replaces`, `Drops`, `Removals` and `HookExits`: only the full and the
test provider take entries back, as the basic provider inherits a shutdown that does not. The
C++ ProviderExample is the kind `example`: every answer but 201 makes `registerSensor` remove the entry and
register again, and `main` then sleeps for ever (`returned` when registered, `orphan` when not). Its
removal is taken to reach the entry it registered, as in `ProviderRegistration`; libcurl is given no
timeout there, and a request is assumed to return all the same. The core systems are external:
the Service Registry refuses an entry it lists, the others may take it again; until they are
reliable a request fails, gets lost, loses its answer, or is handled after the client gave up
(`HandleLate`). `stray` has the entries last changed by such a request. `Start` needs that no process of
the client has its port. REST resources, TLS set-up and errors of stdin are left out.

## 4. Runs

| run | instance | shows |
|---|---|---|
| `consumer_safety` | 2 consumers, 3 connections, 1 timeout, flags in either order; 744k states up to symmetry | `TypeOK`, `OneReceiverPerConsumer`, `ReceiversAreOwned`, `DefaultEntryIsTransient`, `AbortOnlyByEarlyData`, `ExitIsTidy` |
| `consumer_live` | 1 consumer, 2 connections, 2 timeouts, flags in order, fair; 12k states | `NoCircularWait`, `AbandonedEntryIsFrozen`, `DroppedConsumerIsErased`, `PacketIsAnswered`, `ExitCompletes` |
| `provider_single` | 2 secure sensors, one on UDP and one on HTTPS, fair; 40k states | `TypeOK`, `KnownSensorIsRegistered`, `StoresLatestValue`, `SafeUntilShutdown`, `ExitIsOrderly`, `EnabledSensorIsRegistered` |
| `whitelist_refresh` | 2 sensors, 5 files, fair; 15k states | `TypeOK`, `ImplementsAllowList`, `FollowsFile`, `RefreshEnds` |
| `http_requests` | 1 connection to each server, 2 requests each, bodies of up to 2 pieces, 9 credentials, 3 grants, clock to 2, fair; 303k states | `TypeOK`, `BlocksAreOwned`, `UndefinedHasTwoCauses`, `AnswersAreAuthorised`, `AuthorisedIsAnswered`, `ImplementsRequestServer` |
| `monitored_pool` | 2 threads, 2 requests, fair; 206k states | `TypeOK`, `EarlyEndIsExchange`, `WaitIsAnswered`, `LogIsOfItsRequest`, `StallIsStarvation`, `CalculationEnds`, `StopReleases` |
| `clients_lives` | a client in any of 8 configurations and a basic provider that may announce the same entry, 1 late request at a time, 1 crash, fair; 259k states | `TypeOK`, `AnnouncedIsListed`, `ShutdownRemoves`, `StopEnds`, `StartRecovers` |
| `consumer_active` | as consumer_safety, flags in order | violated: an entry without a live thread stays for ever |
| `consumer_reply` | same | violated: a known consumer is sent empty strings |
| `provider_shared` | 1 sensor on two threads | violated: the table has a sensor the registry does not list |
| `provider_basic` | 1 sensor P, 1 sensor PS, fair | violated: the P sensor is never registered |
| `provider_disabled` | 2 secure sensors, fair | violated: a sensor taken from the whitelist is kept |

Bounds. Two consumers are needed for the key order of `getConsumerLastValue`; a consumer needs
two connections for its own reaper to meet a second receiver, and the third lets the
other consumer run beside them. Two timeouts in place of 30 distinguish the last from
the others; `consumer_safety` has one (two give 2.0M states and the same result) and the
theorems have any number. Two sensors make the two threads interleave on one registry and give
`unregisterAllProvider` a walk. The files of the whitelist grow, shrink, swap, repeat a row, have a
bad row and a blank first line; the editor adds each prefix, cut or not. Connections are
the only bound on behaviour: a run may use each once, so a packet that needs a new
one after that stays in `OrchestrationFails`. In `http_requests` the second request of a connection shows
that a context is not taken over; two pieces tell a part of a body from the whole; the tokens
differ from one in order by what a single check looks at, the names have two parts, one or no
certificate behind them, and the clock passes an expiry. Two threads and two requests let captures, calculations and subtasks of different
requests fill the pool, a stop end the capture of the other request, packets of the second get into the queue of the
first, and two waiting calculations starve each other; a third request or thread makes the run
too long, and the theorems have any number of both. In
`clients_lives` the configurations cover every kind of client, both ways to stop and one and two
entries. Deadlock is not checked: all programs end (exit, abort), and so do the servers, and the
monitored consumer at the end of its input.

Fairness. Threads are scheduled, and a free mutex is granted to a thread that keeps asking
(strong fairness, as it is taken in between). `connect`, `recv` (one second of SO_RCVTIMEO) and the
requests to the core systems return. In `provider_single` a sensor keeps sending, which motes do
periodically, and its measurements are accepted in turn with the GETs on the same thread.
Opening an existing file does not fail for ever. A pass of a server's thread is made and the
connection timeout of 120 s comes; the client is not assumed to do anything. Requests of
the Java clients return (30 s timeouts), the threads of the pool are scheduled, and a capture looks at its
break flag again (the native loop wakes with a packet or its read timeout; assumed, its code is a binary). An operator or a supervisor starts a client that is off and kills one that has failed;
no fairness makes him stop one. No fairness makes an operator type a command or,
on the consumer side, a mote send a packet.

`ExitCompletes` and `DroppedConsumerIsErased` except one situation by name, `ShutdownDeadlock`:
`deleteAllConsumer` joins under the mutex a receiver that waits for it. That can happen and is listed
as a hazard; the properties say that it is the only way for exit to hang after the mote
thread has stopped, and that nothing else keeps a dropped consumer in the table. In the same way
`ExitIsTidy` names why a socket is open after exit (timeouts, a failed connect), `CalculationEnds`
names the starved pool, `UndefinedHasTwoCauses` a client's name and the awaited body of a GET, `StopEnds` the hook that hangs, and
`AnnouncedIsListed` the dropped error of the test provider and late requests: each is reachable, and the
property is violated without the exception.

## 5. Proofs

All theorems hold for every value of the constants under the named assumptions of the
modules (disjoint thread names, `Secure` and `Complete` sets of sensors and the like).

- `ConsumerTableProofs`. `TypeInv` adds to `TypeOK` what each program counter says of its
  thread's variables. `ReceiversAreOwned` is not inductive alone: it needs that an entry's thread is
  stored under its own consumer (`EntryThread`) and that no entry has a thread for the
  consumer being inserted (`FreshInsertion`): what `consumerExists` said stays true
  because the UDP thread alone gives an entry a thread. `OneReceiver` follows. `AbortCause` says that the
  insertion fails only on a default entry. `ReaperJoinIsSafe` needs who keeps the mutex
  (`HolderState`), what a pair of flags means when stores are in order (`FlagsInOrder`), and that a
  reaper with work left finds its own receiver, or that receiver is being inserted
  (`ReaperFindsItsReceiver`); it is what excludes a second deadlock. `WaitsAreAcyclic` adds what
  `insertNewConsumer` and `deleteAllConsumer` wait for (`PublishState`: a receiver in the table has stored its
  flag), so that the only cycle of waits is the deadlock of exit. `AbandonedForGood` and `ReaperErasesItsOwn` are
  action properties from the same invariant: an entry inserted after its reaper ran is touched by
  nobody until exit, and any other entry whose receiver has ended goes by its own reaper. `ExitTidiesUp`
  needs what a receiver's program counter says of its socket (`SocketState`).
- `ProviderRegistrationProofs`. `TableIsSafe`: what a thread learnt from `sensorExists` holds until
  shutdown, since nothing is erased before. `KnownIsRegistered` and `LatestIsStored` assume
  `SingleRoute`; without it the first is false (run `provider_shared`). Their invariant says that a sensor being
  registered is not in the table and that its measurement is the latest. `ProgramEnds`: `exit` joins the UDP
  thread before it destroys anything (`ExitState`), and `unregister` always aborts. `PlainSensorNeverKnown`
  turns the run `provider_basic` into a fact: only sensors the registration code accepts are ever in the
  table. `RegistrationGoesThrough` is `EnabledSensorIsRegistered` without its fairness, under `SingleRoute` and
  a registry that does not compare the port; `StaleListingBlocks` says what happens with one that does
  (`StrictRemove`): what an earlier run left listed keeps its sensor out for ever.
- `WhiteListProofs`. `TypeCorrect` needs that a load starts with an empty `csvList`, and
  then that `csvList` is part of the table. `RefinesAllowList`: every step implements `AllowList` or stutters. The
  lemmas `ParsesStep` and `RowsStep` say what the first line of a file adds to the goal; `SameSize`
  is why comparing sizes is enough for the loop to be right: a finite set with a subset of the same
  size is that subset. `SafeFilesNeverAbort` needs that no part of a file the editor writes, lines cut short included, puts a blank
  line before the version line (`HeaderInv`). `LoadsAreFaithful` carries through a load what the table and `csvList` will be at its end
  (`Loading`), `AgreementStays` that a table that agrees with the file is left alone (`Agrees`): together `FollowsFile`
  without its fairness. `LoadsAreFinite` gives the measure of `RefreshEnds`, the stage of the load and what is left of it.
- `HttpServersProofs`. `Context` says what `*con_cls` can be in each state: the static only in a GET
  that is in a pass, waits for its body or is called again, a con_info only in the POST with its number; `Shape` what the
  state says of request, pieces and answer. With these `request_completed` frees exactly the con_info of
  the request that ends (`MemoryIsOwned`), but for a GET whose body is awaited; that and the name of a client are
  the only ways to undefined behaviour (`UndefinedBehaviourIsKnown`, with the lemma `FreesOtherCause`). `AuthorisedAnswers` uses the assumption that only the
  Authorization system signs (`GrantsAssumption`). `RefinesRequestServer`: every step is one of `RequestServer` or a stutter.
  `AuthorisedIsServed` follows a request in order (`OnItsWay`): its own calls bring it on (`OwnCall`), those of other
  connections leave it where it is (`OthersCall`), and only the expiry of its token, the stop of the server or undefined behaviour
  (caused by another request) keeps it from its value. `RequestsCanEnd`: in no state is a request
  left without a call the handler has a branch for. `AnswersFollowMeasurements` counts what was handed on.
- `MonitoredConsumerProofs`. `Unique` (no task is twice in the pool) and `Origin` (where a task comes from) make what is in
  the pool countable. That a request keeps its own capture until its stop is false, as any capture may
  take a flag; the invariant counts instead: while a request is outstanding a capture is left for its stop, and one more for a flag
  still to be seen (`StopsAreOutnumbered`), hence `EarlyEndsAreExchanges`. `LogsAreOfTheirRequests` needs that the
  packets of a queue are from after its request was sent (`Fresh`), and that a calculation that logs has had both
  outcomes (`Progress`, `Logged`). `WaitsAreAnswered` needs what a future says of its subtask (`Futures`) and
  of the calculation (`Progress`), and after shutdown that every thread with a task is interrupted (`Shutdown`).
  `CanGo` is the guard of a thread of the pool. `OnlyStarvationStalls`: a calculation waits only for a
  subtask it has handed over (`WaitsAreOrdered`), so while a calculation is in the pool a thread can go on unless all are held by
  calculations whose subtasks are queued and captures that wait for a stop. `StarvationIsPermanent`: no thread
  of the pool ends that. `StarvationNeedsRequests`: a request fills two threads at most, so the shipped pool of
  five (`ConsumerMain`) cannot starve before the third; TLC finds that it can starve there.
- `ServiceClientsProofs`. `Progress` adds to what holds at the end of a start or stop what holds in the
  middle: the announcements before the current one are done, the removals before it gone. `OthersStep`
  and `Stable` say that another client and a late request take nothing back, if no entry is shared. With core systems
  that answer, `SafeStartSucceeds` says that no answer to a client's service entry ends its start with an
  exception (the providers announce one service, `OneService`; the entry is one no late request has changed),
  and `StopsComplete` that no removal ends a stop with one.

Only model-checked: that what can happen does happen, so everything that rests on fairness
(`DroppedConsumerIsErased`, `PacketIsAnswered`, `ExitCompletes`, `EnabledSensorIsRegistered`, `FollowsFile`, `RefreshEnds`,
`CalculationEnds`, `StopReleases`, `AuthorisedIsAnswered`, `StopEnds`, `StartRecovers`, the fairness of `AllowList` and
`RequestServer`), as the prover handles neither ENABLED nor liveness under it. Of most of them the safety half
is proved, that no step leads off the way to the goal and that somebody can go on:

| checked under fairness | proved for every instance |
|---|---|
| `DroppedConsumerIsErased` | `ReaperErasesItsOwn`, `WaitsAreAcyclic` |
| `PacketIsAnswered`, `ExitCompletes` | `WaitsAreAcyclic` |
| `EnabledSensorIsRegistered` | `RegistrationGoesThrough` |
| `FollowsFile`, `RefreshEnds` | `LoadsAreFaithful`, `AgreementStays`, `LoadsAreFinite` |
| `CalculationEnds` | `OnlyStarvationStalls`, `StarvationIsPermanent` |
| `AuthorisedIsAnswered`, fairness of `RequestServer` | `AuthorisedIsServed`, `RequestsCanEnd` |
| `StopEnds`, `StartRecovers` | `StopsComplete`, `SafeStartSucceeds` |

## 6. Findings

Each is a run that TLC finds violated, and the comment, header or manual it contradicts is
quoted in `PROJECT.json`: `getConsumerLastValue` looks at the first consumer only; a
connection that ends at once leaves a dead entry; two threads
registering one sensor can undo each other's registration; P sensors are never
registered; a sensor taken from the whitelist stays registered.

Seen while reading and not checked by a run: the shipped `config/whitelist.csv` has CRLF line ends, so
its version line is refused on Linux (`SA/Adapter/Provider/WhiteList.cpp:113`); the GET callbacks pass mote and sensor
ID to `getServiceInterface` in the other order than registration does (`SA/Adapter/SensorHandler.cpp:590` against 399);
`deregisterSensor` sends another service URI than registration (549 against 457).

Seen while modelling, and present in the models as the named exceptions of section 4: a receiver that ends by timeouts
leaves its socket open (`SA/Adapter/Consumer/ConsumerTable.cpp:346`); a client without certificate, or
with a name of one part, makes `Callback_Serve_HTTPs_GET` read past a vector (`SensorHandler.cpp:720`); a client that
declares a body for a GET and closes before it is sent makes `request_completed` free a static (`Http_Handler.cpp:148,218-235`); a daemon that gets TERM calls `System.exit` in its hook and
does not end (`ArrowheadClientMain.java:98,185`); calculations can fill the pool whose subtasks they wait for
(`CalculationThread.java:86`); a stop can end the capture of another request
(`Stub.java:67,90,98`); the texts `"error"` and `""` are logged as a loss (`CalculationThread.java:124,140-143`); the test provider reports a failed insecure registration as successful
(`ProviderMain.java:229-236`); the subscriber never unsubscribes (`SubscriberMain.java:52`). Two more
are left open by the properties: after an exception of its input the consumer's main thread joins a thread nobody has told to end
(`ConsumerMain.java:148-150`; `StopReleases` starts from a cleared flag), and a basic provider that stops stays listed, as
`ArrowheadClientMain.java:180-186` removes nothing (`ShutdownRemoves` is about the kinds that remove).

## 7. Not modelled

The Windows branches; the inside of JSON, curl, OpenSSL and, except for what `connection.c` does with a request, libmicrohttpd; MQTT translation, which only starts a
command; the configuration readers, whose result is a constant read once; `Tcp_Handler.cpp`, which nothing
calls; the destruction of the tables while reapers run (plan, 7); the C++ ConsumerExample (one orchestration
request, then one GET) and the servers of ProviderExample, which repeat the adapter's (plan, 9); the REST resources, data classes, filters and TLS set-up of the Java clients,
which keep no state; native packet capture; the text of measurements and tokens (plan, 8); real time.
