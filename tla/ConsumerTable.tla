--------------------------- MODULE ConsumerTable ---------------------------
(***************************************************************************)
(* The consumer side of the SensorAdapter: the table of active consumers   *)
(* (ConsumerTable.cpp), the TCP receiver thread of each consumer, the      *)
(* reaper thread a receiver starts when its connection ends, the UDP mote  *)
(* thread that serves consumers (SensorHandler::processConsumer and        *)
(* Callback_OrchestrationResponse) and the main thread's "exit" command.   *)
(*                                                                         *)
(* A critical section of m_ConsumerTable in which nothing can block is one *)
(* action.  Only a reaper and deleteAllConsumer hold the mutex while they  *)
(* wait (they join a thread under it), so only they appear in `holder'.    *)
(***************************************************************************)
EXTENDS Naturals

CONSTANTS
  Consumers,     \* consumer IDs, numbered in the key order of the std::map
  Conns,         \* receiver threads; each call that starts one takes a fresh
                 \* one, so Cardinality(Conns) bounds the connections of a run
  MaxTimeouts,   \* timeouts in a row that end a connection (30 in the code)
  StoresInOrder, \* FALSE: the stores to the two plain bools the caller polls
                 \* may become visible in either order (a data race; the
                 \* adapter is built for the Raspberry Pi 3)
  Main,          \* the main thread, as a holder of the mutex
  NoThread       \* no thread: a free mutex, a std::thread that is not joinable,
                 \* a thread variable or consumer variable not set yet

ASSUME ConsumersAssumption == Consumers \subseteq Nat
ASSUME TimeoutsAssumption == MaxTimeouts \in Nat \ {0}
ASSUME StoresAssumption == StoresInOrder \in BOOLEAN
ASSUME ThreadsAssumption == Main \notin Conns /\ NoThread \notin Conns /\ Main # NoThread
ASSUME NoConsumerAssumption == NoThread \notin Consumers

VARIABLES
  process,     \* "running", or "terminated" by std::terminate
  table,       \* keys of consumerTable
  handle,      \* ConsumerInterfaceThread of each entry
  lastValue,   \* lastValue of each entry
  holder,      \* the thread that holds m_ConsumerTable across steps
  recv,        \* program counter of each receiver thread
  consumerOf,  \* _consumerID of each receiver thread
  ready,       \* _ready of each receiver thread
  started,     \* _rbthreadStartedSuccessfully of each receiver thread
  timeouts,    \* numberOfTimeouts of each receiver thread
  sock,        \* the TCP socket of each receiver thread
  reaper,      \* program counter of the reaper each receiver may start
  udp,         \* program counter of the UDP mote thread
  udpId,       \* sConsumerID: the consumer being served
  udpConn,     \* cInfo.ConsumerInterfaceThread: the thread being inserted
  udpValue,    \* the value read for the reply
  reply,       \* what the last sendto of the current packet carried
  moteEnabled, \* MoteInterface::enableOperation
  main         \* program counter of the main thread

tableVars == <<table, handle, lastValue>>
recvVars  == <<recv, consumerOf, ready, started, timeouts, sock>>
udpVars   == <<udp, udpId, udpConn, udpValue, reply>>
mainVars  == <<moteEnabled, main>>
vars == <<process, tableVars, holder, recvVars, reaper, udpVars, mainVars>>

----------------------------------------------------------------------------
(* What the threads' counters and the data range over.                     *)

RecvPC == {"unused", "connecting", "publishing", "receiving", "update",
           "lockOnly", "returning", "exited"}
ReaperPC == {"none", "spawned", "joining", "done"}
UdpPC == {"idle", "readValue", "readType", "orchestrate", "waitReady",
          "insert", "readNew", "join", "stopped"}
MainPC == {"running", "stopping", "deleting", "joining", "done"}

\* "blank": empty strings; "initial": x=0.0..., "zero": x=0..., "data": received
Values == {"blank", "initial", "data"}
Replies == Values \cup {"none", "zero"}

Free == holder = NoThread
Running == process = "running"

\* A receiver thread that has been created and has not returned.
Live(c) == recv[c] \notin {"unused", "exited"}

\* A receiver thread inside its recv loop.
Serving(c) == recv[c] \in {"receiving", "update", "lockOnly"}

\* The reaper that receiver thread c started has not erased an entry yet.
Reaping(c) == reaper[c] \in {"spawned", "joining"}

\* The UDP thread is inside insertNewConsumer, between creating thread
\* udpConn and either moving it into the table or joining it.
Inserting == udp \in {"waitReady", "insert", "join"}

----------------------------------------------------------------------------
Init ==
  /\ process = "running"
  /\ table = {}
  /\ handle = [i \in Consumers |-> NoThread]
  /\ lastValue = [i \in Consumers |-> "blank"]
  /\ holder = NoThread
  /\ recv = [c \in Conns |-> "unused"]
  /\ consumerOf = [c \in Conns |-> NoThread]
  /\ ready = [c \in Conns |-> FALSE]
  /\ started = [c \in Conns |-> FALSE]
  /\ timeouts = [c \in Conns |-> 0]
  /\ sock = [c \in Conns |-> "none"]
  /\ reaper = [c \in Conns |-> "none"]
  /\ udp = "idle"
  /\ udpId = NoThread
  /\ udpConn = NoThread
  /\ udpValue = "blank"
  /\ reply = "none"
  /\ moteEnabled = TRUE
  /\ main = "running"

----------------------------------------------------------------------------
(* The UDP mote thread.                                                    *)

\* Handling of the packet ends: back to the loop test of processIncomingPacket.
PacketDone(answer) ==
  /\ udp' = IF moteEnabled THEN "idle" ELSE "stopped"
  /\ udpId' = NoThread
  /\ udpConn' = NoThread
  /\ udpValue' = "blank"
  /\ reply' = answer

\* A packet that leaves the consumer side alone (a provider's, a malformed
\* one): it only makes the loop test enableOperation again.
OtherPacket ==
  /\ Running
  /\ udp = "idle"
  /\ PacketDone("none")
  /\ UNCHANGED <<process, tableVars, holder, recvVars, reaper, mainVars>>

\* Mutant: every packet asks the orchestrator, known consumer or not.
ProcessConsumerUnchecked(i) ==
  /\ Running
  /\ udp = "idle"
  /\ Free
  /\ udp' = "orchestrate"
  /\ udpId' = i
  /\ reply' = "none"
  /\ UNCHANGED <<process, tableVars, holder, recvVars, reaper, udpConn, udpValue, mainVars>>

\* processConsumer up to consumerExists.
ProcessConsumer(i) ==
  /\ Running
  /\ udp = "idle"
  /\ Free
  /\ udp' = IF i \in table THEN "readValue" ELSE "orchestrate"
  /\ udpId' = i
  /\ reply' = "none"
  /\ UNCHANGED <<process, tableVars, holder, recvVars, reaper, udpConn, udpValue, mainVars>>

\* getConsumerLastValue returns after the first entry of the map, whether or
\* not it is the one asked for.
ReadLastValue(i) ==
  IF i \in table /\ \A j \in table : i <= j THEN lastValue[i] ELSE "blank"

\* processConsumer: getConsumerLastValue of a known consumer.
ReadValue ==
  /\ Running
  /\ udp = "readValue"
  /\ Free
  /\ udpValue' = ReadLastValue(udpId)
  /\ udp' = "readType"
  /\ UNCHANGED <<process, tableVars, holder, recvVars, reaper, udpId, udpConn, reply, mainVars>>

\* processConsumer: getConsumerInterfaceType, then sendto.  An erased entry has
\* the type UNKNOWN and a default one the type 0 (UDP): nothing is sent.
ReadTypeAndReply ==
  /\ Running
  /\ udp = "readType"
  /\ Free
  /\ PacketDone(IF udpId \in table /\ handle[udpId] # NoThread THEN udpValue ELSE "none")
  /\ UNCHANGED <<process, tableVars, holder, recvVars, reaper, mainVars>>

\* No request form, no usable response, or an interface other than
\* TCPRobotArm, for which insertNewConsumer returns false.
OrchestrationFails ==
  /\ Running
  /\ udp = "orchestrate"
  /\ PacketDone("none")
  /\ UNCHANGED <<process, tableVars, holder, recvVars, reaper, mainVars>>

\* Callback_OrchestrationResponse calls insertNewConsumer, which starts c.
StartReceiver(c) ==
  /\ Running
  /\ udp = "orchestrate"
  /\ recv[c] = "unused"
  /\ recv' = [recv EXCEPT ![c] = "connecting"]
  /\ consumerOf' = [consumerOf EXCEPT ![c] = udpId]
  /\ udpConn' = c
  /\ udp' = "waitReady"
  /\ UNCHANGED <<process, tableVars, holder, ready, started, timeouts, sock, reaper,
                 udpId, udpValue, reply, mainVars>>

\* The polling loop ends and threadStartedSuccessfully is read.
ReadyObserved ==
  /\ Running
  /\ udp = "waitReady"
  /\ ready[udpConn]
  /\ udp' = IF started[udpConn] THEN "insert" ELSE "join"
  /\ UNCHANGED <<process, tableVars, holder, recvVars, reaper,
                 udpId, udpConn, udpValue, reply, mainVars>>

\* consumerTable.insert leaves an existing entry alone; the pair that owns the
\* thread is then destroyed with a joinable thread, which calls std::terminate.
InsertConsumer ==
  /\ Running
  /\ udp = "insert"
  /\ Free
  /\ IF udpId \in table
     THEN /\ process' = "terminated"
          /\ UNCHANGED <<tableVars, udp>>
     ELSE /\ table' = table \cup {udpId}
          /\ handle' = [handle EXCEPT ![udpId] = udpConn]
          /\ lastValue' = [lastValue EXCEPT ![udpId] = "initial"]
          /\ udp' = "readNew"
          /\ UNCHANGED process
  /\ UNCHANGED <<holder, recvVars, reaper, udpId, udpConn, udpValue, reply, mainVars>>

\* Callback_OrchestrationResponse: getConsumerLastValue of the new consumer,
\* sent whatever it holds.
ReplyToNew ==
  /\ Running
  /\ udp = "readNew"
  /\ Free
  /\ PacketDone(ReadLastValue(udpId))
  /\ UNCHANGED <<process, tableVars, holder, recvVars, reaper, mainVars>>

\* insertNewConsumer joins a thread that did not start; zeros are sent.
JoinFailed ==
  /\ Running
  /\ udp = "join"
  /\ recv[udpConn] = "exited"
  /\ PacketDone("zero")
  /\ UNCHANGED <<process, tableVars, holder, recvVars, reaper, mainVars>>

UdpStep ==
  \/ ReadValue \/ ReadTypeAndReply \/ OrchestrationFails
  \/ \E c \in Conns : StartReceiver(c)
  \/ ReadyObserved \/ InsertConsumer \/ ReplyToNew \/ JoinFailed

----------------------------------------------------------------------------
(* A receiver thread: createTCPRobotArmInterface, the Linux branch.        *)

\* Mutant: a failed connect returns without telling insertNewConsumer.
ConnectFailsSilently(c, s) ==
  /\ Running
  /\ recv[c] = "connecting"
  /\ sock' = [sock EXCEPT ![c] = s]
  /\ recv' = [recv EXCEPT ![c] = "returning"]
  /\ UNCHANGED <<process, tableVars, holder, consumerOf, ready, started, timeouts, reaper,
                 udpVars, mainVars>>

\* socket() or connect() fails: only _ready is stored, and a socket that was
\* created stays open.
ConnectFails(c, s) ==
  /\ Running
  /\ recv[c] = "connecting"
  /\ sock' = [sock EXCEPT ![c] = s]
  /\ ready' = [ready EXCEPT ![c] = TRUE]
  /\ recv' = [recv EXCEPT ![c] = "returning"]
  /\ UNCHANGED <<process, tableVars, holder, consumerOf, started, timeouts, reaper, udpVars, mainVars>>

ConnectSucceeds(c) ==
  /\ Running
  /\ recv[c] = "connecting"
  /\ sock' = [sock EXCEPT ![c] = "open"]
  /\ recv' = [recv EXCEPT ![c] = "publishing"]
  /\ UNCHANGED <<process, tableVars, holder, consumerOf, ready, started, timeouts, reaper,
                 udpVars, mainVars>>

\* The store to _rbthreadStartedSuccessfully becomes visible.
StoreStarted(c) ==
  /\ Running
  /\ recv[c] = "publishing"
  /\ ~started[c]
  /\ started' = [started EXCEPT ![c] = TRUE]
  /\ recv' = [recv EXCEPT ![c] = IF ready[c] THEN "receiving" ELSE @]
  /\ UNCHANGED <<process, tableVars, holder, consumerOf, ready, timeouts, sock, reaper,
                 udpVars, mainVars>>

\* Mutant: lines 297 and 298 swapped, _ready is stored first.
StoreReadyFirst(c) ==
  /\ Running
  /\ recv[c] = "publishing"
  /\ ~ready[c]
  /\ ready' = [ready EXCEPT ![c] = TRUE]
  /\ recv' = [recv EXCEPT ![c] = IF started[c] THEN "receiving" ELSE @]
  /\ UNCHANGED <<process, tableVars, holder, consumerOf, started, timeouts, sock, reaper,
                 udpVars, mainVars>>

\* The store to _ready becomes visible.
StoreReady(c) ==
  /\ Running
  /\ recv[c] = "publishing"
  /\ ~ready[c]
  /\ StoresInOrder => started[c]
  /\ ready' = [ready EXCEPT ![c] = TRUE]
  /\ recv' = [recv EXCEPT ![c] = IF started[c] THEN "receiving" ELSE @]
  /\ UNCHANGED <<process, tableVars, holder, consumerOf, started, timeouts, sock, reaper,
                 udpVars, mainVars>>

\* recv returns data; with no complete field in it the update below takes the
\* mutex and changes nothing.
ReceiveData(c, next) ==
  /\ Running
  /\ recv[c] = "receiving"
  /\ timeouts' = [timeouts EXCEPT ![c] = 0]
  /\ recv' = [recv EXCEPT ![c] = next]
  /\ UNCHANGED <<process, tableVars, holder, consumerOf, ready, started, sock, reaper,
                 udpVars, mainVars>>

\* consumerTable[_consumerID].lastValue = ...: operator[] adds a default entry
\* when there is none.
UpdateLastValue(c) ==
  LET i == consumerOf[c] IN
  /\ Running
  /\ recv[c] = "update"
  /\ Free
  /\ table' = table \cup {i}
  /\ lastValue' = [lastValue EXCEPT ![i] = "data"]
  /\ recv' = [recv EXCEPT ![c] = "receiving"]
  /\ UNCHANGED <<process, handle, holder, consumerOf, ready, started, timeouts, sock, reaper,
                 udpVars, mainVars>>

LockOnly(c) ==
  /\ Running
  /\ recv[c] = "lockOnly"
  /\ Free
  /\ recv' = [recv EXCEPT ![c] = "receiving"]
  /\ UNCHANGED <<process, tableVars, holder, consumerOf, ready, started, timeouts, sock, reaper,
                 udpVars, mainVars>>

\* Mutant: a closed connection ends the receiver and starts no reaper.
DisconnectedUnreaped(c) ==
  /\ Running
  /\ recv[c] = "receiving"
  /\ sock' = [sock EXCEPT ![c] = "closed"]
  /\ recv' = [recv EXCEPT ![c] = "returning"]
  /\ UNCHANGED <<process, tableVars, holder, consumerOf, ready, started, timeouts, reaper,
                 udpVars, mainVars>>

\* Mutant: the reaper is started, the socket is not closed.
DisconnectedUnclosed(c) ==
  /\ Running
  /\ recv[c] = "receiving"
  /\ reaper' = [reaper EXCEPT ![c] = "spawned"]
  /\ recv' = [recv EXCEPT ![c] = "returning"]
  /\ UNCHANGED <<process, tableVars, holder, consumerOf, ready, started, timeouts, sock,
                 udpVars, mainVars>>

\* recv returns 0: the socket is closed and a reaper started.
Disconnected(c) ==
  /\ Running
  /\ recv[c] = "receiving"
  /\ sock' = [sock EXCEPT ![c] = "closed"]
  /\ reaper' = [reaper EXCEPT ![c] = "spawned"]
  /\ recv' = [recv EXCEPT ![c] = "returning"]
  /\ UNCHANGED <<process, tableVars, holder, consumerOf, ready, started, timeouts, udpVars, mainVars>>

\* Mutant: the limit is tested before the timeout is counted.
TimedOutLate(c) ==
  /\ Running
  /\ recv[c] = "receiving"
  /\ timeouts' = [timeouts EXCEPT ![c] = @ + 1]
  /\ IF timeouts[c] = MaxTimeouts
     THEN /\ reaper' = [reaper EXCEPT ![c] = "spawned"]
          /\ recv' = [recv EXCEPT ![c] = "returning"]
     ELSE UNCHANGED <<reaper, recv>>
  /\ UNCHANGED <<process, tableVars, holder, consumerOf, ready, started, sock, udpVars, mainVars>>

\* Mutant: the limit restarts the count instead of ending the receiver.
TimedOutForever(c) ==
  /\ Running
  /\ recv[c] = "receiving"
  /\ timeouts' = [timeouts EXCEPT ![c] = (@ + 1) % MaxTimeouts]
  /\ UNCHANGED <<process, tableVars, holder, recv, consumerOf, ready, started, sock, reaper,
                 udpVars, mainVars>>

\* recv returns -1, a timeout or any other error; the last one allowed starts
\* a reaper and leaves the socket open.
TimedOut(c) ==
  /\ Running
  /\ recv[c] = "receiving"
  /\ timeouts' = [timeouts EXCEPT ![c] = @ + 1]
  /\ IF timeouts[c] + 1 = MaxTimeouts
     THEN /\ reaper' = [reaper EXCEPT ![c] = "spawned"]
          /\ recv' = [recv EXCEPT ![c] = "returning"]
     ELSE UNCHANGED <<reaper, recv>>
  /\ UNCHANGED <<process, tableVars, holder, consumerOf, ready, started, sock, udpVars, mainVars>>

Return(c) ==
  /\ Running
  /\ recv[c] = "returning"
  /\ recv' = [recv EXCEPT ![c] = "exited"]
  /\ UNCHANGED <<process, tableVars, holder, consumerOf, ready, started, timeouts, sock, reaper,
                 udpVars, mainVars>>

Connect(c) == ConnectSucceeds(c) \/ \E s \in {"none", "open"} : ConnectFails(c, s)

\* What recv can return, the scheduler and the server permitting.
Recv(c) ==
  (\E next \in {"update", "lockOnly"} : ReceiveData(c, next)) \/ Disconnected(c) \/ TimedOut(c)

----------------------------------------------------------------------------
(* A reaper: the lambda of lines 317 and 335.                              *)

ReaperLock(c) ==
  /\ Running
  /\ reaper[c] = "spawned"
  /\ Free
  /\ holder' = c
  /\ reaper' = [reaper EXCEPT ![c] = "joining"]
  /\ UNCHANGED <<process, tableVars, recvVars, udpVars, mainVars>>

\* Mutant: the reaper detaches the thread instead of joining it.
ReaperDetaches(c) ==
  LET i == consumerOf[c] IN
  /\ Running
  /\ reaper[c] = "joining"
  /\ table' = table \ {i}
  /\ handle' = [handle EXCEPT ![i] = NoThread]
  /\ lastValue' = [lastValue EXCEPT ![i] = "blank"]
  /\ holder' = NoThread
  /\ reaper' = [reaper EXCEPT ![c] = "done"]
  /\ UNCHANGED <<process, recvVars, udpVars, mainVars>>

\* Mutant: the reaper joins the thread and forgets the erase.
ReaperKeepsEntry(c) ==
  /\ Running
  /\ reaper[c] = "joining"
  /\ handle[consumerOf[c]] # NoThread => recv[handle[consumerOf[c]]] = "exited"
  /\ holder' = NoThread
  /\ reaper' = [reaper EXCEPT ![c] = "done"]
  /\ UNCHANGED <<process, tableVars, recvVars, udpVars, mainVars>>

\* Joins the thread of the entry it finds under its consumer's ID, if that is
\* joinable, erases the entry and unlocks.
ReaperErase(c) ==
  LET i == consumerOf[c] IN
  /\ Running
  /\ reaper[c] = "joining"
  /\ handle[i] # NoThread => recv[handle[i]] = "exited"
  /\ table' = table \ {i}
  /\ handle' = [handle EXCEPT ![i] = NoThread]
  /\ lastValue' = [lastValue EXCEPT ![i] = "blank"]
  /\ holder' = NoThread
  /\ reaper' = [reaper EXCEPT ![c] = "done"]
  /\ UNCHANGED <<process, recvVars, udpVars, mainVars>>

----------------------------------------------------------------------------
(* The main thread's "exit" command.                                       *)

\* stopMoteUDPInterface clears enableOperation ...
StopMote ==
  /\ Running
  /\ main = "running"
  /\ main' = "stopping"
  /\ moteEnabled' = FALSE
  /\ UNCHANGED <<process, tableVars, holder, recvVars, reaper, udpVars>>

\* ... and joins the UDP thread.
MoteStopped ==
  /\ Running
  /\ main = "stopping"
  /\ udp = "stopped"
  /\ main' = "deleting"
  /\ UNCHANGED <<process, tableVars, holder, recvVars, reaper, udpVars, moteEnabled>>

\* deleteAllConsumer takes the mutex.  enableOperation of the entries, which
\* it clears, is read by nobody and is left out.
DeleteAllLock ==
  /\ Running
  /\ main = "deleting"
  /\ Free
  /\ holder' = Main
  /\ main' = "joining"
  /\ UNCHANGED <<process, tableVars, recvVars, reaper, udpVars, moteEnabled>>

\* It has joined the thread of every entry (the join of a default entry throws
\* and is caught), clears the table and unlocks.
DeleteAllClear ==
  /\ Running
  /\ main = "joining"
  /\ \A i \in table : handle[i] # NoThread => recv[handle[i]] = "exited"
  /\ table' = {}
  /\ handle' = [i \in Consumers |-> NoThread]
  /\ lastValue' = [i \in Consumers |-> "blank"]
  /\ holder' = NoThread
  /\ main' = "done"
  /\ UNCHANGED <<process, recvVars, reaper, udpVars, moteEnabled>>

MainStep == StopMote \/ MoteStopped \/ DeleteAllLock \/ DeleteAllClear

----------------------------------------------------------------------------
ReceiverStep(c) ==
  \/ Connect(c) \/ StoreStarted(c) \/ StoreReady(c) \/ Recv(c)
  \/ UpdateLastValue(c) \/ LockOnly(c) \/ Return(c)

Next ==
  \/ OtherPacket
  \/ \E i \in Consumers : ProcessConsumer(i)
  \/ UdpStep
  \/ \E c \in Conns : ReceiverStep(c) \/ ReaperLock(c) \/ ReaperErase(c)
  \/ MainStep

Spec == Init /\ [][Next]_vars

\* Every thread is scheduled, a free mutex is eventually granted to a thread
\* that keeps asking for it, and connect, recv (SO_RCVTIMEO is one second) and
\* the HTTP request to the orchestrator return.  Nothing makes the operator
\* type "exit" or a mote send a packet.
Fairness ==
  /\ SF_vars(UdpStep)
  /\ \A c \in Conns : /\ SF_vars(ReceiverStep(c))
                      /\ SF_vars(ReaperLock(c))
                      /\ WF_vars(ReaperErase(c))
  /\ WF_vars(MoteStopped)
  /\ SF_vars(DeleteAllLock)
  /\ WF_vars(DeleteAllClear)

FairSpec == Spec /\ Fairness

----------------------------------------------------------------------------
(* Properties.                                                             *)

\* Every variable has its type; in particular only a reaper or the main thread
\* ever keeps the mutex across a wait.
TypeOK ==
  /\ process \in {"running", "terminated"}
  /\ table \subseteq Consumers
  /\ handle \in [Consumers -> Conns \cup {NoThread}]
  /\ lastValue \in [Consumers -> Values]
  /\ holder \in Conns \cup {Main, NoThread}
  /\ recv \in [Conns -> RecvPC]
  /\ consumerOf \in [Conns -> Consumers \cup {NoThread}]
  /\ ready \in [Conns -> BOOLEAN]
  /\ started \in [Conns -> BOOLEAN]
  /\ timeouts \in [Conns -> 0..MaxTimeouts]
  /\ sock \in [Conns -> {"none", "open", "closed"}]
  /\ reaper \in [Conns -> ReaperPC]
  /\ udp \in UdpPC
  /\ udpId \in Consumers \cup {NoThread}
  /\ udpConn \in Conns \cup {NoThread}
  /\ udpValue \in Values
  /\ reply \in Replies
  /\ moteEnabled \in BOOLEAN
  /\ main \in MainPC

\* At most one receiver thread runs for a consumer, although consumerExists
\* and the insertion are separate critical sections with a request to the
\* orchestrator and the start of a thread between them.
OneReceiverPerConsumer ==
  \A c, d \in Conns :
    Live(c) /\ Live(d) /\ consumerOf[c] = consumerOf[d] => c = d

\* No running receiver is lost track of: insertNewConsumer still holds its
\* std::thread, or the entry of its own consumer does, so that a reaper or
\* deleteAllConsumer can join it.
ReceiversAreOwned ==
  \A c \in Conns : Live(c) =>
    \/ Inserting /\ udpConn = c
    \/ consumerOf[c] \in table /\ handle[consumerOf[c]] = c

\* An entry made by operator[] (no thread, no address) is never left behind: a
\* receiver of that consumer still runs its loop, or a reaper that will erase
\* the entry is on its way.
DefaultEntryIsTransient ==
  \A i \in table : handle[i] = NoThread =>
    \E c \in Conns : consumerOf[c] = i /\ (Serving(c) \/ Reaping(c))

\* When the two flags become visible in program order, a reaper that holds the
\* mutex waits only for a thread that no longer needs the mutex: the receiver
\* that started it.  It could otherwise wait for a later receiver of the same
\* consumer, which waits for the mutex.
ReaperWaitsForItsReceiver ==
  StoresInOrder =>
    \A c \in Conns : holder = c /\ handle[consumerOf[c]] # NoThread =>
      handle[consumerOf[c]] = c /\ recv[c] \in {"returning", "exited"}

\* The consumer side aborts the process in one case only: data was received,
\* and a default entry made for it, before insertNewConsumer reached the map.
\* It never does so because two threads were started for one consumer.
AbortOnlyByEarlyData ==
  ~Running => udpId \in table /\ handle[udpId] = NoThread /\ ready[udpConn]

\* SensorHandler.h:73 calls oConsumerTable the table of active consumers: an
\* entry has a receiver that still runs, or a reaper that will erase it.
ActiveConsumers ==
  \A i \in table : handle[i] # NoThread => Live(handle[i]) \/ Reaping(handle[i])

\* Adapter.cpp:52 says of deleteAllConsumer: "close TCP sockets...".  When it
\* is through, no receiver runs any more, joined or not, and the sockets still
\* open are of receivers that never connected or ran into their timeouts
\* (lines 221-225 and 346 return without close), of no other.
ExitIsTidy ==
  main = "done" => \A c \in Conns :
    /\ ~Live(c)
    /\ sock[c] = "open" => ~started[c] \/ timeouts[c] = MaxTimeouts

\* The manual (doc/SensorAdapter_20180529.docx) says that the adapter responds
\* to a known consumer with the last measured value: never with empty strings.
KnownConsumerGetsValue == [][ReadTypeAndReply => reply' # "blank"]_vars

\* deleteAllConsumer holds the mutex and waits for a receiver that waits for
\* the mutex to store the data it received.
ShutdownDeadlock ==
  main = "joining" /\ \E c \in Conns : recv[c] \in {"update", "lockOnly"}

\* A consumer whose connection has ended after it was inserted is erased, so
\* that its next packet orchestrates again; only an abort or the deadlock of
\* the exit command stops that.
DroppedConsumerIsErased ==
  \A c \in Conns, i \in Consumers :
    (reaper[c] = "spawned" /\ handle[i] = c) ~> (handle[i] # c \/ ~Running \/ ShutdownDeadlock)

\* Threads wait for one another in one direction only.  Whoever needs the mutex
\* waits for the thread that holds it; that thread, and insertNewConsumer in its
\* polling loop and its join, wait for a receiver that goes on by itself.  The
\* one exception is the deadlock of the exit command.
NoCircularWait ==
  StoresInOrder /\ Running =>
    /\ udp = "waitReady" => ready[udpConn] \/ recv[udpConn] \in {"connecting", "publishing"}
    /\ udp = "join" => recv[udpConn] \in {"returning", "exited"}
    /\ ReaperWaitsForItsReceiver
    /\ holder = Main => \A i \in table : handle[i] # NoThread =>
         recv[handle[i]] \in {"receiving", "returning", "exited"} \/ ShutdownDeadlock

\* A consumer whose receiver ended, and whose reaper had nothing to erase yet when
\* it ran, was inserted afterwards: the entry has a thread and nobody to end it.
Abandoned(i) ==
  handle[i] # NoThread /\ ~Live(handle[i]) /\ ~Reaping(handle[i])

\* What the breach of ActiveConsumers costs: such an entry is final.  No packet
\* makes the adapter ask the orchestrator again and no thread stores another
\* value, so the mote is answered with the value of that moment until the exit
\* command clears the table.
AbandonedEntryIsFrozen ==
  [][StoresInOrder =>
       \A i \in Consumers : Abandoned(i) =>
         \/ i \in table' /\ Abandoned(i)' /\ lastValue'[i] = lastValue[i]
         \/ main' = "done"]_vars

\* The UDP thread, which serves every mote, always comes back for the next
\* packet: neither the polling loop of insertNewConsumer, nor the join of a
\* failed thread, nor the mutex keeps it for ever.
PacketIsAnswered ==
  (udp \notin {"idle", "stopped"}) ~> (udp \in {"idle", "stopped"} \/ ~Running)

\* The exit command gets past deleteAllConsumer unless a receiver wants to
\* store data meanwhile: silent and closed connections end by themselves.
ExitCompletes ==
  (main = "joining") ~> (main = "done" \/ ShutdownDeadlock)

=============================================================================
