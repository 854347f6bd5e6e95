------------------------ MODULE ConsumerTableProofs ------------------------
(***************************************************************************)
(* Proofs about ConsumerTable, for any set of consumers and of receiver    *)
(* threads and any timeout limit.  The inductive invariant comes in        *)
(* layers: TypeInv says what each thread's variables mean at each of its   *)
(* program counters, ThreadOwned who owns a receiver thread, HolderState   *)
(* who keeps the mutex, FlagsInOrder and ReaperFindsItsReceiver what a     *)
(* reaper finds when the two start flags become visible in program order.  *)
(***************************************************************************)
EXTENDS ConsumerTable, TLAPS

----------------------------------------------------------------------------
(* The inductive invariant.                                                *)

\* A receiver that has not ended has timeouts left.
TimeoutsLeft ==
  \A c \in Conns : recv[c] \notin {"returning", "exited"} => timeouts[c] < MaxTimeouts

\* A receiver thread that was started knows its consumer; one that started a
\* reaper has left its loop.
ReceiverState ==
  \A c \in Conns :
    /\ recv[c] # "unused" => consumerOf[c] \in Consumers
    /\ reaper[c] # "none" => recv[c] \in {"returning", "exited"}

\* The UDP thread knows the consumer it serves and the thread it inserts.
UdpState ==
  /\ udp \notin {"idle", "stopped"} => udpId \in Consumers
  /\ Inserting => udpConn \in Conns /\ recv[udpConn] # "unused" /\ consumerOf[udpConn] = udpId
  /\ udp \in {"insert", "join"} => ready[udpConn]

TypeInv == TypeOK /\ TimeoutsLeft /\ ReceiverState /\ UdpState

\* An entry's thread is in the table under the thread's own consumer.
EntryThread ==
  \A i \in Consumers : handle[i] # NoThread =>
    i \in table /\ recv[handle[i]] # "unused" /\ consumerOf[handle[i]] = i

\* No entry has a thread for the consumer that is being inserted: what the UDP
\* thread learnt from consumerExists stays true until it inserts, because no
\* other thread gives an entry a thread.
FreshInsertion ==
  udp = "orchestrate" \/ Inserting => handle[udpId] = NoThread

ThreadOwned == EntryThread /\ FreshInsertion /\ ReceiversAreOwned

\* The mutex is kept across a wait by the reaper that joins, or by
\* deleteAllConsumer, after the UDP thread has stopped.
HolderState ==
  /\ \A c \in Conns : holder = c <=> reaper[c] = "joining"
  /\ main = "joining" => holder = Main
  /\ main \in {"deleting", "joining", "done"} => udp = "stopped"
  /\ main = "done" => \A i \in Consumers : handle[i] = NoThread

\* With stores in order, a flag pair read as (ready, not started) belongs to a
\* receiver whose connect failed.
FlagsInOrder ==
  StoresInOrder =>
    /\ \A c \in Conns :
         /\ ready[c] /\ ~started[c] => recv[c] \in {"returning", "exited"} /\ reaper[c] = "none"
         /\ Serving(c) => started[c]
         /\ reaper[c] # "none" => started[c]
    /\ udp = "join" => ~started[udpConn] /\ recv[udpConn] \in {"returning", "exited"}

\* With stores in order, a reaper that has work left finds its own receiver in
\* the table, or that receiver is being inserted, or the table was cleared.
ReaperFindsItsReceiver ==
  StoresInOrder =>
    \A c \in Conns : Reaping(c) =>
      \/ handle[consumerOf[c]] = c
      \/ udpConn = c /\ udp \in {"waitReady", "insert"}
      \/ main = "done"

ReapInv == TypeInv /\ ThreadOwned /\ HolderState /\ FlagsInOrder /\ ReaperFindsItsReceiver

----------------------------------------------------------------------------
(* Types and program counters.                                             *)

\* Every step keeps the types and what they rest on: a receiver never counts past
\* the limit because it leaves its loop when it reaches it.
LEMMA TypeInvStep == TypeInv /\ [Next]_vars => TypeInv'
<1> SUFFICES ASSUME TypeInv, [Next]_vars PROVE TypeInv'
  OBVIOUS
<1> USE TimeoutsAssumption, ThreadsAssumption, NoConsumerAssumption
       DEF TypeInv,
  TypeOK, TimeoutsLeft, ReceiverState, UdpState, Inserting, vars, tableVars, recvVars,
  udpVars, mainVars, RecvPC, ReaperPC, UdpPC, MainPC, Values, Replies
<1>1. CASE OtherPacket
  BY <1>1 DEF OtherPacket, PacketDone
<1>2. ASSUME NEW i \in Consumers, ProcessConsumer(i) PROVE TypeInv'
  BY <1>2 DEF ProcessConsumer
<1>3. CASE ReadValue
  BY <1>3 DEF ReadValue, ReadLastValue
<1>4. CASE ReadTypeAndReply
  BY <1>4 DEF ReadTypeAndReply, PacketDone, Replies
<1>5. CASE OrchestrationFails
  BY <1>5 DEF OrchestrationFails, PacketDone
<1>6. ASSUME NEW c \in Conns, StartReceiver(c) PROVE TypeInv'
  BY <1>6 DEF StartReceiver
<1>7. CASE ReadyObserved
  BY <1>7 DEF ReadyObserved
<1>8. CASE InsertConsumer
  BY <1>8 DEF InsertConsumer
<1>9. CASE ReplyToNew
  BY <1>9 DEF ReplyToNew, PacketDone, ReadLastValue, Replies
<1>10. CASE JoinFailed
  BY <1>10 DEF JoinFailed, PacketDone
<1>11. ASSUME NEW c \in Conns, NEW s \in {"none", "open"}, ConnectFails(c, s) PROVE TypeInv'
  BY <1>11 DEF ConnectFails
<1>12. ASSUME NEW c \in Conns, ConnectSucceeds(c) PROVE TypeInv'
  BY <1>12 DEF ConnectSucceeds
<1>13. ASSUME NEW c \in Conns, StoreStarted(c) PROVE TypeInv'
  BY <1>13 DEF StoreStarted
<1>14. ASSUME NEW c \in Conns, StoreReady(c) PROVE TypeInv'
  BY <1>14 DEF StoreReady
<1>15. ASSUME NEW c \in Conns, NEW next \in {"update", "lockOnly"}, ReceiveData(c, next) PROVE TypeInv'
  BY <1>15 DEF ReceiveData
<1>16. ASSUME NEW c \in Conns, UpdateLastValue(c) PROVE TypeInv'
  BY <1>16 DEF UpdateLastValue
<1>17. ASSUME NEW c \in Conns, LockOnly(c) PROVE TypeInv'
  BY <1>17 DEF LockOnly
<1>18. ASSUME NEW c \in Conns, Disconnected(c) PROVE TypeInv'
  BY <1>18 DEF Disconnected
<1>19. ASSUME NEW c \in Conns, TimedOut(c) PROVE TypeInv'
  BY <1>19 DEF TimedOut
<1>20. ASSUME NEW c \in Conns, Return(c) PROVE TypeInv'
  BY <1>20 DEF Return
<1>21. ASSUME NEW c \in Conns, ReaperLock(c) PROVE TypeInv'
  BY <1>21 DEF ReaperLock
<1>22. ASSUME NEW c \in Conns, ReaperErase(c) PROVE TypeInv'
  <2>1. consumerOf[c] \in Consumers
    BY <1>22 DEF ReaperErase
  <2>2. TypeOK'
    BY <1>22, <2>1 DEF ReaperErase
  <2>3. TimeoutsLeft' /\ UdpState'
    BY <1>22 DEF ReaperErase
  <2>4. ReceiverState'
    BY <1>22 DEF ReaperErase
  <2>5. QED
    BY <2>2, <2>3, <2>4
<1>23. CASE StopMote
  <2>1. TypeOK'
    <3>1. moteEnabled' \in BOOLEAN /\ main' \in MainPC
      BY <1>23 DEF StopMote
    <3>2. QED
      BY <1>23, <3>1 DEF StopMote
  <2>2. TimeoutsLeft' /\ ReceiverState' /\ UdpState'
    BY <1>23 DEF StopMote
  <2>3. QED
    BY <2>1, <2>2
<1>24. CASE MoteStopped
  BY <1>24 DEF MoteStopped
<1>25. CASE DeleteAllLock
  BY <1>25 DEF DeleteAllLock
<1>26. CASE DeleteAllClear
  BY <1>26 DEF DeleteAllClear
<1>27. CASE UNCHANGED vars
  BY <1>27
<1>28. QED
  BY <1>1, <1>2, <1>3, <1>4, <1>5, <1>6, <1>7, <1>8, <1>9, <1>10, <1>11, <1>12, <1>13,
    <1>14, <1>15, <1>16, <1>17, <1>18, <1>19, <1>20, <1>21, <1>22, <1>23, <1>24,
    <1>25, <1>26, <1>27
     DEF Next, UdpStep, ReceiverStep, Connect, Recv, MainStep

\* The initial state has it.
LEMMA TypeInvInit == Init => TypeInv
BY TimeoutsAssumption, ThreadsAssumption, NoConsumerAssumption
   DEF Init, TypeInv, TypeOK, TimeoutsLeft, ReceiverState, UdpState, Inserting,
       RecvPC, ReaperPC, UdpPC, MainPC, Values, Replies

\* So it holds in every state of a run.
LEMMA TypeInvCorrect == Spec => []TypeInv
BY TypeInvInit, TypeInvStep, PTL DEF Spec

\* TypeOK holds for any number of consumers, connections and timeouts: no
\* counter passes its limit and no table key or thread is made up.
THEOREM TypeCorrect == Spec => []TypeOK
<1>1. TypeInv => TypeOK
  BY DEF TypeInv
<1>2. QED
  BY <1>1, TypeInvCorrect, PTL

----------------------------------------------------------------------------
(* Who owns a receiver thread.                                             *)

\* A receiver gets its one owner in StartReceiver, changes it in InsertConsumer
\* and loses it only after it has exited.
LEMMA ThreadOwnedStep == TypeInv /\ ThreadOwned /\ [Next]_vars => ThreadOwned'
<1> SUFFICES ASSUME TypeInv, ThreadOwned, [Next]_vars PROVE ThreadOwned'
  OBVIOUS
<1> USE ThreadsAssumption, NoConsumerAssumption
       DEF TypeInv, TypeOK,
  ReceiverState, UdpState, ThreadOwned, EntryThread, FreshInsertion,
  ReceiversAreOwned, Inserting, Live, vars, tableVars, recvVars, udpVars, mainVars
<1>1. ASSUME NEW i \in Consumers, ProcessConsumer(i) PROVE ThreadOwned'
  BY <1>1 DEF ProcessConsumer
<1>2. ASSUME NEW c \in Conns, StartReceiver(c) PROVE ThreadOwned'
  BY <1>2 DEF StartReceiver
<1>3. CASE ReadyObserved
  BY <1>3 DEF ReadyObserved
<1>4. CASE InsertConsumer
  BY <1>4 DEF InsertConsumer
<1>5. CASE JoinFailed
  BY <1>5 DEF JoinFailed, PacketDone
<1>6. ASSUME NEW c \in Conns, UpdateLastValue(c) PROVE ThreadOwned'
  BY <1>6 DEF UpdateLastValue
<1>7. ASSUME NEW c \in Conns, Return(c) PROVE ThreadOwned'
  BY <1>7 DEF Return
<1>8. ASSUME NEW c \in Conns, ReaperErase(c) PROVE ThreadOwned'
  BY <1>8 DEF ReaperErase
<1>9. CASE DeleteAllClear
  BY <1>9 DEF DeleteAllClear
<1>10. CASE OtherPacket \/ ReadValue \/ ReadTypeAndReply \/ OrchestrationFails \/
  ReplyToNew \/ StopMote \/ MoteStopped \/ DeleteAllLock
  BY <1>10 DEF DeleteAllLock, MoteStopped, OrchestrationFails, OtherPacket,
    PacketDone, ReadLastValue, ReadTypeAndReply, ReadValue, Replies, ReplyToNew,
    StopMote
<1>11. ASSUME NEW c \in Conns,
               \/ \E s \in {"none", "open"} : ConnectFails(c, s)
               \/ ConnectSucceeds(c) \/ StoreStarted(c) \/ StoreReady(c)
               \/ \E next \in {"update", "lockOnly"} : ReceiveData(c, next)
               \/ LockOnly(c) \/ Disconnected(c) \/ TimedOut(c) \/ ReaperLock(c)
      PROVE ThreadOwned'
  BY <1>11 DEF ConnectFails, ConnectSucceeds, StoreStarted, StoreReady, ReceiveData,
    LockOnly, Disconnected, TimedOut, ReaperLock
<1>12. CASE UNCHANGED vars
  BY <1>12
<1>13. QED
  BY <1>1, <1>2, <1>3, <1>4, <1>5, <1>6, <1>7, <1>8, <1>9, <1>10, <1>11, <1>12
     DEF Next, UdpStep, ReceiverStep, Connect, Recv, MainStep

\* ThreadOwned holds in every state of a run.
LEMMA ThreadOwnedCorrect == Spec => []ThreadOwned
<1>1. Init => ThreadOwned
  BY DEF Init, ThreadOwned, EntryThread, FreshInsertion, ReceiversAreOwned, Inserting, Live
<1>2. QED
  BY <1>1, ThreadOwnedStep, TypeInvCorrect, PTL DEF Spec

\* No receiver thread is ever lost: whatever the interleaving of insertions,
\* disconnections, reapers and the exit command, somebody can still join it.
THEOREM ReceiversOwned == Spec => []ReceiversAreOwned
<1>1. ThreadOwned => ReceiversAreOwned
  BY DEF ThreadOwned
<1>2. QED
  BY <1>1, ThreadOwnedCorrect, PTL

\* The check-then-act of processConsumer never starts a second receiver for a
\* consumer, although consumerExists and insert are two critical sections.
THEOREM OneReceiver == Spec => []OneReceiverPerConsumer
<1>1. TypeInv /\ ThreadOwned => OneReceiverPerConsumer
  <2> SUFFICES ASSUME TypeInv, ThreadOwned,
                      NEW c \in Conns, NEW d \in Conns,
                      Live(c), Live(d), consumerOf[c] = consumerOf[d]
               PROVE  c = d
    BY DEF OneReceiverPerConsumer
  <2> USE DEF ThreadOwned, ReceiversAreOwned, TypeInv, UdpState
  <2>1. CASE Inserting /\ udpConn = c
    <3>1. handle[consumerOf[d]] # d
      BY <2>1, ThreadsAssumption DEF FreshInsertion
    <3>2. QED
      BY <2>1, <3>1
  <2>2. CASE Inserting /\ udpConn = d
    <3>1. handle[consumerOf[c]] # c
      BY <2>2, ThreadsAssumption DEF FreshInsertion
    <3>2. QED
      BY <2>2, <3>1
  <2>3. CASE handle[consumerOf[c]] = c /\ handle[consumerOf[d]] = d
    BY <2>3
  <2>4. QED
    BY <2>1, <2>2, <2>3
<1>2. QED
  BY <1>1, TypeInvCorrect, ThreadOwnedCorrect, PTL

----------------------------------------------------------------------------
(* Entries that operator[] made, and the abort they can cause.             *)

\* A default entry is made by a receiver in its loop; the receiver hands it over
\* to its reaper when it leaves the loop, and the reaper erases it.
LEMMA DefaultEntryStep == TypeInv /\ EntryThread /\ DefaultEntryIsTransient /\ [Next]_vars => DefaultEntryIsTransient'
<1> SUFFICES ASSUME TypeInv, EntryThread, DefaultEntryIsTransient, [Next]_vars PROVE DefaultEntryIsTransient'
  OBVIOUS
<1> USE ThreadsAssumption
       DEF TypeInv, TypeOK, ReceiverState, UdpState,
  EntryThread, DefaultEntryIsTransient, Serving, Reaping, Inserting, vars, tableVars,
  recvVars, udpVars, mainVars
<1>1. ASSUME NEW c \in Conns, StartReceiver(c) PROVE DefaultEntryIsTransient'
  BY <1>1 DEF StartReceiver
<1>2. CASE InsertConsumer
  BY <1>2 DEF InsertConsumer
<1>3. ASSUME NEW c \in Conns, UpdateLastValue(c) PROVE DefaultEntryIsTransient'
  BY <1>3 DEF UpdateLastValue
<1>4. ASSUME NEW c \in Conns, Disconnected(c) PROVE DefaultEntryIsTransient'
  BY <1>4 DEF Disconnected
<1>5. ASSUME NEW c \in Conns, TimedOut(c) PROVE DefaultEntryIsTransient'
  BY <1>5 DEF TimedOut
<1>6. ASSUME NEW c \in Conns, ReaperErase(c) PROVE DefaultEntryIsTransient'
  BY <1>6 DEF ReaperErase
<1>7. CASE DeleteAllClear
  BY <1>7 DEF DeleteAllClear
<1>8. CASE OtherPacket \/ (\E i \in Consumers : ProcessConsumer(i)) \/ ReadValue \/
  ReadTypeAndReply \/ OrchestrationFails \/ ReadyObserved \/ ReplyToNew \/
  JoinFailed \/ StopMote \/ MoteStopped \/ DeleteAllLock
  BY <1>8 DEF DeleteAllLock, JoinFailed, MoteStopped, OrchestrationFails, OtherPacket,
    PacketDone, ProcessConsumer, ReadLastValue, ReadTypeAndReply, ReadValue,
    ReadyObserved, Replies, ReplyToNew, StopMote
<1>9. ASSUME NEW c \in Conns,
               \/ \E s \in {"none", "open"} : ConnectFails(c, s)
               \/ ConnectSucceeds(c) \/ StoreStarted(c) \/ StoreReady(c)
               \/ \E next \in {"update", "lockOnly"} : ReceiveData(c, next)
               \/ LockOnly(c) \/ Return(c) \/ ReaperLock(c)
      PROVE DefaultEntryIsTransient'
  BY <1>9 DEF ConnectFails, ConnectSucceeds, StoreStarted, StoreReady, ReceiveData,
    LockOnly, Return, ReaperLock
<1>10. CASE UNCHANGED vars
  BY <1>10
<1>11. QED
  BY <1>1, <1>2, <1>3, <1>4, <1>5, <1>6, <1>7, <1>8, <1>9, <1>10
     DEF Next, UdpStep, ReceiverStep, Connect, Recv, MainStep

\* An entry without a thread always has somebody who will fill or erase it.
THEOREM DefaultEntries == Spec => []DefaultEntryIsTransient
<1>1. Init => DefaultEntryIsTransient
  BY DEF Init, DefaultEntryIsTransient
<1>2. ThreadOwned => EntryThread
  BY DEF ThreadOwned
<1>3. QED
  BY <1>1, <1>2, DefaultEntryStep, TypeInvCorrect, ThreadOwnedCorrect, PTL DEF Spec

\* InsertConsumer is the only step that aborts, and nothing moves afterwards.
LEMMA AbortStep == TypeInv /\ FreshInsertion /\ AbortOnlyByEarlyData /\ [Next]_vars => AbortOnlyByEarlyData'
<1> SUFFICES ASSUME TypeInv, FreshInsertion, AbortOnlyByEarlyData, [Next]_vars PROVE AbortOnlyByEarlyData'
  OBVIOUS
<1> USE DEF TypeInv, TypeOK, ReceiverState, UdpState, FreshInsertion,
  AbortOnlyByEarlyData, Running, Inserting, vars, tableVars, recvVars, udpVars,
  mainVars
<1>1. CASE InsertConsumer
  BY <1>1 DEF InsertConsumer
<1>2. CASE OtherPacket \/ (\E i \in Consumers : ProcessConsumer(i)) \/ ReadValue \/
  ReadTypeAndReply \/ OrchestrationFails \/ ReadyObserved \/ ReplyToNew \/
  JoinFailed \/ StopMote \/ MoteStopped \/ DeleteAllLock \/ DeleteAllClear
  BY <1>2 DEF DeleteAllClear, DeleteAllLock, JoinFailed, MoteStopped,
    OrchestrationFails, OtherPacket, PacketDone, ProcessConsumer, ReadLastValue,
    ReadTypeAndReply, ReadValue, ReadyObserved, Replies, ReplyToNew, StopMote
<1>3. ASSUME NEW c \in Conns,
               \/ StartReceiver(c)
               \/ \E s \in {"none", "open"} : ConnectFails(c, s)
               \/ ConnectSucceeds(c) \/ StoreStarted(c) \/ StoreReady(c)
               \/ \E next \in {"update", "lockOnly"} : ReceiveData(c, next)
               \/ UpdateLastValue(c) \/ LockOnly(c) \/ Disconnected(c)
               \/ TimedOut(c) \/ Return(c) \/ ReaperLock(c) \/ ReaperErase(c)
      PROVE AbortOnlyByEarlyData'
  BY <1>3 DEF StartReceiver, ConnectFails, ConnectSucceeds, StoreStarted, StoreReady,
    ReceiveData, UpdateLastValue, LockOnly, Disconnected, TimedOut, Return,
    ReaperLock, ReaperErase
<1>4. CASE UNCHANGED vars
  BY <1>4
<1>5. QED
  BY <1>1, <1>2, <1>3, <1>4
     DEF Next, UdpStep, ReceiverStep, Connect, Recv, MainStep

\* std::terminate is called only when data came before the insertion.
THEOREM AbortCause == Spec => []AbortOnlyByEarlyData
<1>1. Init => AbortOnlyByEarlyData
  BY DEF Init, AbortOnlyByEarlyData, Running
<1>2. ThreadOwned => FreshInsertion
  BY DEF ThreadOwned
<1>3. QED
  BY <1>1, <1>2, AbortStep, TypeInvCorrect, ThreadOwnedCorrect, PTL DEF Spec

----------------------------------------------------------------------------
(* What a reaper waits for under the mutex.                                *)

\* Only ReaperLock and DeleteAllLock keep the mutex, and both find it free.
LEMMA HolderStateStep == TypeInv /\ HolderState /\ [Next]_vars => HolderState'
<1> SUFFICES ASSUME TypeInv, HolderState, [Next]_vars PROVE HolderState'
  OBVIOUS
<1> USE ThreadsAssumption
       DEF TypeInv, TypeOK, ReceiverState, UdpState,
  HolderState, Free, Inserting, vars, tableVars, recvVars, udpVars, mainVars
<1>1. ASSUME NEW i \in Consumers, ProcessConsumer(i) PROVE HolderState'
  BY <1>1 DEF ProcessConsumer
<1>2. CASE InsertConsumer
  BY <1>2 DEF InsertConsumer
<1>3. ASSUME NEW c \in Conns, ReaperLock(c) PROVE HolderState'
  BY <1>3 DEF ReaperLock
<1>4. ASSUME NEW c \in Conns, ReaperErase(c) PROVE HolderState'
  BY <1>4 DEF ReaperErase
<1>5. CASE MoteStopped
  BY <1>5 DEF MoteStopped
<1>6. CASE DeleteAllLock
  BY <1>6 DEF DeleteAllLock
<1>7. CASE DeleteAllClear
  BY <1>7 DEF DeleteAllClear
<1>8. CASE OtherPacket \/ ReadValue \/ ReadTypeAndReply \/ OrchestrationFails \/
  ReadyObserved \/ ReplyToNew \/ JoinFailed \/ StopMote
  BY <1>8 DEF JoinFailed, OrchestrationFails, OtherPacket, PacketDone, ReadLastValue,
    ReadTypeAndReply, ReadValue, ReadyObserved, Replies, ReplyToNew, StopMote
<1>9. ASSUME NEW c \in Conns,
               \/ StartReceiver(c)
               \/ \E s \in {"none", "open"} : ConnectFails(c, s)
               \/ ConnectSucceeds(c) \/ StoreStarted(c) \/ StoreReady(c)
               \/ \E next \in {"update", "lockOnly"} : ReceiveData(c, next)
               \/ UpdateLastValue(c) \/ LockOnly(c) \/ Disconnected(c)
               \/ TimedOut(c) \/ Return(c)
      PROVE HolderState'
  BY <1>9 DEF StartReceiver, ConnectFails, ConnectSucceeds, StoreStarted, StoreReady,
    ReceiveData, UpdateLastValue, LockOnly, Disconnected, TimedOut, Return
<1>10. CASE UNCHANGED vars
  BY <1>10
<1>11. QED
  BY <1>1, <1>2, <1>3, <1>4, <1>5, <1>6, <1>7, <1>8, <1>9, <1>10
     DEF Next, UdpStep, ReceiverStep, Connect, Recv, MainStep

\* In program order _rbthreadStartedSuccessfully is stored before _ready.
LEMMA FlagsInOrderStep == TypeInv /\ FlagsInOrder /\ [Next]_vars => FlagsInOrder'
<1> SUFFICES ASSUME TypeInv, FlagsInOrder, [Next]_vars PROVE FlagsInOrder'
  OBVIOUS
<1> USE DEF TypeInv, TypeOK, ReceiverState, UdpState, FlagsInOrder, Serving,
  Inserting, vars, tableVars, recvVars, udpVars, mainVars
<1>1. ASSUME NEW c \in Conns, StartReceiver(c) PROVE FlagsInOrder'
  BY <1>1 DEF StartReceiver
<1>2. CASE ReadyObserved
  BY <1>2 DEF ReadyObserved
<1>3. ASSUME NEW c \in Conns, NEW s \in {"none", "open"}, ConnectFails(c, s) PROVE FlagsInOrder'
  BY <1>3 DEF ConnectFails
<1>4. ASSUME NEW c \in Conns, ConnectSucceeds(c) PROVE FlagsInOrder'
  BY <1>4 DEF ConnectSucceeds
<1>5. ASSUME NEW c \in Conns, StoreStarted(c) PROVE FlagsInOrder'
  BY <1>5 DEF StoreStarted
<1>6. ASSUME NEW c \in Conns, StoreReady(c) PROVE FlagsInOrder'
  BY <1>6 DEF StoreReady
<1>7. ASSUME NEW c \in Conns, NEW next \in {"update", "lockOnly"}, ReceiveData(c, next) PROVE FlagsInOrder'
  BY <1>7 DEF ReceiveData
<1>8. ASSUME NEW c \in Conns, Disconnected(c) PROVE FlagsInOrder'
  BY <1>8 DEF Disconnected
<1>9. ASSUME NEW c \in Conns, TimedOut(c) PROVE FlagsInOrder'
  BY <1>9 DEF TimedOut
<1>10. ASSUME NEW c \in Conns, Return(c) PROVE FlagsInOrder'
  BY <1>10 DEF Return
<1>11. ASSUME NEW c \in Conns, ReaperLock(c) PROVE FlagsInOrder'
  BY <1>11 DEF ReaperLock
<1>12. ASSUME NEW c \in Conns, ReaperErase(c) PROVE FlagsInOrder'
  BY <1>12 DEF ReaperErase
<1>13. CASE OtherPacket \/ (\E i \in Consumers : ProcessConsumer(i)) \/ ReadValue \/
  ReadTypeAndReply \/ OrchestrationFails \/ InsertConsumer \/ ReplyToNew \/
  JoinFailed \/ StopMote \/ MoteStopped \/ DeleteAllLock \/ DeleteAllClear
  BY <1>13 DEF DeleteAllClear, DeleteAllLock, InsertConsumer, JoinFailed, MoteStopped,
    OrchestrationFails, OtherPacket, PacketDone, ProcessConsumer, ReadLastValue,
    ReadTypeAndReply, ReadValue, Replies, ReplyToNew, StopMote
<1>14. ASSUME NEW c \in Conns,
               \/ UpdateLastValue(c) \/ LockOnly(c)
      PROVE FlagsInOrder'
  BY <1>14 DEF UpdateLastValue, LockOnly
<1>15. CASE UNCHANGED vars
  BY <1>15
<1>16. QED
  BY <1>1, <1>2, <1>3, <1>4, <1>5, <1>6, <1>7, <1>8, <1>9, <1>10, <1>11, <1>12, <1>13,
    <1>14, <1>15
     DEF Next, UdpStep, ReceiverStep, Connect, Recv, MainStep

\* The reaper of a receiver is started while the receiver is owned; the entry it
\* looks for can only be erased by itself or by deleteAllConsumer.
LEMMA ReaperFindsStep == TypeInv /\ ThreadOwned /\ HolderState /\ FlagsInOrder /\ ReaperFindsItsReceiver /\ [Next]_vars => ReaperFindsItsReceiver'
<1> SUFFICES ASSUME TypeInv, ThreadOwned, HolderState, FlagsInOrder, ReaperFindsItsReceiver, [Next]_vars PROVE ReaperFindsItsReceiver'
  OBVIOUS
<1> USE ThreadsAssumption
       DEF TypeInv, TypeOK, ReceiverState, UdpState,
  ThreadOwned, EntryThread, FreshInsertion, HolderState, FlagsInOrder,
  ReaperFindsItsReceiver, Reaping, Serving, Inserting, vars, tableVars, recvVars,
  udpVars, mainVars
<1>1. ASSUME NEW c \in Conns, StartReceiver(c) PROVE ReaperFindsItsReceiver'
  BY <1>1 DEF StartReceiver
<1>2. CASE ReadyObserved
  BY <1>2 DEF ReadyObserved
<1>3. CASE InsertConsumer
  BY <1>3 DEF InsertConsumer
<1>4. CASE JoinFailed
  BY <1>4 DEF JoinFailed, PacketDone
<1>5. ASSUME NEW c \in Conns, Disconnected(c) PROVE ReaperFindsItsReceiver'
  <2>1. \/ Inserting /\ udpConn = c
        \/ handle[consumerOf[c]] = c
    BY <1>5 DEF Disconnected, ThreadOwned, ReceiversAreOwned, Live
  <2>2. StoresInOrder => ~(udp = "join" /\ udpConn = c)
    BY <1>5 DEF Disconnected
  <2>3. QED
    BY <1>5, <2>1, <2>2 DEF Disconnected
<1>6. ASSUME NEW c \in Conns, TimedOut(c) PROVE ReaperFindsItsReceiver'
  <2>1. \/ Inserting /\ udpConn = c
        \/ handle[consumerOf[c]] = c
    BY <1>6 DEF TimedOut, ThreadOwned, ReceiversAreOwned, Live
  <2>2. StoresInOrder => ~(udp = "join" /\ udpConn = c)
    BY <1>6 DEF TimedOut
  <2>3. QED
    BY <1>6, <2>1, <2>2 DEF TimedOut
<1>7. ASSUME NEW c \in Conns, ReaperLock(c) PROVE ReaperFindsItsReceiver'
  BY <1>7 DEF ReaperLock
<1>8. ASSUME NEW c \in Conns, ReaperErase(c) PROVE ReaperFindsItsReceiver'
  BY <1>8 DEF ReaperErase
<1>9. CASE DeleteAllClear
  BY <1>9 DEF DeleteAllClear
<1>10. CASE OtherPacket \/ (\E i \in Consumers : ProcessConsumer(i)) \/ ReadValue \/
  ReadTypeAndReply \/ OrchestrationFails \/ ReplyToNew \/ StopMote \/ MoteStopped \/
  DeleteAllLock
  BY <1>10 DEF DeleteAllLock, MoteStopped, OrchestrationFails, OtherPacket,
    PacketDone, ProcessConsumer, ReadLastValue, ReadTypeAndReply, ReadValue, Replies,
    ReplyToNew, StopMote
<1>11. ASSUME NEW c \in Conns,
               \/ \E s \in {"none", "open"} : ConnectFails(c, s)
               \/ ConnectSucceeds(c) \/ StoreStarted(c) \/ StoreReady(c)
               \/ \E next \in {"update", "lockOnly"} : ReceiveData(c, next)
               \/ UpdateLastValue(c) \/ LockOnly(c) \/ Return(c)
      PROVE ReaperFindsItsReceiver'
  BY <1>11 DEF ConnectFails, ConnectSucceeds, StoreStarted, StoreReady, ReceiveData,
    UpdateLastValue, LockOnly, Return
<1>12. CASE UNCHANGED vars
  BY <1>12
<1>13. QED
  BY <1>1, <1>2, <1>3, <1>4, <1>5, <1>6, <1>7, <1>8, <1>9, <1>10, <1>11, <1>12
     DEF Next, UdpStep, ReceiverStep, Connect, Recv, MainStep

\* All the layers hold in every state of a run.
LEMMA ReapInvCorrect == Spec => []ReapInv
<1>1. Init => HolderState /\ FlagsInOrder /\ ReaperFindsItsReceiver
  BY ThreadsAssumption
     DEF Init, HolderState, FlagsInOrder, ReaperFindsItsReceiver, Serving, Reaping
<1>2. QED
  BY <1>1, HolderStateStep, FlagsInOrderStep, ReaperFindsStep, TypeInvCorrect,
     ThreadOwnedCorrect, PTL DEF Spec, ReapInv

\* With stores in order, a reaper never waits, under the mutex, for a receiver
\* that may want the mutex: the join of lines 321 and 339 cannot deadlock.
THEOREM ReaperJoinIsSafe == Spec => []ReaperWaitsForItsReceiver
<1>1. ReapInv => ReaperWaitsForItsReceiver
  <2> SUFFICES ASSUME ReapInv, StoresInOrder, NEW c \in Conns,
                      holder = c, handle[consumerOf[c]] # NoThread
               PROVE  handle[consumerOf[c]] = c /\ recv[c] \in {"returning", "exited"}
    BY DEF ReaperWaitsForItsReceiver
  <2>1. reaper[c] = "joining" /\ recv[c] \in {"returning", "exited"}
    BY DEF ReapInv, HolderState, TypeInv, ReceiverState
  <2>2. consumerOf[c] \in Consumers
    BY <2>1 DEF ReapInv, TypeInv, ReceiverState
  <2>3. main # "done"
    BY <2>2 DEF ReapInv, HolderState
  <2>4. ~(udpConn = c /\ udp \in {"waitReady", "insert"})
    BY DEF ReapInv, ThreadOwned, FreshInsertion, TypeInv, UdpState, Inserting
  <2>5. QED
    BY <2>1, <2>3, <2>4 DEF ReapInv, ReaperFindsItsReceiver, Reaping
<1>2. QED
  BY <1>1, ReapInvCorrect, PTL

----------------------------------------------------------------------------
(* Who waits for whom.                                                     *)

\* The two flags say how far a receiver has come, and a receiver in the table
\* has been seen ready.
PublishState ==
  /\ \A c \in Conns :
       /\ recv[c] \in {"unused", "connecting"} => ~ready[c] /\ ~started[c]
       /\ recv[c] = "publishing" => ~(ready[c] /\ started[c])
       /\ recv[c] \notin {"unused", "connecting", "publishing"} => ready[c]
  /\ \A i \in Consumers : handle[i] # NoThread => ready[handle[i]]
  /\ holder = Main => main = "joining"

\* A receiver stores its flags itself, and insertNewConsumer waits for them.
LEMMA PublishStateStep == TypeInv /\ ThreadOwned /\ HolderState /\ PublishState /\ [Next]_vars => PublishState'
<1> SUFFICES ASSUME TypeInv, ThreadOwned, HolderState, PublishState, [Next]_vars PROVE PublishState'
  OBVIOUS
<1> USE ThreadsAssumption
       DEF TypeInv, TypeOK, ReceiverState, UdpState, ThreadOwned, EntryThread, HolderState,
  PublishState, Inserting, vars, tableVars, recvVars, udpVars, mainVars
<1>1. ASSUME NEW c \in Conns, StartReceiver(c) PROVE PublishState'
  BY <1>1 DEF StartReceiver
<1>2. CASE InsertConsumer
  BY <1>2 DEF InsertConsumer
<1>3. ASSUME NEW c \in Conns, NEW s \in {"none", "open"}, ConnectFails(c, s) PROVE PublishState'
  BY <1>3 DEF ConnectFails
<1>4. ASSUME NEW c \in Conns, ConnectSucceeds(c) PROVE PublishState'
  BY <1>4 DEF ConnectSucceeds
<1>5. ASSUME NEW c \in Conns, StoreStarted(c) PROVE PublishState'
  BY <1>5 DEF StoreStarted
<1>6. ASSUME NEW c \in Conns, StoreReady(c) PROVE PublishState'
  BY <1>6 DEF StoreReady
<1>7. ASSUME NEW c \in Conns, NEW next \in {"update", "lockOnly"}, ReceiveData(c, next) PROVE PublishState'
  BY <1>7 DEF ReceiveData
<1>8. ASSUME NEW c \in Conns,
              UpdateLastValue(c) \/ LockOnly(c) \/ Disconnected(c) \/ TimedOut(c) \/ Return(c)
      PROVE PublishState'
  BY <1>8 DEF UpdateLastValue, LockOnly, Disconnected, TimedOut, Return
<1>9. ASSUME NEW c \in Conns, ReaperLock(c) PROVE PublishState'
  BY <1>9 DEF ReaperLock
<1>10. ASSUME NEW c \in Conns, ReaperErase(c) PROVE PublishState'
  BY <1>10 DEF ReaperErase
<1>11. CASE MainStep
  BY <1>11 DEF MainStep, StopMote, MoteStopped, DeleteAllLock, DeleteAllClear
<1>12. CASE OtherPacket \/ (\E i \in Consumers : ProcessConsumer(i)) \/ ReadValue \/
  ReadTypeAndReply \/ OrchestrationFails \/ ReadyObserved \/ ReplyToNew \/ JoinFailed
  BY <1>12 DEF JoinFailed, OrchestrationFails, OtherPacket, PacketDone, ProcessConsumer,
    ReadLastValue, ReadTypeAndReply, ReadValue, ReadyObserved, Replies, ReplyToNew
<1>13. CASE UNCHANGED vars
  BY <1>13
<1>14. QED
  BY <1>1, <1>2, <1>3, <1>4, <1>5, <1>6, <1>7, <1>8, <1>9, <1>10, <1>11, <1>12, <1>13
     DEF Next, UdpStep, ReceiverStep, Connect, Recv

\* No circle of waits but the one of the exit command: the thread that keeps
\* the mutex and the UDP thread wait only for receivers that go on without it.
THEOREM WaitsAreAcyclic == Spec => []NoCircularWait
<1>1. Init => PublishState
  BY ThreadsAssumption DEF Init, PublishState
<1>2. ReapInv /\ PublishState /\ ReaperWaitsForItsReceiver => NoCircularWait
  <2> SUFFICES ASSUME ReapInv, PublishState, ReaperWaitsForItsReceiver, StoresInOrder
               PROVE  NoCircularWait
    BY DEF NoCircularWait
  <2> USE DEF ReapInv, TypeInv
  <2>1. udp = "waitReady" => ready[udpConn] \/ recv[udpConn] \in {"connecting", "publishing"}
    BY DEF TypeOK, RecvPC, UdpState, Inserting, PublishState
  <2>2. udp = "join" => recv[udpConn] \in {"returning", "exited"}
    BY DEF FlagsInOrder
  <2>3. ASSUME holder = Main, NEW i \in table, handle[i] # NoThread
        PROVE  recv[handle[i]] \in {"receiving", "returning", "exited"} \/ ShutdownDeadlock
    <3> DEFINE c == handle[i]
    <3>1. main = "joining"
      BY <2>3 DEF PublishState
    <3>2. i \in Consumers /\ c \in Conns
      BY <2>3 DEF TypeOK
    <3>3. recv[c] \in RecvPC /\ recv[c] # "unused" /\ ready[c]
      BY <2>3, <3>2 DEF TypeOK, ThreadOwned, EntryThread, PublishState
    <3>4. recv[c] # "connecting"
      BY <3>2, <3>3 DEF PublishState
    <3>5. recv[c] # "publishing"
      BY <3>2, <3>3 DEF FlagsInOrder, PublishState, Serving
    <3>6. QED
      BY <3>1, <3>2, <3>3, <3>4, <3>5 DEF RecvPC, ShutdownDeadlock
  <2>4. QED
    BY <2>1, <2>2, <2>3 DEF NoCircularWait
<1>3. ReapInv => TypeInv /\ ThreadOwned /\ HolderState
  BY DEF ReapInv
<1>4. QED
  BY <1>1, <1>2, <1>3, PublishStateStep, ReapInvCorrect, ReaperJoinIsSafe, PTL DEF Spec

----------------------------------------------------------------------------
(* What becomes of an abandoned entry.                                     *)

\* Nobody but deleteAllConsumer touches an abandoned entry: a reaper of another
\* receiver of the consumer, or that receiver itself, would own the entry.
LEMMA AbandonedStep ==
  ASSUME ReapInv, [Next]_vars, StoresInOrder, NEW i \in Consumers, Abandoned(i)
  PROVE  \/ i \in table' /\ Abandoned(i)' /\ lastValue'[i] = lastValue[i]
         \/ main' = "done"
<1> DEFINE Frozen == i \in table' /\ Abandoned(i)' /\ lastValue'[i] = lastValue[i]
<1> DEFINE d == handle[i]
<1>1. /\ d \in Conns /\ d # NoThread /\ i \in table /\ consumerOf[d] = i
      /\ recv[d] = "exited" /\ reaper[d] \in {"none", "done"}
  BY DEF Abandoned, ReapInv, TypeInv, TypeOK, ThreadOwned, EntryThread, Live, Reaping, ReaperPC
<1>2. ASSUME NEW c \in Conns, Live(c) PROVE consumerOf[c] # i
  BY <1>1, <1>2 DEF ReapInv, TypeInv, UdpState, ThreadOwned, ReceiversAreOwned, FreshInsertion,
     Inserting, Live
<1>3. ASSUME NEW c \in Conns, Reaping(c), consumerOf[c] = i PROVE main = "done"
  BY <1>1, <1>3 DEF ReapInv, TypeInv, UdpState, ThreadOwned, FreshInsertion, Inserting,
     ReaperFindsItsReceiver, Reaping
<1>4. main = "done" => FALSE
  BY <1>1 DEF ReapInv, HolderState
<1>5. udp \in {"orchestrate", "waitReady", "insert", "join"} => udpId # i
  BY <1>1 DEF ReapInv, ThreadOwned, FreshInsertion, Inserting
<1> USE <1>1 DEF Abandoned, Live, Reaping, vars, tableVars, recvVars, udpVars, mainVars,
               ReapInv, TypeInv, TypeOK
<1>6. ASSUME NEW c \in Conns, StartReceiver(c) PROVE Frozen
  BY <1>6 DEF StartReceiver
<1>7. CASE InsertConsumer
  BY <1>7, <1>5 DEF InsertConsumer
<1>8. ASSUME NEW c \in Conns, UpdateLastValue(c) PROVE Frozen
  BY <1>8, <1>2 DEF UpdateLastValue, ReceiverState
<1>9. ASSUME NEW c \in Conns, ReaperErase(c) PROVE Frozen
  BY <1>9, <1>3, <1>4 DEF ReaperErase
<1>10. ASSUME NEW c \in Conns, ReaperLock(c) PROVE Frozen
  BY <1>10 DEF ReaperLock
<1>11. ASSUME NEW c \in Conns,
               \/ \E s \in {"none", "open"} : ConnectFails(c, s)
               \/ ConnectSucceeds(c) \/ StoreStarted(c) \/ StoreReady(c)
               \/ \E next \in {"update", "lockOnly"} : ReceiveData(c, next)
               \/ LockOnly(c) \/ Disconnected(c) \/ TimedOut(c) \/ Return(c)
      PROVE Frozen
  BY <1>11 DEF ConnectFails, ConnectSucceeds, StoreStarted, StoreReady, ReceiveData,
     LockOnly, Disconnected, TimedOut, Return
<1>12. CASE DeleteAllClear
  BY <1>12 DEF DeleteAllClear
<1>13. CASE OtherPacket \/ (\E j \in Consumers : ProcessConsumer(j)) \/ ReadValue \/
  ReadTypeAndReply \/ OrchestrationFails \/ ReadyObserved \/ ReplyToNew \/ JoinFailed \/
  StopMote \/ MoteStopped \/ DeleteAllLock
  BY <1>13 DEF DeleteAllLock, JoinFailed, MoteStopped, OrchestrationFails, OtherPacket,
    PacketDone, ProcessConsumer, ReadLastValue, ReadTypeAndReply, ReadValue,
    ReadyObserved, Replies, ReplyToNew, StopMote
<1>14. CASE UNCHANGED vars
  BY <1>14
<1>15. QED
  BY <1>6, <1>7, <1>8, <1>9, <1>10, <1>11, <1>12, <1>13, <1>14
     DEF Next, UdpStep, ReceiverStep, Connect, Recv, MainStep

\* An entry inserted after its reaper has run is final, for any number of
\* consumers and receivers: only the exit command ever removes it.
THEOREM AbandonedForGood == Spec => AbandonedEntryIsFrozen
<1>1. ReapInv /\ [Next]_vars =>
        [StoresInOrder =>
           \A i \in Consumers : Abandoned(i) =>
             \/ i \in table' /\ Abandoned(i)' /\ lastValue'[i] = lastValue[i]
             \/ main' = "done"]_vars
  BY AbandonedStep
<1>2. QED
  BY <1>1, ReapInvCorrect, PTL DEF Spec, AbandonedEntryIsFrozen

----------------------------------------------------------------------------
(* Whose reaper erases an entry.                                           *)

\* An entry whose receiver has started its reaper is erased by that reaper and
\* by no other, or cleared by the exit command; until then it is in the table
\* and its reaper keeps its place.
ErasedByItsReaper ==
  [][StoresInOrder =>
       \A i \in Consumers, c \in Conns : Reaping(c) /\ handle[i] = c =>
         \/ Reaping(c)' /\ handle'[i] = c /\ i \in table'
         \/ reaper'[c] = "done" /\ i \notin table'
         \/ main' = "done"]_vars

\* A reaper that finds the entry of another receiver would have its own in the
\* table under the same consumer.
LEMMA OwnReaperStep ==
  ASSUME ReapInv, [Next]_vars, StoresInOrder, NEW i \in Consumers, NEW c \in Conns,
         Reaping(c), handle[i] = c
  PROVE  \/ Reaping(c)' /\ handle'[i] = c /\ i \in table'
         \/ reaper'[c] = "done" /\ i \notin table'
         \/ main' = "done"
<1> DEFINE Waits == Reaping(c)' /\ handle'[i] = c /\ i \in table'
<1>1. c # NoThread /\ i \in table /\ consumerOf[c] = i /\ recv[c] \in {"returning", "exited"}
  BY ThreadsAssumption DEF ReapInv, TypeInv, ReceiverState, ThreadOwned, EntryThread, Reaping
<1>2. ASSUME NEW d \in Conns, Reaping(d), consumerOf[d] = i PROVE d = c
  <2>1. main # "done"
    BY <1>1 DEF ReapInv, HolderState
  <2>2. ~(udpConn = d /\ udp \in {"waitReady", "insert"})
    BY <1>1, <1>2 DEF ReapInv, TypeInv, UdpState, ThreadOwned, FreshInsertion, Inserting
  <2>3. QED
    BY <1>2, <2>1, <2>2 DEF ReapInv, ReaperFindsItsReceiver
<1>3. udp \in {"orchestrate", "waitReady", "insert", "join"} => udpId # i
  BY <1>1 DEF ReapInv, ThreadOwned, FreshInsertion, Inserting
<1> USE <1>1 DEF Reaping, vars, tableVars, recvVars, udpVars, mainVars, ReapInv, TypeInv, TypeOK
<1>4. ASSUME NEW d \in Conns, ReaperErase(d) PROVE Waits \/ (reaper'[c] = "done" /\ i \notin table')
  <2>1. CASE d = c
    BY <1>4, <2>1 DEF ReaperErase
  <2>2. CASE d # c
    <3>1. consumerOf[d] # i
      BY <1>2, <1>4, <2>2 DEF ReaperErase
    <3>2. QED
      BY <1>4, <2>2, <3>1 DEF ReaperErase
  <2>3. QED
    BY <2>1, <2>2
<1>5. ASSUME NEW d \in Conns, ReaperLock(d) PROVE Waits
  BY <1>5 DEF ReaperLock
<1>6. ASSUME NEW d \in Conns, Disconnected(d) \/ TimedOut(d) PROVE Waits
  BY <1>6 DEF Disconnected, TimedOut
<1>7. CASE InsertConsumer
  BY <1>7, <1>3 DEF InsertConsumer
<1>8. ASSUME NEW d \in Conns, UpdateLastValue(d) PROVE Waits
  BY <1>8 DEF UpdateLastValue
<1>9. CASE DeleteAllClear
  BY <1>9 DEF DeleteAllClear
<1>10. ASSUME NEW d \in Conns,
               \/ StartReceiver(d)
               \/ \E s \in {"none", "open"} : ConnectFails(d, s)
               \/ ConnectSucceeds(d) \/ StoreStarted(d) \/ StoreReady(d)
               \/ \E next \in {"update", "lockOnly"} : ReceiveData(d, next)
               \/ LockOnly(d) \/ Return(d)
       PROVE Waits
  BY <1>10 DEF StartReceiver, ConnectFails, ConnectSucceeds, StoreStarted, StoreReady, ReceiveData,
     LockOnly, Return
<1>11. CASE OtherPacket \/ (\E j \in Consumers : ProcessConsumer(j)) \/ ReadValue \/
  ReadTypeAndReply \/ OrchestrationFails \/ ReadyObserved \/ ReplyToNew \/ JoinFailed \/
  StopMote \/ MoteStopped \/ DeleteAllLock \/ UNCHANGED vars
  BY <1>11 DEF DeleteAllLock, JoinFailed, MoteStopped, OrchestrationFails, OtherPacket,
    PacketDone, ProcessConsumer, ReadLastValue, ReadTypeAndReply, ReadValue,
    ReadyObserved, Replies, ReplyToNew, StopMote
<1>12. QED
  BY <1>4, <1>5, <1>6, <1>7, <1>8, <1>9, <1>10, <1>11
     DEF Next, UdpStep, ReceiverStep, Connect, Recv, MainStep

\* The safety half of DroppedConsumerIsErased, for any number of consumers and
\* receivers.
THEOREM ReaperErasesItsOwn == Spec => ErasedByItsReaper
<1>1. ReapInv /\ [Next]_vars =>
        [StoresInOrder =>
           \A i \in Consumers, c \in Conns : Reaping(c) /\ handle[i] = c =>
             \/ Reaping(c)' /\ handle'[i] = c /\ i \in table'
             \/ reaper'[c] = "done" /\ i \notin table'
             \/ main' = "done"]_vars
  BY OwnReaperStep
<1>2. QED
  BY <1>1, ReapInvCorrect, PTL DEF Spec, ErasedByItsReaper

----------------------------------------------------------------------------
(* What the exit command leaves behind.                                    *)

\* A socket is open while its receiver serves it, and stays open in the two
\* branches that return without closing it.
SocketState ==
  \A c \in Conns :
    /\ recv[c] \in {"unused", "connecting"} => ~started[c] /\ sock[c] = "none"
    /\ sock[c] = "open" /\ recv[c] \in {"returning", "exited"} =>
         ~started[c] \/ timeouts[c] = MaxTimeouts

\* Only a receiver changes its socket, its flag and its count.
LEMMA SocketStateStep == TypeInv /\ SocketState /\ [Next]_vars => SocketState'
<1> SUFFICES ASSUME TypeInv, SocketState, [Next]_vars PROVE SocketState'
  OBVIOUS
<1> USE DEF TypeInv, TypeOK, SocketState, vars, tableVars, recvVars, udpVars, mainVars
<1>1. ASSUME NEW c \in Conns, StartReceiver(c) PROVE SocketState'
  BY <1>1 DEF StartReceiver
<1>2. ASSUME NEW c \in Conns, NEW s \in {"none", "open"}, ConnectFails(c, s) PROVE SocketState'
  BY <1>2 DEF ConnectFails
<1>3. ASSUME NEW c \in Conns, ConnectSucceeds(c) PROVE SocketState'
  BY <1>3 DEF ConnectSucceeds
<1>4. ASSUME NEW c \in Conns, StoreStarted(c) \/ StoreReady(c) PROVE SocketState'
  BY <1>4 DEF StoreStarted, StoreReady
<1>5. ASSUME NEW c \in Conns, NEW next \in {"update", "lockOnly"}, ReceiveData(c, next) PROVE SocketState'
  BY <1>5 DEF ReceiveData
<1>6. ASSUME NEW c \in Conns, Disconnected(c) PROVE SocketState'
  BY <1>6 DEF Disconnected
<1>7. ASSUME NEW c \in Conns, TimedOut(c) PROVE SocketState'
  BY <1>7 DEF TimedOut
<1>8. ASSUME NEW c \in Conns, UpdateLastValue(c) \/ LockOnly(c) \/ Return(c) PROVE SocketState'
  BY <1>8 DEF UpdateLastValue, LockOnly, Return
<1>9. ASSUME NEW c \in Conns, ReaperLock(c) \/ ReaperErase(c) PROVE SocketState'
  BY <1>9 DEF ReaperLock, ReaperErase
<1>10. CASE OtherPacket \/ (\E i \in Consumers : ProcessConsumer(i)) \/ ReadValue \/
  ReadTypeAndReply \/ OrchestrationFails \/ ReadyObserved \/ InsertConsumer \/ ReplyToNew \/
  JoinFailed \/ StopMote \/ MoteStopped \/ DeleteAllLock \/ DeleteAllClear
  BY <1>10 DEF DeleteAllClear, DeleteAllLock, InsertConsumer, JoinFailed, MoteStopped,
    OrchestrationFails, OtherPacket, PacketDone, ProcessConsumer, ReadLastValue,
    ReadTypeAndReply, ReadValue, ReadyObserved, Replies, ReplyToNew, StopMote
<1>11. CASE UNCHANGED vars
  BY <1>11
<1>12. QED
  BY <1>1, <1>2, <1>3, <1>4, <1>5, <1>6, <1>7, <1>8, <1>9, <1>10, <1>11
     DEF Next, UdpStep, ReceiverStep, Connect, Recv, MainStep

\* After exit every receiver has ended: one that still ran would be in the
\* table, which is empty, or held by insertNewConsumer, which is not running.
THEOREM ExitTidiesUp == Spec => []ExitIsTidy
<1>1. Init => SocketState
  BY DEF Init, SocketState
<1>2. TypeInv /\ ThreadOwned /\ HolderState /\ SocketState => ExitIsTidy
  <2> SUFFICES ASSUME TypeInv, ThreadOwned, HolderState, SocketState, main = "done",
                      NEW c \in Conns
               PROVE  /\ ~Live(c)
                      /\ sock[c] = "open" => ~started[c] \/ timeouts[c] = MaxTimeouts
    BY DEF ExitIsTidy
  <2>1. ~Live(c)
    BY ThreadsAssumption DEF TypeInv, ReceiverState, ThreadOwned, ReceiversAreOwned, HolderState,
       Inserting, Live
  <2>2. recv[c] \in {"unused", "exited"}
    BY <2>1 DEF Live
  <2>3. QED
    BY <2>1, <2>2 DEF SocketState
<1>3. ReapInv => HolderState
  BY DEF ReapInv
<1>4. QED
  BY <1>1, <1>2, <1>3, SocketStateStep, TypeInvCorrect, ThreadOwnedCorrect, ReapInvCorrect, PTL DEF Spec

============================================================================
