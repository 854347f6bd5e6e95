---------------------- MODULE MonitoredConsumerProofs ----------------------
(***************************************************************************)
(* Proofs about the monitored consumer, for every pool and every number of *)
(* requests: type correctness and its safety invariants, and how the pool  *)
(* starves: it is all that can stall a calculation, no thread ends it, and *)
(* a pool can be too large for it.  That calculations end otherwise and    *)
(* that "stop" releases the pool needs fairness and stays with the model   *)
(* checker.                                                                *)
(***************************************************************************)
EXTENDS MonitoredConsumer, FiniteSets, FiniteSetTheorems, FunctionTheorems, TLAPS

\* The consumer thread is between the start of a request and the hand-over of
\* its calculation.
Busy == consumer \in {"waiting", "stop", "stopOnly", "submit"}

\* A task is in the pool once.
Unique ==
  /\ \A i, j \in 1..Len(queue) : queue[i] = queue[j] => i = j
  /\ \A v, w \in Workers : running[v] = running[w] /\ running[v] # NoTask => v = w
  /\ \A w \in Workers : running[w] \notin Queued

\* What is in the pool has been sent, and answered if it is calculated; the
\* calculation of the current request is handed over last.
Origin ==
  /\ answered \subseteq 1..sent
  /\ Busy => sent > 0
  /\ consumer \in {"stop", "submit"} => sent \in answered
  /\ \A r \in Requests : Task("capture", r) \in InPool => r <= sent
  /\ \A r \in Requests :
       Task("calculation", r) \in InPool \/ (\E s \in Subtasks : future[r][s] # "none") =>
         r \in answered /\ (Busy => r # sent)

\* A subtask is in the pool until its future has an outcome, unless it was dropped.
Futures ==
  \A r \in Requests, s \in Subtasks :
    /\ Task(s, r) \in InPool => future[r][s] = "pending"
    /\ future[r][s] = "pending" => Task(s, r) \in InPool \/ ~open
    /\ future[r][s] = "text" => s = "loss"

\* What a calculation has done is what its stage says.
Progress ==
  /\ \A r \in Requests, s \in Subtasks : Task("calculation", r) \in Queued => future[r][s] = "none"
  /\ \A w \in Workers :
       running[w].kind = "calculation" =>
         LET f == future[running[w].request] IN
         /\ stage[w] = "start" => f["bandwidth"] = "none"
         /\ stage[w] \in {"start", "submitLoss"} => f["loss"] = "none"
         /\ stage[w] \in {"loss", "put"} => f["bandwidth"] \in Returned
         /\ stage[w] = "put" => f["loss"] \in Returned

\* What is in a queue has come since the request it was made for.
Fresh == \A r \in Requests : packets[r] \subseteq r..sent

\* Captures in the pool are as many as the stops to come for the current request
\* and the one whose flag is still to be seen; which they are is open.
StopsAreOutnumbered ==
  open =>
    /\ breakLoop => \E r \in Requests : Task("capture", r) \in InPool
    /\ consumer \in {"waiting", "stop", "stopOnly"} =>
         \E r \in Requests :
           /\ Task("capture", r) \in InPool
           /\ breakLoop => \E q \in Requests \ {r} : Task("capture", q) \in InPool

\* What has been logged had been answered and both futures had returned.
Logged ==
  \A r \in logged : r \in answered /\ \A s \in Subtasks : future[r][s] \in Returned

Shutdown ==
  ~open =>
    /\ consumer = "ended"
    /\ queue = <<>>
    /\ \A w \in Workers : running[w] # NoTask => w \in interrupted

Inv ==
  /\ TypeOK
  /\ Unique
  /\ Origin
  /\ Futures
  /\ Progress
  /\ Fresh
  /\ Shutdown
  /\ StopsAreOutnumbered
  /\ Logged

----------------------------------------------------------------------------
(* The tasks in the pool, after each kind of change to queue and running.  *)

LEMMA TaskType ==
  /\ \A t \in Tasks : t # NoTask /\ t.request \in Requests /\ t = Task(t.kind, t.request)
  /\ \A r \in Requests, k \in Subtasks \cup {"capture", "calculation"} :
       Task(k, r) \in Tasks /\ Task(k, r).kind = k /\ Task(k, r).request = r
  /\ NoTask.kind = "none"
BY DEF Tasks, NoTask, Task

LEMMA RunningType ==
  ASSUME TypeOK, NEW w \in Workers, running[w].kind # "none"
  PROVE  /\ running[w] \in Tasks /\ running[w] # NoTask
         /\ running[w].request \in Requests
         /\ running[w] = Task(running[w].kind, running[w].request)
<1>1. running[w] \in Tasks
  BY DEF TypeOK, NoTask
<1>2. QED
  BY <1>1, TaskType

LEMMA PoolUnchanged ==
  ASSUME UNCHANGED <<queue, running>>
  PROVE  Queued' = Queued /\ InPool' = InPool
BY DEF InPool, Queued

\* A task that is not in the pool is appended to the queue.
LEMMA Appended ==
  ASSUME TypeOK, Unique, NEW t \in Tasks, t \notin InPool,
         queue' = Append(queue, t), UNCHANGED running
  PROVE  /\ Unique'
         /\ queue' \in Seq(Tasks)
         /\ Queued' = Queued \cup {t}
         /\ InPool' = InPool \cup {t}
<1>1. /\ queue \in Seq(Tasks) /\ Len(queue) \in Nat
      /\ queue' \in Seq(Tasks) /\ Len(queue') = Len(queue) + 1
      /\ \A i \in 1..Len(queue') : queue'[i] = IF i = Len(queue) + 1 THEN t ELSE queue[i]
  BY DEF TypeOK
<1>2. ASSUME NEW u PROVE u \in Queued' <=> u \in Queued \/ u = t
  <2>1. ASSUME NEW i \in 1..Len(queue) PROVE i \in 1..Len(queue') /\ queue'[i] = queue[i]
    BY <1>1
  <2>2. Len(queue) + 1 \in 1..Len(queue') /\ queue'[Len(queue) + 1] = t
    BY <1>1
  <2>3. ASSUME NEW i \in 1..Len(queue'), queue'[i] # t
        PROVE  i \in 1..Len(queue) /\ queue'[i] = queue[i]
    BY <2>3, <1>1
  <2>4. QED
    BY <2>1, <2>2, <2>3 DEF Queued
<1>3. ASSUME NEW i \in 1..Len(queue'), NEW j \in 1..Len(queue'), queue'[i] = queue'[j] PROVE i = j
  <2>1. \A k \in 1..Len(queue) : queue[k] # t
    BY DEF InPool, Queued
  <2>2. QED
    BY <1>1, <1>3, <2>1 DEF Unique
<1>4. Queued' = Queued \cup {t}
  BY <1>2
<1>5. \A w \in Workers : running'[w] \notin Queued'
  BY <1>4 DEF Unique, InPool
<1>6. Unique'
  BY <1>3, <1>5 DEF Unique
<1>7. InPool' = InPool \cup {t}
  BY <1>4 DEF InPool
<1>8. QED
  BY <1>1, <1>4, <1>6, <1>7

\* Whatever is appended, the pool keeps what it has.
LEMMA AppendKeeps ==
  ASSUME TypeOK, NEW u, queue' = Append(queue, u), UNCHANGED running
  PROVE  InPool \subseteq InPool'
<1>1. /\ Len(queue') = Len(queue) + 1 /\ Len(queue) \in Nat
      /\ \A i \in 1..Len(queue) : queue'[i] = queue[i]
  BY DEF TypeOK
<1>2. \A i \in 1..Len(queue) : i \in 1..Len(queue')
  BY <1>1
<1>3. QED
  BY <1>1, <1>2 DEF InPool, Queued

\* A free thread takes the first task of the queue.
LEMMA Taken ==
  ASSUME TypeOK, Unique, NEW w \in Workers, running[w] = NoTask, queue # <<>>,
         running' = [running EXCEPT ![w] = Head(queue)], queue' = Tail(queue)
  PROVE  /\ Unique'
         /\ queue' \in Seq(Tasks)
         /\ Head(queue) \in Tasks
         /\ Head(queue) \in Queued
         /\ running'[w] = Head(queue)
         /\ \A v \in Workers \ {w} : running'[v] = running[v]
         /\ Queued' \subseteq Queued
         /\ \A u : u # NoTask => (u \in InPool' <=> u \in InPool)
<1>1. /\ queue \in Seq(Tasks) /\ Len(queue) \in Nat \ {0}
      /\ Head(queue) = queue[1] /\ Head(queue) \in Tasks
      /\ queue' \in Seq(Tasks) /\ Len(queue') = Len(queue) - 1
      /\ \A i \in 1..Len(queue') : queue'[i] = queue[i + 1]
  BY DEF TypeOK
<1>2. /\ running \in [Workers -> Tasks \cup {NoTask}]
      /\ running'[w] = Head(queue)
      /\ \A v \in Workers \ {w} : running'[v] = running[v]
  BY DEF TypeOK
<1>3. Head(queue) \in Queued
  <2>1. 1 \in 1..Len(queue)
    BY <1>1
  <2>2. QED
    BY <2>1, <1>1 DEF Queued
<1>4. ASSUME NEW u PROVE u \in Queued' <=> u \in Queued /\ u # Head(queue)
  <2>1. ASSUME NEW i \in 1..Len(queue), queue[i] # Head(queue)
        PROVE  i - 1 \in 1..Len(queue') /\ queue'[i - 1] = queue[i]
    BY <2>1, <1>1
  <2>2. ASSUME NEW i \in 1..Len(queue')
        PROVE  i + 1 \in 1..Len(queue) /\ queue[i + 1] = queue'[i] /\ queue'[i] # Head(queue)
    <3>1. i + 1 \in 1..Len(queue) /\ 1 \in 1..Len(queue) /\ i + 1 # 1 /\ queue'[i] = queue[i + 1]
      BY <1>1
    <3>2. queue[i + 1] # queue[1]
      BY <3>1 DEF Unique
    <3>3. QED
      BY <3>1, <3>2, <1>1
  <2>3. QED
    BY <2>1, <2>2 DEF Queued
<1>5. \A v \in Workers \ {w} : running'[v] # Head(queue)
  BY <1>2, <1>3 DEF Unique
<1>6. Unique'
  <2>1. ASSUME NEW i \in 1..Len(queue'), NEW j \in 1..Len(queue'), queue'[i] = queue'[j] PROVE i = j
    <3>1. i + 1 \in 1..Len(queue) /\ j + 1 \in 1..Len(queue) /\ queue[i + 1] = queue[j + 1]
      BY <2>1, <1>1
    <3>2. i + 1 = j + 1
      BY <3>1 DEF Unique
    <3>3. QED
      BY <3>2, <1>1
  <2>2. ASSUME NEW v \in Workers, NEW x \in Workers, running'[v] = running'[x], running'[v] # NoTask
        PROVE  v = x
    BY <2>2, <1>2, <1>5 DEF Unique
  <2>3. ASSUME NEW v \in Workers PROVE running'[v] \notin Queued'
    BY <1>2, <1>4 DEF Unique
  <2>4. QED
    BY <2>1, <2>2, <2>3 DEF Unique
<1>7. ASSUME NEW u, u # NoTask PROVE u \in InPool' <=> u \in InPool
  BY <1>2, <1>3, <1>4, <1>7 DEF InPool
<1>8. QED
  BY <1>1, <1>2, <1>3, <1>4, <1>6, <1>7

\* A thread is done with its task.
LEMMA Ended ==
  ASSUME TypeOK, Unique, NEW w \in Workers, running[w] # NoTask, Ends(w), UNCHANGED queue
  PROVE  /\ Unique'
         /\ running'[w] = NoTask
         /\ \A v \in Workers \ {w} : running'[v] = running[v]
         /\ Queued' = Queued
         /\ \A u : u # NoTask => (u \in InPool' <=> u \in InPool /\ u # running[w])
<1>1. /\ running'[w] = NoTask
      /\ \A v \in Workers \ {w} : running'[v] = running[v]
  BY DEF Ends, TypeOK
<1>2. Queued' = Queued
  BY DEF Queued
<1>3. NoTask \notin Queued
  <2>1. \A i \in 1..Len(queue) : queue[i] \in Tasks
    BY DEF TypeOK
  <2>2. QED
    BY <2>1, TaskType DEF Queued
<1>4. Unique'
  <2>1. ASSUME NEW v \in Workers, NEW x \in Workers, running'[v] = running'[x], running'[v] # NoTask
        PROVE  v = x
    BY <2>1, <1>1 DEF Unique
  <2>2. \A v \in Workers : running'[v] \notin Queued'
    BY <1>1, <1>2, <1>3 DEF Unique
  <2>3. QED
    BY <2>1, <2>2 DEF Unique
<1>5. ASSUME NEW u, u # NoTask PROVE u \in InPool' <=> u \in InPool /\ u # running[w]
  BY <1>1, <1>2, <1>5 DEF InPool, Unique
<1>6. QED
  BY <1>1, <1>2, <1>4, <1>5

----------------------------------------------------------------------------
(* The invariant holds initially and every action preserves it.            *)

LEMMA InvInit == Init => Inv
<1> SUFFICES ASSUME Init PROVE Inv
  OBVIOUS
<1>1. TypeOK
  <2>1. future \in [Requests -> [Subtasks -> {"none", "pending", "value", "text", "failed"}]]
    BY DEF Init
  <2>2. sent \in 0..MaxRequests /\ queue \in Seq(Tasks)
    BY MaxRequestsAssumption DEF Init
  <2>3. running \in [Workers -> Tasks \cup {NoTask}] /\ stage \in [Workers -> Stages]
    BY DEF Init, Stages
  <2>4. QED
    BY <2>1, <2>2, <2>3 DEF Init, TypeOK
<1>2. Queued = {} /\ \A u \in InPool : u = NoTask
  BY DEF Init, Queued, InPool
<1>3. \A r \in Requests, k \in Subtasks \cup {"capture", "calculation"} : Task(k, r) \notin InPool
  BY <1>2, TaskType
<1>4. Unique
  BY <1>2 DEF Init, Unique
<1>5. Origin /\ Futures /\ Progress /\ Fresh
  BY <1>2, <1>3 DEF Init, Origin, Busy, Futures, Progress, Fresh, Requests, NoTask, Subtasks
<1>6. Shutdown /\ StopsAreOutnumbered /\ Logged
  BY DEF Init, Shutdown, StopsAreOutnumbered, Logged
<1>7. QED
  BY <1>1, <1>4, <1>5, <1>6 DEF Inv

\* Steps that leave the pool and the futures alone.
LEMMA InvOutside ==
  ASSUME Inv,
         Answered \/ Unavailable \/ RequestThrows \/ StopCapture \/ SeesFlag
           \/ ReadStop \/ EndOfInput \/ InputFails \/ UNCHANGED vars
  PROVE  Inv'
<1> USE DEF consumerVars, poolVars, vars, Answered, Unavailable, RequestThrows, StopCapture,
            SeesFlag, ReadStop, EndOfInput, InputFails
<1>1. /\ UNCHANGED <<queue, running, stage, interrupted, open, future, logged, sent>>
      /\ Queued' = Queued /\ InPool' = InPool
  BY PoolUnchanged
<1>2. TypeOK'
  <2>1. consumer = "waiting" => sent \in Requests
    BY MaxRequestsAssumption DEF Inv, TypeOK, Origin, Busy, Requests
  <2>2. QED
    BY <1>1, <2>1 DEF Inv, TypeOK
<1>3. Unique'
  BY <1>1 DEF Inv, Unique
<1>4. Origin'
  <2>1. answered' \subseteq 1..sent' /\ answered \subseteq answered'
    <3>1. consumer = "waiting" => sent \in 1..sent
      BY DEF Inv, TypeOK, Origin, Busy
    <3>2. QED
      BY <1>1, <3>1 DEF Inv, Origin
  <2>2. (Busy' => Busy) /\ (consumer' \in {"stop", "submit"} => sent \in answered')
    BY DEF Inv, Origin, Busy
  <2>3. QED
    BY <1>1, <2>1, <2>2 DEF Inv, Origin
<1>5. Futures' /\ Progress'
  BY <1>1 DEF Inv, Futures, Progress
<1>6. Shutdown' /\ Fresh'
  BY <1>1 DEF Inv, Shutdown, Fresh
<1>7. StopsAreOutnumbered'
  BY <1>1 DEF Inv, StopsAreOutnumbered
<1>8. Logged'
  BY <1>1 DEF Inv, Logged
<1>9. QED
  BY <1>2, <1>3, <1>4, <1>5, <1>6, <1>7, <1>8 DEF Inv

LEMMA InvSendRequest == ASSUME Inv, SendRequest PROVE Inv'
<1> DEFINE t == Task("capture", sent + 1)
<1> USE DEF SendRequest
<1>1. sent + 1 \in Requests /\ sent \in Nat /\ t \in Tasks /\ t \notin InPool
  <2>1. sent + 1 \in Requests /\ sent \in Nat
    BY MaxRequestsAssumption DEF Inv, TypeOK, Requests
  <2>2. QED
    BY <2>1, TaskType DEF Inv, Origin
<1>2. Unique' /\ queue' \in Seq(Tasks) /\ Queued' = Queued \cup {t} /\ InPool' = InPool \cup {t}
  BY <1>1, Appended DEF Inv
<1>3. \A r \in Requests, k \in Subtasks \cup {"calculation"} : Task(k, r) # t
  BY <1>1, TaskType DEF Subtasks
<1>4. \A r \in Requests : Task("capture", r) = t => r = sent + 1
  BY <1>1, TaskType
<1>5. TypeOK'
  BY <1>1, <1>2 DEF Inv, TypeOK, Requests
<1>6. Origin'
  <2>1. answered' \subseteq 1..sent'
    BY <1>1 DEF Inv, Origin
  <2>2. \A r \in Requests : Task("capture", r) \in InPool' => r <= sent'
    BY <1>1, <1>2, <1>4 DEF Inv, Origin, Requests
  <2>3. ASSUME NEW r \in Requests,
               Task("calculation", r) \in InPool' \/ (\E s \in Subtasks : future'[r][s] # "none")
        PROVE  r \in answered' /\ r # sent'
    <3>1. r \in answered
      BY <2>3, <1>2, <1>3 DEF Inv, Origin
    <3>2. QED
      BY <3>1, <1>1 DEF Inv, Origin
  <2>4. sent' > 0
    BY <1>1
  <2>5. QED
    BY <2>1, <2>2, <2>3, <2>4 DEF Origin, Busy
<1>7. Futures'
  BY <1>2, <1>3 DEF Inv, Futures
<1>8. Progress'
  BY <1>2, <1>3 DEF Inv, Progress
<1>9. Shutdown' /\ Fresh'
  <2>1. \A r \in Requests : packets'[r] = IF r = sent + 1 THEN {} ELSE packets[r]
    BY DEF Inv, TypeOK
  <2>2. \A r \in Requests : packets[r] \subseteq r..sent' /\ packets'[r] \subseteq packets[r]
    BY <1>1, <2>1 DEF Inv, Fresh, Requests
  <2>3. QED
    BY <2>2 DEF Inv, Shutdown, Fresh
<1>10. StopsAreOutnumbered'
  <2>1. t \in InPool'
    BY <1>2
  <2>2. ASSUME open, breakLoop PROVE \E q \in Requests \ {sent + 1} : Task("capture", q) \in InPool'
    <3>1. PICK q \in Requests : Task("capture", q) \in InPool
      BY <2>2 DEF Inv, StopsAreOutnumbered
    <3>2. q # sent + 1
      BY <3>1, <1>1
    <3>3. QED
      BY <3>1, <3>2, <1>2
  <2>3. QED
    BY <2>1, <2>2, <1>1 DEF StopsAreOutnumbered
<1>11. Logged'
  BY DEF Inv, Logged
<1>12. QED
  BY <1>2, <1>5, <1>6, <1>7, <1>8, <1>9, <1>10, <1>11 DEF Inv

LEMMA InvSubmitCalculation == ASSUME Inv, SubmitCalculation PROVE Inv'
<1> DEFINE t == Task("calculation", sent)
<1> USE DEF SubmitCalculation
<1>1. sent \in Requests /\ sent \in answered /\ t \in Tasks /\ t \notin InPool
  <2>1. sent \in Requests /\ sent \in answered
    BY DEF Inv, TypeOK, Origin
  <2>2. QED
    BY <2>1, TaskType DEF Inv, Origin, Busy
<1>2. \A s \in Subtasks : future[sent][s] = "none"
  BY <1>1 DEF Inv, Origin, Busy
<1>3. Unique' /\ queue' \in Seq(Tasks) /\ Queued' = Queued \cup {t} /\ InPool' = InPool \cup {t}
  BY <1>1, Appended DEF Inv
<1>4. \A r \in Requests, k \in Subtasks \cup {"capture"} : Task(k, r) # t
  BY <1>1, TaskType DEF Subtasks
<1>5. \A r \in Requests : Task("calculation", r) = t => r = sent
  BY <1>1, TaskType
<1>6. TypeOK'
  BY <1>3 DEF Inv, TypeOK
<1>7. Origin'
  BY <1>1, <1>3, <1>4, <1>5 DEF Inv, Origin, Busy
<1>8. Futures'
  BY <1>3, <1>4 DEF Inv, Futures
<1>9. Progress'
  BY <1>2, <1>3, <1>5 DEF Inv, Progress
<1>10. Shutdown' /\ Fresh'
  BY DEF Inv, Shutdown, Fresh
<1>11. StopsAreOutnumbered'
  BY <1>3 DEF Inv, StopsAreOutnumbered
<1>12. Logged'
  BY DEF Inv, Logged
<1>13. QED
  BY <1>3, <1>6, <1>7, <1>8, <1>9, <1>10, <1>11, <1>12 DEF Inv

LEMMA InvTake == ASSUME Inv, NEW w \in Workers, Take(w) PROVE Inv'
<1> USE DEF Take, consumerVars
<1>1. /\ Unique' /\ queue' \in Seq(Tasks)
      /\ Head(queue) \in Tasks /\ Head(queue) \in Queued
      /\ running'[w] = Head(queue)
      /\ \A v \in Workers \ {w} : running'[v] = running[v]
      /\ Queued' \subseteq Queued
      /\ \A u : u # NoTask => (u \in InPool' <=> u \in InPool)
  BY Taken DEF Inv
<1>2. \A r \in Requests, k \in Subtasks \cup {"capture", "calculation"} :
        Task(k, r) \in InPool' <=> Task(k, r) \in InPool
  BY <1>1, TaskType
<1>3. stage'[w] = "start" /\ \A v \in Workers \ {w} : stage'[v] = stage[v]
  BY DEF Inv, TypeOK
<1>4. TypeOK'
  BY <1>1 DEF Inv, TypeOK, Stages
<1>5. Origin'
  BY <1>2 DEF Inv, Origin, Busy, Subtasks
<1>6. Futures'
  BY <1>2 DEF Inv, Futures
<1>7. Progress'
  <2>1. ASSUME running'[w].kind = "calculation"
        PROVE  \A s \in Subtasks : future[running'[w].request][s] = "none"
    <3>1. /\ Head(queue) = Task("calculation", Head(queue).request)
          /\ Head(queue).request \in Requests
      BY <2>1, <1>1, TaskType
    <3>2. QED
      BY <3>1, <1>1 DEF Inv, Progress
  <2>2. QED
    BY <2>1, <1>1, <1>3 DEF Inv, Progress, Subtasks
<1>8. Shutdown' /\ Fresh'
  BY DEF Inv, Shutdown, Fresh
<1>9. StopsAreOutnumbered'
  BY <1>2 DEF Inv, StopsAreOutnumbered
<1>10. Logged'
  BY DEF Inv, Logged
<1>11. QED
  BY <1>1, <1>4, <1>5, <1>6, <1>7, <1>8, <1>9, <1>10 DEF Inv

LEMMA InvPacket == ASSUME Inv, NEW w \in Workers, Packet(w) PROVE Inv'
<1> DEFINE r0 == running[w].request
<1> USE DEF Packet, consumerVars, poolVars
<1>1. r0 \in Requests /\ r0 <= sent /\ sent \in Requests
  <2>1. r0 \in Requests /\ running[w] = Task("capture", r0) /\ running[w] \in InPool
    BY RunningType DEF Inv, InPool
  <2>2. r0 <= sent
    BY <2>1 DEF Inv, Origin
  <2>3. QED
    BY <2>1, <2>2, MaxRequestsAssumption DEF Inv, TypeOK, Requests
<1>2. /\ UNCHANGED <<consumer, sent, answered, open, queue, running, stage, interrupted, breakLoop,
                     future, logged>>
      /\ Queued' = Queued /\ InPool' = InPool
  BY PoolUnchanged
<1>3. \A r \in Requests : packets'[r] = IF r = r0 THEN packets[r] \cup {sent} ELSE packets[r]
  BY <1>1 DEF Inv, TypeOK
<1>4. TypeOK'
  <2>1. packets' \in [Requests -> SUBSET Requests]
    BY <1>1 DEF Inv, TypeOK
  <2>2. QED
    BY <1>2, <2>1 DEF Inv, TypeOK
<1>5. Unique' /\ Origin' /\ Futures' /\ Progress'
  BY <1>2 DEF Inv, Unique, Origin, Busy, Futures, Progress
<1>6. Fresh'
  <2>1. r0 \in Nat /\ sent \in Nat /\ sent \in r0..sent
    BY <1>1 DEF Requests
  <2>2. QED
    BY <1>2, <1>3, <2>1 DEF Inv, Fresh
<1>7. Shutdown' /\ StopsAreOutnumbered' /\ Logged'
  BY <1>2 DEF Inv, Shutdown, StopsAreOutnumbered, Logged
<1>8. QED
  BY <1>4, <1>5, <1>6, <1>7 DEF Inv

LEMMA InvCaptureEnds == ASSUME Inv, NEW w \in Workers, CaptureEnds(w) PROVE Inv'
<1> USE DEF CaptureEnds, consumerVars
<1>1. /\ running[w] \in Tasks /\ running[w] # NoTask
      /\ running[w].request \in Requests
      /\ running[w] = Task("capture", running[w].request)
  BY RunningType DEF Inv
<1>2. /\ Unique' /\ running'[w] = NoTask
      /\ \A v \in Workers \ {w} : running'[v] = running[v]
      /\ Queued' = Queued
      /\ \A u : u # NoTask => (u \in InPool' <=> u \in InPool /\ u # running[w])
  BY <1>1, Ended DEF Inv
<1>3. \A r \in Requests, k \in Subtasks \cup {"calculation"} :
        Task(k, r) \in InPool' <=> Task(k, r) \in InPool
  <2>1. \A r \in Requests, k \in Subtasks \cup {"calculation"} :
          Task(k, r) # NoTask /\ Task(k, r) # running[w]
    BY <1>1, TaskType DEF Subtasks
  <2>2. QED
    BY <2>1, <1>2
<1>4. \A r \in Requests :
        Task("capture", r) \in InPool' <=> Task("capture", r) \in InPool /\ r # running[w].request
  <2>1. \A r \in Requests :
          Task("capture", r) # NoTask /\ (Task("capture", r) = running[w] <=> r = running[w].request)
    BY <1>1, TaskType
  <2>2. QED
    BY <2>1, <1>2
<1>5. TypeOK'
  BY DEF Inv, TypeOK, Ends
<1>6. Origin'
  BY <1>3, <1>4 DEF Inv, Origin, Busy
<1>7. Futures'
  BY <1>3 DEF Inv, Futures
<1>8. Progress'
  BY <1>2 DEF Inv, Progress, NoTask
<1>9. Shutdown' /\ Fresh'
  BY <1>2 DEF Inv, Shutdown, Fresh
<1>10. StopsAreOutnumbered'
  BY <1>4 DEF Inv, StopsAreOutnumbered
<1>11. Logged'
  BY DEF Inv, Logged
<1>12. QED
  BY <1>2, <1>5, <1>6, <1>7, <1>8, <1>9, <1>10, <1>11 DEF Inv

\* A calculation that returns or throws; it may have logged its measurements.
LEMMA InvCalculationEnds ==
  ASSUME Inv, NEW w \in Workers, running[w].kind = "calculation", Ends(w),
         UNCHANGED <<flag, main, consumerVars, open, queue, stage, interrupted, breakLoop, packets, future>>,
         logged' = logged \/ (stage[w] = "put" /\ logged' = logged \cup {running[w].request})
  PROVE  Inv'
<1> USE DEF consumerVars
<1>1. /\ running[w] \in Tasks /\ running[w] # NoTask
      /\ running[w].request \in Requests
      /\ running[w] = Task("calculation", running[w].request)
  BY RunningType DEF Inv
<1>2. /\ Unique' /\ running'[w] = NoTask
      /\ \A v \in Workers \ {w} : running'[v] = running[v]
      /\ Queued' = Queued
      /\ \A u : u # NoTask => (u \in InPool' <=> u \in InPool /\ u # running[w])
  BY <1>1, Ended DEF Inv
<1>3. \A r \in Requests, k \in Subtasks \cup {"capture"} :
        Task(k, r) \in InPool' <=> Task(k, r) \in InPool
  <2>1. \A r \in Requests, k \in Subtasks \cup {"capture"} :
          Task(k, r) # NoTask /\ Task(k, r) # running[w]
    BY <1>1, TaskType DEF Subtasks
  <2>2. QED
    BY <2>1, <1>2
<1>4. \A r \in Requests : Task("calculation", r) \in InPool' => Task("calculation", r) \in InPool
  BY <1>2, TaskType
<1>5. TypeOK'
  BY <1>1 DEF Inv, TypeOK, Ends
<1>6. Origin'
  BY <1>3, <1>4 DEF Inv, Origin, Busy
<1>7. Futures'
  BY <1>3 DEF Inv, Futures
<1>8. Progress'
  BY <1>2 DEF Inv, Progress, NoTask
<1>9. Shutdown' /\ Fresh'
  BY <1>2 DEF Inv, Shutdown, Fresh
<1>10. StopsAreOutnumbered'
  BY <1>3 DEF Inv, StopsAreOutnumbered
<1>11. Logged'
  <2>1. ASSUME stage[w] = "put"
        PROVE  running[w].request \in answered
               /\ \A s \in Subtasks : future[running[w].request][s] \in Returned
    <3>1. \A s \in Subtasks : future[running[w].request][s] \in Returned
      BY <2>1 DEF Inv, Progress, Subtasks
    <3>2. running[w] \in InPool
      BY DEF InPool
    <3>3. running[w].request \in answered
      BY <1>1, <3>2 DEF Inv, Origin
    <3>4. QED
      BY <3>1, <3>3
  <2>2. QED
    BY <2>1 DEF Inv, Logged
<1>12. QED
  BY <1>2, <1>5, <1>6, <1>7, <1>8, <1>9, <1>10, <1>11 DEF Inv

LEMMA InvRunSubtask == ASSUME Inv, NEW w \in Workers, RunSubtask(w) PROVE Inv'
<1> DEFINE r0 == running[w].request
           s0 == running[w].kind
<1> USE DEF RunSubtask, consumerVars
<1>1. /\ running[w] \in Tasks /\ running[w] # NoTask
      /\ r0 \in Requests /\ s0 \in Subtasks
      /\ running[w] = Task(s0, r0)
      /\ running[w] \in InPool
  BY RunningType DEF Inv, Subtasks, InPool
<1>2. /\ Unique' /\ running'[w] = NoTask
      /\ \A v \in Workers \ {w} : running'[v] = running[v]
      /\ Queued' = Queued
      /\ \A u : u # NoTask => (u \in InPool' <=> u \in InPool /\ u # running[w])
  BY <1>1, Ended DEF Inv
<1>3. \A r \in Requests, k \in {"capture", "calculation"} :
        Task(k, r) \in InPool' <=> Task(k, r) \in InPool
  <2>1. \A r \in Requests, k \in {"capture", "calculation"} :
          Task(k, r) # NoTask /\ Task(k, r) # running[w]
    BY <1>1, TaskType DEF Subtasks
  <2>2. QED
    BY <2>1, <1>2
<1>4. \A r \in Requests, s \in Subtasks :
        Task(s, r) \in InPool' <=> Task(s, r) \in InPool /\ (s # s0 \/ r # r0)
  <2>1. \A r \in Requests, s \in Subtasks :
          Task(s, r) # NoTask /\ (Task(s, r) = running[w] <=> s = s0 /\ r = r0)
    BY <1>1, TaskType
  <2>2. QED
    BY <2>1, <1>2
<1>5. future[r0][s0] = "pending"
  BY <1>1 DEF Inv, Futures
<1>6. PICK outcome \in Outcomes(s0) : future' = [future EXCEPT ![r0][s0] = outcome]
  OBVIOUS
<1>7. /\ outcome \in {"value", "text", "failed"}
      /\ outcome = "text" => s0 = "loss"
  BY <1>6 DEF Outcomes, Returned
<1>8. \A r \in Requests, s \in Subtasks :
        future'[r][s] = IF r = r0 /\ s = s0 THEN outcome ELSE future[r][s]
  BY <1>1, <1>6 DEF Inv, TypeOK
<1>9. TypeOK'
  <2>1. future' \in [Requests -> [Subtasks -> {"none", "pending", "value", "text", "failed"}]]
    BY <1>1, <1>6, <1>7 DEF Inv, TypeOK
  <2>2. QED
    BY <2>1 DEF Inv, TypeOK, Ends
<1>10. Origin'
  BY <1>3, <1>5, <1>8 DEF Inv, Origin, Busy
<1>11. Futures'
  BY <1>4, <1>8, <1>7 DEF Inv, Futures
<1>12. Progress'
  <2>1. ASSUME NEW r \in Requests, NEW s \in Subtasks, future[r][s] # "pending"
        PROVE  future'[r][s] = future[r][s]
    BY <2>1, <1>5, <1>8
  <2>2. \A r \in Requests, s \in Subtasks : Task("calculation", r) \in Queued' => future'[r][s] = "none"
    BY <2>1, <1>2 DEF Inv, Progress
  <2>3. ASSUME NEW v \in Workers, running'[v].kind = "calculation"
        PROVE  LET f == future'[running'[v].request] IN
               /\ stage'[v] = "start" => f["bandwidth"] = "none"
               /\ stage'[v] \in {"start", "submitLoss"} => f["loss"] = "none"
               /\ stage'[v] \in {"loss", "put"} => f["bandwidth"] \in Returned
               /\ stage'[v] = "put" => f["loss"] \in Returned
    <3>1. running'[v] = running[v] /\ running[v].kind = "calculation"
      BY <2>3, <1>2 DEF NoTask
    <3>2. running[v].request \in Requests
      BY <3>1, RunningType DEF Inv
    <3>3. QED
      BY <3>1, <3>2, <2>1 DEF Inv, Progress, Subtasks, Returned
  <2>4. QED
    BY <2>2, <2>3 DEF Progress
<1>13. Shutdown' /\ Fresh'
  BY <1>2 DEF Inv, Shutdown, Fresh
<1>14. StopsAreOutnumbered'
  BY <1>3 DEF Inv, StopsAreOutnumbered
<1>15. Logged'
  BY <1>5, <1>8 DEF Inv, TypeOK, Logged, Returned
<1>16. QED
  BY <1>2, <1>9, <1>10, <1>11, <1>12, <1>13, <1>14, <1>15 DEF Inv

\* A calculation hands a subtask to the open pool.
LEMMA InvSubmit ==
  ASSUME Inv, NEW w \in Workers, NEW s0 \in Subtasks, NEW next,
         running[w].kind = "calculation", open, Submit(w, s0, next),
         UNCHANGED <<flag, main, consumerVars, open, interrupted, breakLoop, packets, logged>>,
         \/ s0 = "bandwidth" /\ stage[w] = "start" /\ next = "submitLoss"
         \/ s0 = "loss" /\ stage[w] = "submitLoss" /\ next = "bandwidth"
  PROVE  Inv'
<1> DEFINE r0 == running[w].request
           t == Task(s0, r0)
<1> USE DEF consumerVars
<1>1. /\ running[w] \in Tasks /\ running[w] # NoTask /\ r0 \in Requests
      /\ running[w] = Task("calculation", r0) /\ running[w] \in InPool /\ t \in Tasks
  BY RunningType, TaskType DEF Inv, InPool
<1>2. future[r0][s0] = "none" /\ t \notin InPool
  <2>1. future[r0][s0] = "none"
    BY DEF Inv, Progress
  <2>2. QED
    BY <2>1, <1>1 DEF Inv, Futures
<1>3. /\ queue' = Append(queue, t) /\ UNCHANGED running
      /\ stage' = [stage EXCEPT ![w] = next]
      /\ future' = [future EXCEPT ![r0][s0] = "pending"]
  BY DEF Submit
<1>4. Unique' /\ queue' \in Seq(Tasks) /\ Queued' = Queued \cup {t} /\ InPool' = InPool \cup {t}
  BY <1>1, <1>2, <1>3, Appended DEF Inv
<1>5. \A r \in Requests, k \in {"capture", "calculation"} : Task(k, r) # t
  BY <1>1, TaskType DEF Subtasks
<1>6. \A r \in Requests, s \in Subtasks : Task(s, r) = t <=> s = s0 /\ r = r0
  BY <1>1, TaskType
<1>7. \A r \in Requests, s \in Subtasks :
        future'[r][s] = IF r = r0 /\ s = s0 THEN "pending" ELSE future[r][s]
  BY <1>1, <1>3 DEF Inv, TypeOK
<1>8. stage'[w] = next /\ \A v \in Workers \ {w} : stage'[v] = stage[v]
  BY <1>3 DEF Inv, TypeOK
<1>9. TypeOK'
  <2>1. future' \in [Requests -> [Subtasks -> {"none", "pending", "value", "text", "failed"}]]
    BY <1>1, <1>3 DEF Inv, TypeOK
  <2>2. stage' \in [Workers -> Stages]
    BY <1>3 DEF Inv, TypeOK, Stages
  <2>3. QED
    BY <2>1, <2>2, <1>3, <1>4 DEF Inv, TypeOK
<1>10. Origin'
  <2>1. r0 \in answered /\ (Busy => r0 # sent)
    BY <1>1 DEF Inv, Origin
  <2>2. \A r \in Requests :
          (\E s \in Subtasks : future'[r][s] # "none") => r = r0 \/ \E s \in Subtasks : future[r][s] # "none"
    BY <1>7
  <2>3. QED
    BY <2>1, <2>2, <1>4, <1>5 DEF Inv, Origin, Busy
<1>11. Futures'
  BY <1>4, <1>6, <1>7 DEF Inv, Futures
<1>12. Progress'
  <2>1. \A r \in Requests, s \in Subtasks :
          Task("calculation", r) \in Queued' => future'[r][s] = "none"
    <3>1. \A r \in Requests : Task("calculation", r) \in Queued' => Task("calculation", r) \in Queued /\ r # r0
      BY <1>1, <1>4, <1>5 DEF Inv, Unique
    <3>2. QED
      BY <3>1, <1>7 DEF Inv, Progress
  <2>2. ASSUME NEW v \in Workers, v # w, running'[v].kind = "calculation"
        PROVE  /\ running[v].request # r0 /\ running[v].request \in Requests
               /\ running'[v] = running[v] /\ stage'[v] = stage[v]
    <3>1. running'[v] = running[v] /\ stage'[v] = stage[v]
      BY <2>2, <1>3, <1>8
    <3>2. running[v].request \in Requests /\ running[v] = Task("calculation", running[v].request)
      BY <2>2, <3>1, RunningType DEF Inv
    <3>3. running[v] # running[w]
      BY <2>2, <1>1 DEF Inv, Unique
    <3>4. QED
      BY <3>1, <3>2, <3>3, <1>1
  <2>3. ASSUME NEW v \in Workers, running'[v].kind = "calculation"
        PROVE  LET f == future'[running'[v].request] IN
               /\ stage'[v] = "start" => f["bandwidth"] = "none"
               /\ stage'[v] \in {"start", "submitLoss"} => f["loss"] = "none"
               /\ stage'[v] \in {"loss", "put"} => f["bandwidth"] \in Returned
               /\ stage'[v] = "put" => f["loss"] \in Returned
    <3>1. CASE v = w
      BY <3>1, <1>1, <1>3, <1>7, <1>8 DEF Inv, Progress, Subtasks
    <3>2. CASE v # w
      BY <3>2, <2>2, <2>3, <1>7 DEF Inv, Progress, Subtasks
    <3>3. QED
      BY <3>1, <3>2
  <2>4. QED
    BY <2>1, <2>3 DEF Progress
<1>13. Shutdown' /\ Fresh'
  BY DEF Inv, Shutdown, Fresh
<1>14. StopsAreOutnumbered'
  BY <1>4 DEF Inv, StopsAreOutnumbered
<1>15. Logged'
  BY <1>2, <1>7 DEF Inv, TypeOK, Logged, Returned
<1>16. QED
  BY <1>4, <1>9, <1>10, <1>11, <1>12, <1>13, <1>14, <1>15 DEF Inv

\* A calculation has the value of a subtask.
LEMMA InvGet ==
  ASSUME Inv, NEW w \in Workers, NEW s0 \in Subtasks, NEW next, Get(w, s0, next),
         \/ s0 = "bandwidth" /\ next = "loss"
         \/ s0 = "loss" /\ next = "put"
  PROVE  Inv'
<1> USE DEF consumerVars
<1>1. CASE Ends(w) /\ UNCHANGED stage
  BY <1>1, InvCalculationEnds DEF Get
<1>2. CASE /\ future[running[w].request][s0] \in Returned
           /\ stage' = [stage EXCEPT ![w] = next]
           /\ UNCHANGED running
  <2>1. /\ UNCHANGED <<flag, main, consumer, sent, answered, open, queue, running, interrupted,
                       breakLoop, packets, future, logged>>
        /\ running[w].kind = "calculation" /\ stage[w] = s0
        /\ Queued' = Queued /\ InPool' = InPool
    BY <1>2, PoolUnchanged DEF Get
  <2>2. stage'[w] = next /\ \A v \in Workers \ {w} : stage'[v] = stage[v]
    BY <1>2 DEF Inv, TypeOK
  <2>3. TypeOK'
    BY <1>2, <2>1 DEF Inv, TypeOK, Stages
  <2>4. Unique' /\ Origin' /\ Futures'
    BY <2>1 DEF Inv, Unique, Origin, Futures, Busy
  <2>5. Progress'
    <3>1. ASSUME NEW v \in Workers, running'[v].kind = "calculation"
          PROVE  LET f == future'[running'[v].request] IN
                 /\ stage'[v] = "start" => f["bandwidth"] = "none"
                 /\ stage'[v] \in {"start", "submitLoss"} => f["loss"] = "none"
                 /\ stage'[v] \in {"loss", "put"} => f["bandwidth"] \in Returned
                 /\ stage'[v] = "put" => f["loss"] \in Returned
      <4>1. CASE v = w
        BY <4>1, <1>2, <2>1, <2>2 DEF Inv, Progress
      <4>2. CASE v # w
        BY <4>2, <3>1, <2>1, <2>2 DEF Inv, Progress
      <4>3. QED
        BY <4>1, <4>2
    <3>2. QED
      BY <3>1, <2>1 DEF Inv, Progress
  <2>6. Shutdown' /\ Fresh' /\ StopsAreOutnumbered' /\ Logged'
    BY <2>1 DEF Inv, Shutdown, Fresh, StopsAreOutnumbered, Logged
  <2>7. QED
    BY <2>3, <2>4, <2>5, <2>6 DEF Inv
<1>3. QED
  BY <1>1, <1>2 DEF Get

LEMMA InvReleaseResources == ASSUME Inv, ReleaseResources PROVE Inv'
<1> USE DEF ReleaseResources, consumerVars
<1>1. Queued' = {} /\ InPool' \subseteq InPool
  BY DEF Queued, InPool
<1>2. TypeOK'
  <2>1. queue' \in Seq(Tasks)
    OBVIOUS
  <2>2. interrupted' \subseteq Workers
    OBVIOUS
  <2>3. QED
    BY <2>1, <2>2 DEF Inv, TypeOK
<1>3. Unique'
  BY <1>1 DEF Inv, Unique
<1>4. Origin'
  BY <1>1 DEF Inv, Origin, Busy
<1>5. Futures' /\ Progress'
  BY <1>1 DEF Inv, Futures, Progress
<1>6. Shutdown' /\ Fresh' /\ StopsAreOutnumbered' /\ Logged'
  BY DEF Inv, Shutdown, Fresh, StopsAreOutnumbered, Logged
<1>7. QED
  BY <1>2, <1>3, <1>4, <1>5, <1>6 DEF Inv

LEMMA InvStep == Inv /\ [Next]_vars => Inv'
<1> SUFFICES ASSUME Inv, [Next]_vars PROVE Inv'
  OBVIOUS
<1>1. CASE Consumer
  BY <1>1, InvOutside, InvSendRequest, InvSubmitCalculation DEF Consumer
<1>2. CASE Main
  BY <1>2, InvOutside, InvReleaseResources DEF Main
<1>3. ASSUME NEW w \in Workers, Worker(w) \/ Packet(w) PROVE Inv'
  <2>1. CASE SubmitBandwidth(w)
    <3>1. CASE open
      BY <2>1, <3>1, InvSubmit DEF SubmitBandwidth, Subtasks
    <3>2. CASE ~open
      BY <2>1, <3>2, InvCalculationEnds DEF SubmitBandwidth, Submit
    <3>3. QED
      BY <3>1, <3>2
  <2>2. CASE SubmitLoss(w)
    <3>1. CASE open
      BY <2>2, <3>1, InvSubmit DEF SubmitLoss, Subtasks
    <3>2. CASE ~open
      BY <2>2, <3>2, InvCalculationEnds DEF SubmitLoss, Submit
    <3>3. QED
      BY <3>1, <3>2
  <2>3. CASE GetBandwidth(w) \/ GetLoss(w)
    BY <2>3, InvGet DEF GetBandwidth, GetLoss, Subtasks
  <2>4. CASE PutLog(w)
    BY <2>4, InvCalculationEnds DEF PutLog
  <2>5. QED
    BY <1>3, <2>1, <2>2, <2>3, <2>4, InvTake, InvCaptureEnds, InvRunSubtask,
       InvPacket DEF Worker
<1>4. CASE UNCHANGED vars
  BY <1>4, InvOutside
<1>5. QED
  BY <1>1, <1>2, <1>3, <1>4 DEF Next

THEOREM Invariance == Spec => []Inv
BY InvInit, InvStep, PTL DEF Spec

\* While the pool is open a capture leaves it only by its end.
LEMMA CapturesLeave ==
  ASSUME Inv, [Next]_vars, consumer \in {"waiting", "stop", "stopOnly"},
         NEW r \in Requests, Task("capture", r) \in InPool, CaptureOver(r)'
  PROVE  \E w \in Workers : CaptureEnds(w) /\ running[w] = Task("capture", r)
<1> DEFINE t == Task("capture", r)
<1>1. /\ t \notin InPool' /\ t # NoTask /\ t.kind = "capture"
      /\ t \in Tasks
  BY TaskType DEF CaptureOver
<1>2. CASE Consumer
  <2>1. CASE SendRequest
    <3>1. FALSE
      BY <2>1 DEF SendRequest
    <3>2. QED
      BY <3>1
  <2>2. CASE ~SendRequest
    <3>1. UNCHANGED <<queue, running>>
      BY <1>2, <2>2 DEF Consumer, Answered, Unavailable, RequestThrows, StopCapture,
        SubmitCalculation, SeesFlag, poolVars
    <3>2. QED
      BY <1>1, <3>1, PoolUnchanged
  <2>3. QED
    BY <2>1, <2>2
<1>3. CASE Main \/ UNCHANGED vars
  <2>1. UNCHANGED <<queue, running>>
    BY <1>3 DEF Main, ReadStop, EndOfInput, InputFails, ReleaseResources, poolVars, vars
  <2>2. QED
    BY <1>1, <2>1, PoolUnchanged
<1>4. ASSUME NEW w \in Workers, Worker(w) \/ Packet(w)
      PROVE  CaptureEnds(w) /\ running[w] = t
  <2>1. CASE Take(w)
    BY <1>1, <2>1, Taken DEF Inv, Take
  <2>2. CASE Packet(w)
    BY <1>1, <2>2, PoolUnchanged DEF Packet, poolVars
  <2>3. CASE Worker(w) /\ running[w] # NoTask /\ Ends(w) /\ UNCHANGED queue
    <3>1. running[w] = t
      BY <1>1, <2>3, Ended DEF Inv
    <3>2. QED
      BY <1>1, <2>3, <3>1 DEF Worker, Take, RunSubtask, SubmitBandwidth, SubmitLoss,
        GetBandwidth, GetLoss, Get, PutLog, Subtasks
  <2>4. CASE running' = running /\ queue' = queue
    BY <1>1, <2>4, PoolUnchanged
  <2>5. CASE running' = running /\ \E u : queue' = Append(queue, u)
    BY <1>1, <2>5, AppendKeeps DEF Inv
  <2>6. CASE CaptureEnds(w) \/ RunSubtask(w) \/ PutLog(w)
    <3>1. running[w].kind # "none" /\ Ends(w) /\ UNCHANGED queue
      BY <2>6 DEF CaptureEnds, RunSubtask, PutLog, Subtasks
    <3>2. QED
      BY <2>3, <2>6, <3>1, TaskType DEF Worker
  <2>7. CASE SubmitBandwidth(w) \/ SubmitLoss(w)
    BY <2>3, <2>5, <2>7 DEF Worker, SubmitBandwidth, SubmitLoss, Submit, NoTask
  <2>8. CASE GetBandwidth(w) \/ GetLoss(w)
    BY <2>3, <2>4, <2>8 DEF Worker, GetBandwidth, GetLoss, Get, NoTask
  <2>9. QED
    BY <1>4, <2>1, <2>2, <2>6, <2>7, <2>8 DEF Worker
<1>5. QED
  BY <1>2, <1>3, <1>4 DEF Next

----------------------------------------------------------------------------
(* Theorems.                                                               *)

\* Every variable keeps its type, whatever the size of the pool.
THEOREM TypeCorrect == Spec => []TypeOK
<1>1. Inv => TypeOK
  BY DEF Inv
<1>2. QED
  BY <1>1, Invariance, PTL

\* A request loses its own capture before its stop only if the capture of an
\* earlier request is left in the pool, to go on (Stub.sendRequestM and the break
\* flag of the pcap handle, which any capture may see).
THEOREM EarlyEndsAreExchanges == Spec => EarlyEndIsExchange
<1>1. ASSUME Inv, [Next]_vars, NEW r \in Requests,
             Outstanding(r), ~CaptureOver(r), CaptureOver(r)'
      PROVE  \E q \in 1..(r - 1) : ~(CaptureOver(q)')
  <2>1. r = sent /\ consumer \in {"waiting", "stop", "stopOnly"} /\ open
        /\ Task("capture", r) \in InPool
    BY <1>1 DEF Outstanding, CaptureOver, Inv, TypeOK, Shutdown, Requests
  <2>2. PICK w \in Workers : CaptureEnds(w) /\ running[w] = Task("capture", r)
    BY <1>1, <2>1, CapturesLeave
  <2>3. PICK q \in Requests : Task("capture", q) \in InPool /\ q # r
    <3>1. PICK p \in Requests : /\ Task("capture", p) \in InPool
                               /\ \E q \in Requests \ {p} : Task("capture", q) \in InPool
      BY <1>1, <2>1, <2>2 DEF Inv, StopsAreOutnumbered, CaptureEnds
    <3>2. QED
      BY <3>1
  <2>4. Task("capture", q) \in InPool'
    <3>1. Task("capture", q) # NoTask /\ Task("capture", q) # running[w] /\ running[w] # NoTask
      BY <2>2, <2>3, TaskType
    <3>2. QED
      BY <1>1, <2>2, <2>3, <3>1, Ended DEF Inv, CaptureEnds
  <2>5. q \in 1..(r - 1)
    BY <1>1, <2>1, <2>3 DEF Inv, TypeOK, Origin, Requests
  <2>6. QED
    BY <2>4, <2>5 DEF CaptureOver
<1>2. Inv /\ [Next]_vars =>
        [\A r \in Requests :
           Outstanding(r) /\ ~CaptureOver(r) =>
             (CaptureOver(r)' => \E q \in 1..(r - 1) : ~(CaptureOver(q)'))]_vars
  BY <1>1
<1>3. QED
  BY <1>2, Invariance, PTL DEF Spec, EarlyEndIsExchange

\* No calculation waits for a subtask that nobody will run, shutdownNow
\* included (CalculationThread.run, ConsumerMain.releaseResources).
THEOREM WaitsAreAnswered == Spec => []WaitIsAnswered
<1>1. ASSUME Inv PROVE WaitIsAnswered
  <2> SUFFICES ASSUME NEW w \in Workers, NEW s \in Subtasks,
                      running[w].kind = "calculation",
                      future[running[w].request][s] = "pending"
               PROVE  Task(s, running[w].request) \in InPool \/ (~open /\ w \in interrupted)
    BY DEF WaitIsAnswered
  <2>1. running[w] # NoTask /\ running[w].request \in Requests
    BY <1>1, RunningType DEF Inv
  <2>2. QED
    BY <2>1, <1>1 DEF Inv, Futures, Shutdown
<1>2. QED
  BY <1>1, Invariance, PTL

\* What the monitor has logged for a request was answered; its bandwidth is from
\* packets since the request, and its loss what the subtask returned, be it a
\* measurement or a text in place of one (CalculationThread.run, Stub.java:66).
THEOREM LogsAreOfTheirRequests == Spec => []LogIsOfItsRequest
<1>1. ASSUME Inv PROVE LogIsOfItsRequest
  <2> SUFFICES ASSUME NEW r \in logged
               PROVE  /\ r \in answered
                      /\ future[r]["bandwidth"] = "value"
                      /\ packets[r] \subseteq r..MaxRequests
                      /\ future[r]["loss"] \in Returned
    BY DEF LogIsOfItsRequest
  <2>1. r \in Requests /\ sent \in 0..MaxRequests
    BY <1>1 DEF Inv, TypeOK
  <2>2. r \in answered /\ future[r]["bandwidth"] \in Returned /\ future[r]["loss"] \in Returned
    BY <1>1 DEF Inv, Logged, Subtasks
  <2>3. future[r]["bandwidth"] # "text"
    BY <1>1, <2>1 DEF Inv, Futures, Subtasks
  <2>4. packets[r] \subseteq r..MaxRequests
    BY <1>1, <2>1, MaxRequestsAssumption DEF Inv, Fresh, Requests
  <2>5. QED
    BY <2>2, <2>3, <2>4 DEF Returned
<1>2. QED
  BY <1>1, Invariance, PTL

----------------------------------------------------------------------------
(* Starvation.                                                             *)

\* A calculation waits only for a subtask it has handed over.
Ordered ==
  \A w \in Workers :
    running[w].kind = "calculation" =>
      LET f == future[running[w].request] IN
      /\ stage[w] \in {"submitLoss", "bandwidth"} => f["bandwidth"] # "none"
      /\ stage[w] \in {"bandwidth", "loss"} => f["loss"] # "none"

\* What a step does to the thread of a calculation.
LEMMA CalculationMoves ==
  ASSUME Inv, [Next]_vars, NEW w \in Workers, running'[w].kind = "calculation"
  PROVE  \/ stage'[w] = "start"
         \/ /\ running'[w] = running[w]
            /\ \/ stage'[w] = stage[w]
               \/ SubmitBandwidth(w) /\ open
               \/ SubmitLoss(w) /\ open
               \/ stage[w] = "bandwidth" /\ stage'[w] = "loss"
               \/ stage[w] = "loss" /\ stage'[w] = "put"
<1>1. CASE Worker(w)
  <2>1. CASE Take(w)
    BY <2>1 DEF Inv, TypeOK, Take
  <2>2. CASE SubmitBandwidth(w) \/ SubmitLoss(w)
    BY <2>2 DEF Inv, TypeOK, SubmitBandwidth, SubmitLoss, Submit, Ends, NoTask
  <2>3. CASE GetBandwidth(w) \/ GetLoss(w)
    BY <2>3 DEF Inv, TypeOK, GetBandwidth, GetLoss, Get, Ends, NoTask
  <2>4. CASE CaptureEnds(w) \/ RunSubtask(w) \/ PutLog(w)
    BY <2>4 DEF Inv, TypeOK, CaptureEnds, RunSubtask, PutLog, Ends, NoTask
  <2>5. QED
    BY <1>1, <2>1, <2>2, <2>3, <2>4 DEF Worker
<1>2. CASE \E v \in Workers \ {w} : Worker(v)
  BY <1>2 DEF Inv, TypeOK, Worker, Take, CaptureEnds, RunSubtask, SubmitBandwidth, SubmitLoss,
    Submit, GetBandwidth, GetLoss, Get, PutLog, Ends
<1>3. CASE Consumer \/ Main \/ UNCHANGED vars \/ \E v \in Workers : Packet(v)
  BY <1>3 DEF Packet, Consumer, SendRequest, Answered, Unavailable, RequestThrows, StopCapture,
    SubmitCalculation, SeesFlag, Main, ReadStop, EndOfInput, InputFails, ReleaseResources, poolVars, vars
<1>4. QED
  BY <1>1, <1>2, <1>3 DEF Next

\* A subtask handed over stays so.
LEMMA FuturesStay ==
  ASSUME Inv, [Next]_vars, NEW r \in Requests, NEW s \in Subtasks, future[r][s] # "none"
  PROVE  future'[r][s] # "none"
<1>1. ASSUME NEW w \in Workers, SubmitBandwidth(w) \/ SubmitLoss(w) \/ RunSubtask(w)
      PROVE  future'[r][s] # "none"
  <2>1. running[w].request \in Requests
    BY <1>1, RunningType DEF Inv, SubmitBandwidth, SubmitLoss, RunSubtask, Subtasks
  <2>2. \E q \in Requests : \E k, f :
          f # "none" /\ (UNCHANGED future \/ future' = [future EXCEPT ![q][k] = f])
    BY <1>1, <2>1 DEF SubmitBandwidth, SubmitLoss, Submit, RunSubtask, Outcomes, Returned
  <2>3. future \in [Requests -> [Subtasks -> {"none", "pending", "value", "text", "failed"}]]
    BY DEF Inv, TypeOK
  <2>4. QED
    BY <2>2, <2>3
<1>2. CASE \A w \in Workers : ~SubmitBandwidth(w) /\ ~SubmitLoss(w) /\ ~RunSubtask(w)
  BY <1>2 DEF Next, Consumer, SendRequest, Answered, Unavailable, RequestThrows, StopCapture,
    SubmitCalculation, SeesFlag, Main, ReadStop, EndOfInput, InputFails, ReleaseResources, Worker, Take,
    CaptureEnds, GetBandwidth, GetLoss, Get, PutLog, Packet, poolVars, vars
<1>3. QED
  BY <1>1, <1>2

LEMMA OrderedStep == Inv /\ Ordered /\ [Next]_vars => Ordered'
<1> SUFFICES ASSUME Inv, Ordered, [Next]_vars, NEW w \in Workers, running'[w].kind = "calculation"
             PROVE  LET f == future'[running'[w].request] IN
                    /\ stage'[w] \in {"submitLoss", "bandwidth"} => f["bandwidth"] # "none"
                    /\ stage'[w] \in {"bandwidth", "loss"} => f["loss"] # "none"
  BY DEF Ordered
<1> DEFINE r == running[w].request
<1>1. CASE stage'[w] = "start"
  BY <1>1
<1>2. CASE stage'[w] # "start"
  <2>1. running'[w] = running[w] /\ r \in Requests
    BY <1>2, CalculationMoves, RunningType DEF Inv
  <2>2. /\ future[r]["bandwidth"] # "none" => future'[r]["bandwidth"] # "none"
        /\ future[r]["loss"] # "none" => future'[r]["loss"] # "none"
    BY <2>1, FuturesStay DEF Subtasks
  <2>3. CASE SubmitBandwidth(w) /\ open
    <3>1. stage'[w] = "submitLoss" /\ future'[r]["bandwidth"] = "pending"
      BY <2>1, <2>3 DEF Inv, TypeOK, SubmitBandwidth, Submit, Subtasks
    <3>2. QED
      BY <2>1, <3>1
  <2>4. CASE SubmitLoss(w) /\ open
    <3>1. /\ stage[w] = "submitLoss" /\ stage'[w] = "bandwidth"
          /\ future'[r]["loss"] = "pending"
      BY <2>1, <2>4 DEF Inv, TypeOK, SubmitLoss, Submit, Subtasks
    <3>2. QED
      BY <2>1, <2>2, <3>1 DEF Ordered
  <2>5. QED
    BY <1>2, <2>1, <2>2, <2>3, <2>4, CalculationMoves DEF Ordered
<1>3. QED
  BY <1>1, <1>2

THEOREM WaitsAreOrdered == Spec => []Ordered
<1>1. Init => Ordered
  BY DEF Init, Ordered, NoTask
<1>2. QED
  BY <1>1, OrderedStep, Invariance, PTL DEF Spec

\* A calculation that is held up waits for a subtask that has no outcome.
LEMMA HeldUp ==
  ASSUME Inv, Ordered, NEW w \in Workers, running[w].kind = "calculation", ~CanGo(w)
  PROVE  \E s \in Subtasks :
           /\ stage[w] = s /\ future[running[w].request][s] = "pending" /\ w \notin interrupted
           /\ Task(s, running[w].request) \in InPool
<1>1. /\ stage[w] \in Subtasks /\ w \notin interrupted
      /\ future[running[w].request][stage[w]] \notin Returned \cup {"failed"}
  BY DEF CanGo
<1>2. running[w].request \in Requests /\ running[w] # NoTask
  BY RunningType DEF Inv
<1>3. future[running[w].request][stage[w]] = "pending"
  BY <1>1, <1>2 DEF Inv, TypeOK, Ordered, Subtasks, Futures, Returned
<1>4. Task(stage[w], running[w].request) \in InPool
  BY <1>1, <1>2, <1>3 DEF Inv, Futures, Shutdown
<1>5. QED
  BY <1>1, <1>3, <1>4

\* With a calculation in the pool and no thread that can go on, no thread is free.
LEMMA NoneIsFree ==
  ASSUME Inv, Ordered, \A w \in Workers : ~CanGo(w),
         NEW r \in Requests, Task("calculation", r) \in InPool,
         NEW v \in Workers
  PROVE  running[v] # NoTask
<1> SUFFICES ASSUME running[v] = NoTask PROVE FALSE
  OBVIOUS
<1>1. InPool = {running[w] : w \in Workers}
  <2>1. queue = <<>>
    BY DEF CanGo
  <2>2. QED
    BY <2>1 DEF InPool, Queued
<1>2. PICK u \in Workers : running[u] = Task("calculation", r)
  BY <1>1
<1>3. PICK s \in Subtasks : Task(s, running[u].request) \in InPool
  BY <1>2, HeldUp, TaskType
<1>4. PICK x \in Workers : running[x] = Task(s, running[u].request)
  BY <1>1, <1>3
<1>5. running[u].request \in Requests
  BY <1>2, TaskType
<1>6. running[x].kind \in Subtasks
  BY <1>4, <1>5, TaskType
<1>7. QED
  BY <1>6 DEF CanGo

\* The pool can fail its calculations in one way only, by starving them
\* (CalculationThread.java:86 submits to the pool it runs in).
THEOREM OnlyStarvationStalls == Spec => []StallIsStarvation
<1>1. ASSUME Inv, Ordered PROVE StallIsStarvation
  <2> SUFFICES ASSUME NEW r \in Requests, Task("calculation", r) \in InPool,
                      \A w \in Workers : ~CanGo(w)
               PROVE  Starved
    BY DEF StallIsStarvation
  <2>1. ASSUME NEW w \in Workers
        PROVE  \/ running[w].kind = "capture" /\ ~breakLoop
               \/ /\ running[w].kind = "calculation"
                  /\ \E s \in Subtasks :
                       stage[w] = s /\ future[running[w].request][s] = "pending" /\ w \notin interrupted
    <3>1. running[w] \in Tasks
      BY <1>1, NoneIsFree DEF Inv, TypeOK
    <3>2. running[w].kind \in Subtasks \cup {"capture", "calculation"}
      BY <3>1 DEF Tasks
    <3>3. running[w].kind \notin Subtasks /\ (running[w].kind = "capture" => ~breakLoop)
      BY DEF CanGo
    <3>4. CASE running[w].kind = "calculation"
      BY <1>1, <3>4, HeldUp
    <3>5. QED
      BY <3>2, <3>3, <3>4
  <2>2. QED
    BY <2>1 DEF Starved
<1>2. QED
  BY <1>1, Invariance, WaitsAreOrdered, PTL

\* A starved pool stays starved until the consumer thread stops a capture or
\* "stop" has the pool shut down: nothing the threads do helps.
StarvationStays == [][Starved /\ ~Starved' => breakLoop' \/ ~open']_vars

LEMMA OnlyWhoCanGo == ASSUME NEW w \in Workers, Worker(w) PROVE CanGo(w)
<1>1. CASE Take(w) \/ CaptureEnds(w) \/ RunSubtask(w)
  BY <1>1 DEF Take, CaptureEnds, RunSubtask, CanGo
<1>2. CASE SubmitBandwidth(w) \/ SubmitLoss(w) \/ PutLog(w)
  BY <1>2 DEF SubmitBandwidth, SubmitLoss, PutLog, CanGo, Subtasks
<1>3. CASE GetBandwidth(w)
  BY <1>3 DEF GetBandwidth, Get, CanGo
<1>4. CASE GetLoss(w)
  BY <1>4 DEF GetLoss, Get, CanGo
<1>5. QED
  BY <1>1, <1>2, <1>3, <1>4 DEF Worker

LEMMA StarvedStep ==
  ASSUME Inv, Starved, [Next]_vars, ~breakLoop', open'
  PROVE  Starved'
<1>1. ASSUME NEW w \in Workers PROVE ~CanGo(w)
  <2>1. CASE running[w].kind = "capture" /\ ~breakLoop
    BY <2>1 DEF CanGo, Subtasks, NoTask
  <2>2. CASE /\ running[w].kind = "calculation"
             /\ \E s \in Subtasks :
                  stage[w] = s /\ future[running[w].request][s] = "pending" /\ w \notin interrupted
    BY <2>2 DEF CanGo, Subtasks, NoTask, Returned
  <2>3. QED
    BY <2>1, <2>2 DEF Starved
<1>2. UNCHANGED <<running, stage, future, interrupted>>
  BY <1>1, OnlyWhoCanGo DEF Next, Packet, Consumer, SendRequest, Answered, Unavailable, RequestThrows, StopCapture,
    SubmitCalculation, SeesFlag, Main, ReadStop, EndOfInput, InputFails, ReleaseResources, poolVars, vars
<1>3. QED
  BY <1>2 DEF Starved

THEOREM StarvationIsPermanent == Spec => StarvationStays
<1>1. Inv /\ [Next]_vars => [Starved /\ ~Starved' => breakLoop' \/ ~open']_vars
  BY StarvedStep DEF Inv, TypeOK, Starved
<1>2. QED
  BY <1>1, Invariance, PTL DEF Spec, StarvationStays

\* A starved thread holds a task of a request that has been sent, and no other
\* thread holds it.
LEMMA StarvedTask ==
  ASSUME Inv, Starved, NEW w \in Workers
  PROVE  /\ running[w].kind \in {"capture", "calculation"}
         /\ running[w].request \in 1..sent
         /\ \A v \in Workers :
              running[v].kind = running[w].kind /\ running[v].request = running[w].request => v = w
<1>1. running[w].kind \in {"capture", "calculation"}
  BY DEF Starved
<1>2. /\ running[w].request \in Requests /\ running[w] # NoTask
      /\ running[w] = Task(running[w].kind, running[w].request)
      /\ running[w] \in InPool
  BY <1>1, RunningType DEF Inv, InPool
<1>3. running[w].request \in 1..sent
  BY <1>1, <1>2 DEF Inv, TypeOK, Origin, Requests
<1>4. ASSUME NEW v \in Workers, running[v].kind = running[w].kind,
             running[v].request = running[w].request
      PROVE  v = w
  <2>1. running[v] = running[w]
    BY <1>1, <1>2, <1>4, RunningType DEF Inv
  <2>2. QED
    BY <1>2, <2>1 DEF Inv, Unique
<1>5. QED
  BY <1>1, <1>3, <1>4

\* The pool cannot starve before the consumer has sent half as many requests as
\* it has threads: with the POOL_SIZE of 5 of ConsumerMain, not before the third.
PoolOutlasts == Starved => Cardinality(Workers) <= 2 * sent

THEOREM StarvationNeedsRequests == Spec => []PoolOutlasts
<1>1. ASSUME Inv, Starved PROVE Cardinality(Workers) <= 2 * sent
  <2> DEFINE place == [w \in Workers |-> IF running[w].kind = "capture"
                                         THEN running[w].request
                                         ELSE sent + running[w].request]
  <2>1. sent \in Nat
    BY <1>1, MaxRequestsAssumption DEF Inv, TypeOK
  <2>2. place \in [Workers -> 1..(2 * sent)]
    BY <1>1, <2>1, StarvedTask
  <2>3. ASSUME NEW v \in Workers, NEW w \in Workers, place[v] = place[w] PROVE v = w
    <3>1. /\ running[v].kind \in {"capture", "calculation"} /\ running[v].request \in 1..sent
          /\ running[w].kind \in {"capture", "calculation"} /\ running[w].request \in 1..sent
      BY <1>1, StarvedTask
    <3>2. running[v].kind = running[w].kind /\ running[v].request = running[w].request
      BY <2>1, <2>3, <3>1
    <3>3. QED
      BY <1>1, <3>2, StarvedTask
  <2>4. place \in Injection(Workers, 1..(2 * sent))
    BY <2>2, <2>3 DEF Injection, IsInjective
  <2>5. IsFiniteSet(1..(2 * sent)) /\ Cardinality(1..(2 * sent)) = 2 * sent
    <3>1. 1 \in Int /\ 2 * sent \in Int /\ 2 * sent >= 0
      BY <2>1
    <3>2. QED
      BY <3>1, FS_Interval
  <2>6. Cardinality(Workers) <= Cardinality(1..(2 * sent))
    <3> HIDE DEF place
    <3>1. QED
      BY <2>4, <2>5, FS_Injection
  <2>7. QED
    BY <2>5, <2>6
<1>2. Inv => PoolOutlasts
  BY <1>1 DEF PoolOutlasts
<1>3. QED
  BY <1>2, Invariance, PTL

=============================================================================
