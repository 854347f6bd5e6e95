------------------------- MODULE MonitoredConsumer -------------------------
(***************************************************************************)
(* The Java consumer that monitors its traffic (consumer/src/main/java):   *)
(* the consumer thread sends requests one after the other (ConsumerMain,   *)
(* Stub); for each, a task that captures its packets (CaptureThread) and a *)
(* calculation (CalculationThread), which hands two subtasks to the same   *)
(* pool of threads and waits for them; the main thread waits for "stop".   *)
(*                                                                         *)
(* Each request has a queue of its own: its capture fills that queue, and  *)
(* its calculation reads it.  But all captures loop on the one pcap handle *)
(* of lpcap/module.so: a packet goes to one of the loops, and a call of    *)
(* stop sets the handle's break flag, which is not cleared when a loop     *)
(* begins: the next loop to see it clears it and returns.                  *)
(*                                                                         *)
(* A task given to a thread the pool has just created is modelled as one   *)
(* that passes through the queue.                                          *)
(***************************************************************************)
EXTENDS Naturals, Sequences

CONSTANTS
  Workers,      \* the threads of the pool; POOL_SIZE of them
  MaxRequests   \* bound: the requests the consumer thread sends

ASSUME MaxRequestsAssumption == MaxRequests \in Nat

Requests == 1..MaxRequests
Subtasks == {"bandwidth", "loss"}
Tasks == [kind : Subtasks \cup {"capture", "calculation"}, request : Requests]
NoTask == [kind |-> "none"]

\* The request of a task also names the queue the task works on.
Task(kind, r) == [kind |-> kind, request |-> r]

VARIABLES
  flag,         \* ConsumerMain.flag
  main,         \* where the main thread is
  consumer,     \* where the consumer thread is
  sent,         \* the number of requests it has sent
  answered,     \* the requests that were answered
  open,         \* the pool has not been shut down
  queue,        \* the tasks of the pool no thread has taken
  running,      \* the task each of its threads runs
  stage,        \* how far the thread is, in a calculation
  interrupted,  \* the threads with an interrupt pending
  breakLoop,    \* the break flag of the pcap handle
  packets,      \* by queue: the requests that were the last sent when its packets were seen
  future,       \* the outcome of each subtask
  logged        \* the requests whose log the monitor has accepted

consumerVars == <<consumer, sent, answered>>
poolVars == <<open, queue, running, stage, interrupted>>
vars == <<flag, main, consumerVars, poolVars, breakLoop, packets, future, logged>>

Stages == {"start", "submitLoss", "bandwidth", "loss", "put"}

\* A subtask returns a measurement, or a text in place of one, or throws.
Returned == {"value", "text"}
Outcomes(s) == IF s = "loss" THEN Returned \cup {"failed"} ELSE {"value", "failed"}

----------------------------------------------------------------------------
Init ==
  /\ flag = TRUE
  /\ main = "stdin"
  /\ consumer = "loop"
  /\ sent = 0
  /\ answered = {}
  /\ open = TRUE
  /\ queue = <<>>
  /\ running = [w \in Workers |-> NoTask]
  /\ stage = [w \in Workers |-> "start"]
  /\ interrupted = {}
  /\ breakLoop = FALSE
  /\ packets = [r \in Requests |-> {}]
  /\ future = [r \in Requests |-> [s \in Subtasks |-> "none"]]
  /\ logged = {}

----------------------------------------------------------------------------
(* The consumer thread: the loop of ConsumerMain.main, consumeService and  *)
(* Stub.sendRequestM.                                                      *)

\* Mutant: the packets of all requests go to one queue.
SendRequestOneQueue ==
  /\ consumer = "loop"
  /\ flag
  /\ sent < MaxRequests
  /\ sent' = sent + 1
  /\ packets' = [packets EXCEPT ![sent + 1] = UNION {packets[r] : r \in 1..sent}]
  /\ queue' = Append(queue, Task("capture", sent + 1))
  /\ consumer' = "waiting"
  /\ UNCHANGED <<flag, main, answered, open, running, stage, interrupted,
                 breakLoop, future, logged>>

\* A queue is made, a capture with it handed to the pool, and the request sent.
SendRequest ==
  /\ consumer = "loop"
  /\ flag
  /\ sent < MaxRequests
  /\ sent' = sent + 1
  /\ packets' = [packets EXCEPT ![sent + 1] = {}]
  /\ queue' = Append(queue, Task("capture", sent + 1))
  /\ consumer' = "waiting"
  /\ UNCHANGED <<flag, main, answered, open, running, stage, interrupted,
                 breakLoop, future, logged>>

Answered ==
  /\ consumer = "waiting"
  /\ answered' = answered \cup {sent}
  /\ consumer' = "stop"
  /\ UNCHANGED <<flag, main, sent, poolVars, breakLoop, packets, future,
                 logged>>

\* UnavailableServerException.
Unavailable ==
  /\ consumer = "waiting"
  /\ consumer' = "stopOnly"
  /\ UNCHANGED <<flag, main, sent, answered, poolVars, breakLoop, packets,
                 future, logged>>

\* Any other exception of Utility.sendRequest ends the thread; the capture goes on.
RequestThrows ==
  /\ consumer = "waiting"
  /\ consumer' = "ended"
  /\ UNCHANGED <<flag, main, sent, answered, poolVars, breakLoop, packets,
                 future, logged>>

\* teste.stop.
StopCapture ==
  /\ consumer \in {"stop", "stopOnly"}
  /\ breakLoop' = TRUE
  /\ consumer' = IF consumer = "stop" THEN "submit" ELSE "loop"
  /\ UNCHANGED <<flag, main, sent, answered, poolVars, packets, future, logged>>

\* Mutant: the calculation is numbered after the next request.
SubmitCalculationLate ==
  /\ consumer = "submit"
  /\ queue' = Append(queue, Task("calculation", sent + 1))
  /\ consumer' \in {"loop", "ended"}
  /\ UNCHANGED <<flag, main, sent, answered, open, running, stage, interrupted,
                 breakLoop, packets, future, logged>>

\* The calculation is handed to the pool.  A readout without entries then
\* throws in consumeService, which ends the thread.
SubmitCalculation ==
  /\ consumer = "submit"
  /\ queue' = Append(queue, Task("calculation", sent))
  /\ consumer' \in {"loop", "ended"}
  /\ UNCHANGED <<flag, main, sent, answered, open, running, stage, interrupted,
                 breakLoop, packets, future, logged>>

SeesFlag ==
  /\ consumer = "loop"
  /\ ~flag
  /\ consumer' = "ended"
  /\ UNCHANGED <<flag, main, sent, answered, poolVars, breakLoop, packets,
                 future, logged>>

Consumer ==
  \/ SendRequest \/ Answered \/ Unavailable \/ RequestThrows
  \/ StopCapture \/ SubmitCalculation \/ SeesFlag

----------------------------------------------------------------------------
(* The threads of the pool.                                                *)

Take(w) ==
  /\ running[w] = NoTask
  /\ queue # <<>>
  /\ running' = [running EXCEPT ![w] = Head(queue)]
  /\ stage' = [stage EXCEPT ![w] = "start"]
  /\ queue' = Tail(queue)
  /\ UNCHANGED <<flag, main, consumerVars, open, interrupted, breakLoop,
                 packets, future, logged>>

\* The thread is free again, whether the task returned or threw.
Ends(w) == running' = [running EXCEPT ![w] = NoTask]

\* Mutant: the break flag stays set.
CaptureEndsFlagged(w) ==
  /\ running[w].kind = "capture"
  /\ breakLoop
  /\ Ends(w)
  /\ UNCHANGED <<flag, main, consumerVars, open, queue, stage, interrupted,
                 breakLoop, packets, future, logged>>

\* CaptureThread.run: the native loop adds a packet to the queue it was given, ...
Packet(w) ==
  /\ running[w].kind = "capture"
  /\ packets' = [packets EXCEPT ![running[w].request] = @ \cup {sent}]
  /\ UNCHANGED <<flag, main, consumerVars, poolVars, breakLoop, future, logged>>

\* ... and is left when it sees the break flag, whichever stop has set that.
CaptureEnds(w) ==
  /\ running[w].kind = "capture"
  /\ breakLoop
  /\ breakLoop' = FALSE
  /\ Ends(w)
  /\ UNCHANGED <<flag, main, consumerVars, open, queue, stage, interrupted,
                 packets, future, logged>>

\* calculateBandwidth and calculatePacketLoss; submit throws when the pool is shut down.
Submit(w, subtask, next) ==
  IF open
  THEN /\ queue' = Append(queue, Task(subtask, running[w].request))
       /\ future' = [future EXCEPT ![running[w].request][subtask] = "pending"]
       /\ stage' = [stage EXCEPT ![w] = next]
       /\ UNCHANGED running
  ELSE /\ Ends(w)
       /\ UNCHANGED <<queue, future, stage>>

SubmitBandwidth(w) ==
  /\ running[w].kind = "calculation"
  /\ stage[w] = "start"
  /\ Submit(w, "bandwidth", "submitLoss")
  /\ UNCHANGED <<flag, main, consumerVars, open, interrupted, breakLoop,
                 packets, logged>>

SubmitLoss(w) ==
  /\ running[w].kind = "calculation"
  /\ stage[w] = "submitLoss"
  /\ Submit(w, "loss", "bandwidth")
  /\ UNCHANGED <<flag, main, consumerVars, open, interrupted, breakLoop,
                 packets, logged>>

\* Mutant: a wait that nothing interrupts.
GetUninterruptibly(w, subtask, next) ==
  /\ running[w].kind = "calculation"
  /\ stage[w] = subtask
  /\ \/ /\ future[running[w].request][subtask] \in Returned
        /\ stage' = [stage EXCEPT ![w] = next]
        /\ UNCHANGED running
     \/ /\ future[running[w].request][subtask] = "failed"
        /\ Ends(w)
        /\ UNCHANGED stage
  /\ UNCHANGED <<flag, main, consumerVars, open, queue, interrupted, breakLoop,
                 packets, future, logged>>

\* Future.get: the value, ExecutionException, or InterruptedException, which
\* only a call that has to wait throws.
Get(w, subtask, next) ==
  /\ running[w].kind = "calculation"
  /\ stage[w] = subtask
  /\ \/ /\ future[running[w].request][subtask] \in Returned
        /\ stage' = [stage EXCEPT ![w] = next]
        /\ UNCHANGED running
     \/ /\ \/ future[running[w].request][subtask] = "failed"
           \/ future[running[w].request][subtask] = "pending" /\ w \in interrupted
        /\ Ends(w)
        /\ UNCHANGED stage
  /\ UNCHANGED <<flag, main, consumerVars, open, queue, interrupted, breakLoop,
                 packets, future, logged>>

GetBandwidth(w) == Get(w, "bandwidth", "loss")
GetLoss(w) == Get(w, "loss", "put")

\* The log is sent to the monitor; Utility.sendRequest throws unless it is accepted.
PutLog(w) ==
  /\ running[w].kind = "calculation"
  /\ stage[w] = "put"
  /\ logged' \in {logged, logged \cup {running[w].request}}
  /\ Ends(w)
  /\ UNCHANGED <<flag, main, consumerVars, open, queue, stage, interrupted,
                 breakLoop, packets, future>>

\* Mutant: an exception leaves the future without an outcome.
RunSubtaskSwallows(w) ==
  /\ running[w].kind \in Subtasks
  /\ \E outcome \in {"value", "pending"} :
       future' = [future EXCEPT ![running[w].request][running[w].kind] = outcome]
  /\ Ends(w)
  /\ UNCHANGED <<flag, main, consumerVars, open, queue, stage, interrupted,
                 breakLoop, packets, logged>>

\* The bodies of the two subtasks.  The bandwidth is computed from what is in the
\* queue, or a packet whose length is not a number makes it throw.  The loss is what ping
\* says; but an IOException is caught and "error" returned, and nothing is when
\* ping says nothing, as for its argument "4" joined to the address.  Output of
\* another form, or an interrupt, makes it throw.
RunSubtask(w) ==
  /\ running[w].kind \in Subtasks
  /\ \E outcome \in Outcomes(running[w].kind) :
       future' = [future EXCEPT ![running[w].request][running[w].kind] = outcome]
  /\ Ends(w)
  /\ UNCHANGED <<flag, main, consumerVars, open, queue, stage, interrupted,
                 breakLoop, packets, logged>>

Worker(w) ==
  \/ Take(w) \/ CaptureEnds(w) \/ RunSubtask(w)
  \/ SubmitBandwidth(w) \/ SubmitLoss(w) \/ GetBandwidth(w) \/ GetLoss(w) \/ PutLog(w)

----------------------------------------------------------------------------
(* The main thread.                                                        *)

ReadStop ==
  /\ main = "stdin"
  /\ flag' = FALSE
  /\ main' = "join"
  /\ UNCHANGED <<consumerVars, poolVars, breakLoop, packets, future, logged>>

\* An IOException of readLine, or of close after "stop", is caught: the main
\* thread joins a consumer thread that nobody has told to end.
InputFails ==
  /\ main = "stdin"
  /\ main' = "join"
  /\ UNCHANGED <<flag, consumerVars, poolVars, breakLoop, packets, future,
                 logged>>

\* readLine returns null at the end of input, and equals throws.
EndOfInput ==
  /\ main = "stdin"
  /\ main' = "ended"
  /\ UNCHANGED <<flag, consumerVars, poolVars, breakLoop, packets, future,
                 logged>>

\* Mutant: the queue is dropped and no thread is interrupted.
ReleaseQuietly ==
  /\ main = "join"
  /\ consumer = "ended"
  /\ open' = FALSE
  /\ queue' = <<>>
  /\ main' = "ended"
  /\ UNCHANGED <<flag, consumerVars, running, stage, interrupted, breakLoop,
                 packets, future, logged>>

\* t.join, then pool.shutdownNow of releaseResources; the two requests that
\* follow it touch none of this state.
ReleaseResources ==
  /\ main = "join"
  /\ consumer = "ended"
  /\ open' = FALSE
  /\ queue' = <<>>
  /\ interrupted' = {w \in Workers : running[w] # NoTask}
  /\ main' = "ended"
  /\ UNCHANGED <<flag, consumerVars, running, stage, breakLoop, packets,
                 future, logged>>

Main == ReadStop \/ EndOfInput \/ InputFails \/ ReleaseResources

----------------------------------------------------------------------------
Next == Consumer \/ Main \/ \E w \in Workers : Worker(w) \/ Packet(w)

Spec == Init /\ [][Next]_vars

\* Requests return (connect and read time out after 30 s), threads are
\* scheduled.  Nothing makes somebody type "stop".
FairSpec ==
  /\ Spec
  /\ WF_vars(Consumer)
  /\ WF_vars(ReleaseResources)
  /\ \A w \in Workers : WF_vars(Worker(w))

----------------------------------------------------------------------------
(* Properties.                                                             *)

\* The tasks that wait, and those that wait or run.
Queued == {queue[i] : i \in 1..Len(queue)}
InPool == Queued \cup {running[w] : w \in Workers}

\* Every variable has its type: what the pool has are tasks of the bounded requests.
TypeOK ==
  /\ flag \in BOOLEAN
  /\ main \in {"stdin", "join", "ended"}
  /\ consumer \in {"loop", "waiting", "stop", "stopOnly", "submit", "ended"}
  /\ sent \in 0..MaxRequests
  /\ answered \subseteq Requests
  /\ open \in BOOLEAN
  /\ queue \in Seq(Tasks)
  /\ running \in [Workers -> Tasks \cup {NoTask}]
  /\ stage \in [Workers -> Stages]
  /\ interrupted \subseteq Workers
  /\ breakLoop \in BOOLEAN
  /\ packets \in [Requests -> SUBSET Requests]
  /\ future \in [Requests -> [Subtasks -> {"none", "pending", "value", "text", "failed"}]]
  /\ logged \subseteq Requests

\* The capture of a request that has been sent is over.
CaptureOver(r) == r <= sent /\ Task("capture", r) \notin InPool

\* A request is between its start and its stop.
Outstanding(r) == r = sent /\ consumer \in {"waiting", "stop", "stopOnly"}

\* A stop may end the capture of another request, as all loop on one handle
\* (Stub.java:67, 90, 98).  But a request loses its own capture before its stop
\* only in exchange: the capture of an earlier request, which that request's
\* stop has not ended, is left in the pool.  No stop is left over that ends a
\* capture and leaves none, however late the pool starts the captures and
\* whichever of them sees the flag.
EarlyEndIsExchange ==
  [][\A r \in Requests :
       Outstanding(r) /\ ~CaptureOver(r) =>
         (CaptureOver(r)' => \E q \in 1..(r - 1) : ~(CaptureOver(q)'))]_vars

\* A calculation that waits for a subtask (CalculationThread.java:60-61) waits
\* for one that somebody will run: it is in the pool, or the pool has been
\* shut down and the wait is interrupted.  shutdownNow drops what is queued
\* (ConsumerMain.java:313), between any two steps of the calculation.
WaitIsAnswered ==
  \A w \in Workers, s \in Subtasks :
    /\ running[w].kind = "calculation"
    /\ stage[w] = s
    /\ future[running[w].request][s] = "pending"
    => Task(s, running[w].request) \in InPool \/ (~open /\ w \in interrupted)

\* What the monitor has logged for a request has been measured for it: it was
\* answered; its bandwidth was computed, from a queue in which no packet is from
\* before the request, though captures outlive theirs; and its loss was returned,
\* if only as "error" or as the empty string, which the code logs like a
\* measurement (Stub.java:66, CalculationThread.java:60-75, 86-98, 140-143).
LogIsOfItsRequest ==
  \A r \in logged : /\ r \in answered
                    /\ future[r]["bandwidth"] = "value"
                    /\ packets[r] \subseteq r..MaxRequests
                    /\ future[r]["loss"] \in Returned

\* No thread of the pool can go on: each runs a capture nobody has stopped, or
\* waits for a subtask that is queued behind it.
Starved ==
  \A w \in Workers :
    \/ running[w].kind = "capture" /\ ~breakLoop
    \/ /\ running[w].kind = "calculation"
       /\ \E s \in Subtasks :
            stage[w] = s /\ future[running[w].request][s] = "pending" /\ w \notin interrupted

\* Thread w can make a step: there is a task for it, its capture has been
\* stopped, or what its calculation waits for has happened.
CanGo(w) ==
  \/ running[w] = NoTask /\ queue # <<>>
  \/ running[w].kind = "capture" /\ breakLoop
  \/ running[w].kind \in Subtasks
  \/ /\ running[w].kind = "calculation"
     /\ \/ stage[w] \notin Subtasks
        \/ w \in interrupted
        \/ future[running[w].request][stage[w]] \in Returned \cup {"failed"}

\* Nothing but that holds up a calculation: a lost wake-up or a subtask that
\* neither waits nor runs would leave it without any thread that can go on,
\* though threads are free.
StallIsStarvation ==
  (\E r \in Requests : Task("calculation", r) \in InPool) =>
    Starved \/ \E w \in Workers : CanGo(w)

\* Every calculation ends, unless the five threads starve one another for ever:
\* CalculationThread.java:86 submits to the pool the calculation occupies.
CalculationEnds ==
  \A r \in Requests :
    Task("calculation", r) \in InPool ~> (Task("calculation", r) \notin InPool \/ []Starved)

\* After "stop" has cleared the flag the consumer thread ends, the pool is shut
\* down and, whatever its threads were waiting for, only captures are left
\* running (ConsumerMain.java:143-157, 313).  An exception of the input that
\* leaves the flag set has the main thread join for as long as requests return.
StopReleases ==
  main = "join" /\ ~flag ~>
    ~open /\ \A w \in Workers : running[w] = NoTask \/ running[w].kind = "capture"

=============================================================================
