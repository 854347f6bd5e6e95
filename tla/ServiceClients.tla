--------------------------- MODULE ServiceClients ---------------------------
(***************************************************************************)
(* The life of the Java clients: BasicProviderMain, FullProviderMain, the  *)
(* ProviderMain of ArrowheadProviderTest, SubscriberMain and               *)
(* PublisherMain, over ArrowheadClientMain; and of the C++ ProviderExample *)
(* ("example").  A client starts its web server, announces itself to the   *)
(* core systems by one request after the other, listens for "stop" (or, as *)
(* a daemon, for TERM), takes announcements back and exits.                *)
(*                                                                         *)
(* The core systems are external.  The Service Registry refuses an entry   *)
(* it lists (DUPLICATE_ENTRY); the others may take it again.  Until they   *)
(* are reliable a request may fail, get lost, lose its answer, or be       *)
(* handled after its client gave up waiting (30 s).                        *)
(*                                                                         *)
(* The web server's threads keep a JVM alive whose main thread has ended:  *)
(* that is how daemons and the subscriber run.  The main thread of the     *)
(* example sleeps for ever, registered or not.                             *)
(***************************************************************************)
EXTENDS Naturals, Sequences, FiniteSets

CONSTANTS
  Clients,     \* each on a port of its own: one process at a time serves there
  Entries,     \* what is announced: service entries, rights, rules, filters, events
  Services,    \* the entries of the Service Registry
  Insecure,    \* those that ArrowheadProviderTest registers for its insecure server
  Profiles,    \* per client, how it may have been configured
  MaxLate,     \* bound: requests handled late, at a time
  MaxCrashes   \* bound: times a client that has not failed is killed

Kinds == {"basic", "full", "test", "subscriber", "publisher", "example"}

ASSUME EntriesAssumption == Services \subseteq Entries
ASSUME BoundsAssumption == MaxCrashes \in Nat

\* A plan is the sequence of announcements; the first of a full provider's is
\* its service entry, the others are for Authorization and Orchestrator.
ASSUME ProfilesAssumption ==
  \A c \in Clients : \A p \in Profiles[c] :
    /\ p.kind \in Kinds
    /\ p.daemon \in BOOLEAN
    /\ p.plan \in Seq(Entries)
    /\ p.plan # <<>>
    /\ \A i, j \in 1..Len(p.plan) : p.plan[i] = p.plan[j] => i = j

VARIABLES
  profile,   \* the configuration of each client
  state,     \* where its process is
  step,      \* the announcement it makes or takes back
  ended,     \* how its last process ended
  listed,    \* what the core systems have
  stray,     \* the entries last changed by a request its client had given up
  late,      \* the requests given up that will still be handled
  reliable,  \* the core systems are, from now on
  crashes

clientVars == <<state, step, ended, crashes>>
coreVars == <<listed, stray, late>>
vars == <<profile, clientVars, coreVars, reliable>>

States == {"off", "registering", "replacing", "again", "listening", "returned",
           "stopping", "orphan", "hung"}
LateRequests == [op : {"register", "remove"}, entry : Entries]

----------------------------------------------------------------------------
Init ==
  /\ profile \in {f \in [Clients -> UNION {Profiles[c] : c \in Clients}] :
                    \A c \in Clients : f[c] \in Profiles[c]}
  /\ state = [c \in Clients |-> "off"]
  /\ step = [c \in Clients |-> 1]
  /\ ended = [c \in Clients |-> "none"]
  /\ listed = {}
  /\ stray = {}
  /\ late = {}
  /\ reliable = FALSE
  /\ crashes = 0

Kind(c) == profile[c].kind
Daemon(c) == profile[c].daemon
Plan(c) == profile[c].plan
Announces(c) == {Plan(c)[i] : i \in 1..Len(Plan(c))}

----------------------------------------------------------------------------
(* The core systems.                                                       *)

\* What handling a request does, and the answer.
Handle(op, e, answer) ==
  \/ /\ op = "register" /\ answer = "ok"
     /\ e \in Services => e \notin listed
     /\ listed' = listed \cup {e}
     /\ stray' = stray \ {e}
  \/ /\ op = "register" /\ answer = "duplicate"
     /\ e \in listed
     /\ UNCHANGED <<listed, stray>>
  \/ /\ op = "remove" /\ answer = "ok"
     /\ listed' = listed \ {e}
     /\ stray' = stray \ {e}

\* Utility.sendRequest: any answer but success is an exception; "unknown" is
\* one without a type, of an error whose body is no ErrorMessage.
Send(op, e, answer) ==
  \/ /\ Handle(op, e, answer)
     /\ UNCHANGED late
  \/ /\ ~reliable
     /\ answer \in {"error", "unknown"}
     /\ \/ UNCHANGED coreVars
        \/ \E a \in {"ok", "duplicate"} : Handle(op, e, a) /\ UNCHANGED late
        \/ /\ Cardinality(late) < MaxLate
           /\ late' = late \cup {[op |-> op, entry |-> e]}
           /\ UNCHANGED <<listed, stray>>

Answers == {"ok", "duplicate", "error", "unknown"}

\* A request is handled after its client gave up, or never.
HandleLate(r) ==
  /\ r \in late
  /\ late' = late \ {r}
  /\ \/ UNCHANGED <<listed, stray>>
     \/ /\ listed' = IF r.op = "register" THEN listed \cup {r.entry} ELSE listed \ {r.entry}
        /\ stray' = IF listed' = listed THEN stray ELSE stray \cup {r.entry}
  /\ UNCHANGED <<profile, clientVars, reliable>>

BecomeReliable ==
  /\ ~reliable
  /\ reliable' = TRUE
  /\ UNCHANGED <<profile, clientVars, coreVars>>

----------------------------------------------------------------------------
(* Starting.                                                               *)

Become(c, s) == state' = [state EXCEPT ![c] = s]

\* The web server starts: no other process serves on the port.
Start(c) ==
  /\ state[c] \in {"off", "hung"}
  /\ Become(c, "registering")
  /\ step' = [step EXCEPT ![c] = 1]
  /\ ended' = [ended EXCEPT ![c] = "none"]
  /\ UNCHANGED <<profile, coreVars, reliable, crashes>>

\* The subscriber's constructor returns without a call of listenForInput, and
\* the main of the example takes no command.
NeverListens(c) == Kind(c) \in {"subscriber", "example"}

\* Mutant: the number of announcements is compared the wrong way.
ProceedPastEnd(c) ==
  IF step[c] <= Len(Plan(c))
  THEN step' = [step EXCEPT ![c] = @ + 1] /\ Become(c, "registering")
  ELSE /\ step' = [step EXCEPT ![c] = 1]
       /\ Become(c, IF NeverListens(c) THEN "returned" ELSE "listening")

\* The next announcement, or the end of the constructor.
Proceed(c) ==
  IF step[c] < Len(Plan(c))
  THEN step' = [step EXCEPT ![c] = @ + 1] /\ Become(c, "registering")
  ELSE /\ step' = [step EXCEPT ![c] = 1]
       /\ Become(c, IF NeverListens(c) THEN "returned" ELSE "listening")

\* An exception ends the main thread (registerSensor of the example returns
\* false); the web server goes on.
Throw(c) == Become(c, "orphan") /\ UNCHANGED step

\* A duplicate is replaced in the Service Registry; the example takes any
\* answer but 201 for a sign of one ("Already registered?").
Replaces(c, answer) ==
  \/ answer = "duplicate" /\ (Kind(c) = "test" \/ (Kind(c) \in {"basic", "full"} /\ step[c] = 1))
  \/ answer # "ok" /\ Kind(c) = "example"

\* The insecure branch of the test provider has no else: other errors are dropped.
Drops(c, e) == Kind(c) = "test" /\ e \in Insecure

\* Mutant: a duplicate entry is rethrown like any other error.
RegisterRethrows(c) ==
  /\ state[c] = "registering"
  /\ \E answer \in Answers :
       /\ Send("register", Plan(c)[step[c]], answer)
       /\ IF answer = "ok" \/ (answer = "error" /\ Drops(c, Plan(c)[step[c]]))
          THEN Proceed(c) ELSE Throw(c)
  /\ UNCHANGED <<profile, ended, reliable, crashes>>

\* The test provider tests the type of the exception, which may be null.
Register(c) ==
  /\ state[c] = "registering"
  /\ \E answer \in Answers :
       /\ Send("register", Plan(c)[step[c]], answer)
       /\ \/ /\ answer = "ok" \/ (answer = "error" /\ Drops(c, Plan(c)[step[c]]))
             /\ Proceed(c)
          \/ /\ Replaces(c, answer)
             /\ Become(c, "replacing")
             /\ UNCHANGED step
          \/ /\ answer # "ok"
             /\ ~(answer = "error" /\ Drops(c, Plan(c)[step[c]]))
             /\ ~Replaces(c, answer)
             /\ Throw(c)
  /\ UNCHANGED <<profile, ended, reliable, crashes>>

\* unregisterFromServiceRegistry of the entry found.
Replace(c) ==
  /\ state[c] = "replacing"
  /\ \E answer \in Answers :
       /\ Send("remove", Plan(c)[step[c]], answer)
       /\ IF answer = "ok" THEN Become(c, "again") /\ UNCHANGED step ELSE Throw(c)
  /\ UNCHANGED <<profile, ended, reliable, crashes>>

\* Mutant: the answer to the second request is not looked at.
RegisterAgainUnchecked(c) ==
  /\ state[c] = "again"
  /\ \E answer \in Answers : Send("register", Plan(c)[step[c]], answer) /\ Proceed(c)
  /\ UNCHANGED <<profile, ended, reliable, crashes>>

\* Nothing is caught inside the catch block.
RegisterAgain(c) ==
  /\ state[c] = "again"
  /\ \E answer \in Answers :
       /\ Send("register", Plan(c)[step[c]], answer)
       /\ IF answer = "ok" THEN Proceed(c) ELSE Throw(c)
  /\ UNCHANGED <<profile, ended, reliable, crashes>>

----------------------------------------------------------------------------
(* Stopping.                                                               *)

\* What shutdown takes back: the basic provider and the publisher inherit one
\* that takes back nothing, the subscriber's is never called, and the example
\* has none (nothing calls deregisterSensor).
Removals(c) ==
  IF Kind(c) = "full" THEN <<Plan(c)[1]>>
  ELSE IF Kind(c) = "test" THEN Plan(c)
  ELSE <<>>

\* "stop" is read or, in a daemon, TERM runs the shutdown hook.
Stop(c) ==
  /\ state[c] = "listening"
  /\ Become(c, "stopping")
  /\ UNCHANGED <<profile, step, ended, coreVars, reliable, crashes>>

\* readLine returns null at the end of input, and equals throws.
EndOfInput(c) ==
  /\ state[c] = "listening"
  /\ ~Daemon(c)
  /\ Become(c, "orphan")
  /\ UNCHANGED <<profile, step, ended, coreVars, reliable, crashes>>

\* Mutant: an entry that cannot be removed is passed over.
RemovePassesOver(c) ==
  /\ state[c] = "stopping"
  /\ step[c] <= Len(Removals(c))
  /\ \E answer \in Answers : Send("remove", Removals(c)[step[c]], answer)
  /\ step' = [step EXCEPT ![c] = @ + 1]
  /\ UNCHANGED <<profile, state, ended, reliable, crashes>>

\* unregisterFromServiceRegistry.  An exception ends the main thread with the
\* server running or, in the hook, lets the JVM go on to its end.
Remove(c) ==
  /\ state[c] = "stopping"
  /\ step[c] <= Len(Removals(c))
  /\ \E answer \in Answers :
       /\ Send("remove", Removals(c)[step[c]], answer)
       /\ \/ /\ answer = "ok"
             /\ step' = [step EXCEPT ![c] = @ + 1]
             /\ UNCHANGED <<state, ended>>
          \/ /\ answer # "ok"
             /\ Become(c, IF Daemon(c) THEN "off" ELSE "orphan")
             /\ ended' = [ended EXCEPT ![c] = IF Daemon(c) THEN "failed" ELSE @]
             /\ UNCHANGED step
  /\ UNCHANGED <<profile, reliable, crashes>>

\* shutdown ends with System.exit, except that of the test provider; called in
\* a shutdown hook, System.exit never returns and the JVM never halts.
HookExits(c) == Daemon(c) /\ Kind(c) # "test"

\* Mutant: every shutdown ends with System.exit.
ShutdownExits(c) ==
  /\ state[c] = "stopping"
  /\ step[c] > Len(Removals(c))
  /\ Become(c, IF Daemon(c) THEN "hung" ELSE "off")
  /\ ended' = [ended EXCEPT ![c] = "shutdown"]
  /\ UNCHANGED <<profile, step, coreVars, reliable, crashes>>

\* The server is stopped, and with it the last threads of the client.
Shutdown(c) ==
  /\ state[c] = "stopping"
  /\ step[c] > Len(Removals(c))
  /\ Become(c, IF HookExits(c) THEN "hung" ELSE "off")
  /\ ended' = [ended EXCEPT ![c] = "shutdown"]
  /\ UNCHANGED <<profile, step, coreVars, reliable, crashes>>

\* A crash, or TERM while no hook is registered.
Kill(c) ==
  /\ state[c] # "off"
  /\ IF state[c] \in {"orphan", "hung"}
     THEN UNCHANGED crashes
     ELSE crashes < MaxCrashes /\ crashes' = crashes + 1
  /\ Become(c, "off")
  /\ ended' = [ended EXCEPT ![c] = "killed"]
  /\ UNCHANGED <<profile, step, coreVars, reliable>>

Run(c) ==
  Register(c) \/ Replace(c) \/ RegisterAgain(c) \/ Remove(c) \/ Shutdown(c)

Next ==
  \/ \E c \in Clients : Start(c) \/ Run(c) \/ Stop(c) \/ EndOfInput(c) \/ Kill(c)
  \/ \E r \in LateRequests : HandleLate(r)
  \/ BecomeReliable

Spec == Init /\ [][Next]_vars

\* A request returns within its timeouts; the operator starts a client that is
\* not running, and first kills one that has failed.
Fairness ==
  \A c \in Clients : /\ WF_vars(Run(c))
                     /\ WF_vars(Start(c))
                     /\ WF_vars(state[c] = "orphan" /\ Kill(c))

FairSpec == Spec /\ Fairness

----------------------------------------------------------------------------
(* Properties.                                                             *)

\* Every variable has its type; a client in one of the states of the start or
\* of the stop is at an announcement it has.
TypeOK ==
  /\ profile \in [Clients -> UNION {Profiles[c] : c \in Clients}]
  /\ \A c \in Clients : profile[c] \in Profiles[c]
  /\ state \in [Clients -> States]
  /\ step \in [Clients -> Nat]
  /\ \A c \in Clients :
       /\ state[c] \in {"registering", "replacing", "again"} => step[c] \in 1..Len(Plan(c))
       /\ state[c] = "stopping" => step[c] \in 1..Len(Removals(c)) + 1
  /\ ended \in [Clients -> {"none", "shutdown", "failed", "killed"}]
  /\ listed \subseteq Entries
  /\ stray \subseteq Entries
  /\ late \subseteq LateRequests
  /\ reliable \in BOOLEAN
  /\ crashes \in 0..MaxCrashes

\* No other client announces an entry of c.
Alone(c) == \A d \in Clients \ {c} : Announces(c) \cap Announces(d) = {}

\* A client that has come through its start ("Registering service is
\* successful!", "Subscribed to ...") is announced, whatever an earlier process
\* left behind and whatever got lost on the way, except where an error is
\* dropped; afterwards only a request it had given up takes an entry away.
AnnouncedIsListed ==
  \A c \in Clients :
    state[c] \in {"listening", "returned"} /\ Alone(c) =>
      \A e \in Announces(c) : e \in listed \cup stray \/ Drops(c, e)

\* A full or a test provider that shut down leaves none of the entries its
\* shutdown removes, which are all its services: it removes each or does not
\* come to the end (FullProviderMain.java:124-131, ProviderMain.java:189-199);
\* only a request it had given up brings one back.  Of the kinds without
\* Removals it says nothing: the basic provider, whose shutdown is that of
\* ArrowheadClientMain.java:180-186, leaves its service listed.
ShutdownRemoves ==
  \A c \in Clients :
    state[c] \in {"off", "hung"} /\ ended[c] = "shutdown" /\ Alone(c) =>
      \A i \in 1..Len(Removals(c)) : Removals(c)[i] \notin listed \ stray

\* Once the core systems answer, a client told to stop ends; one that exits in
\* its shutdown hook ends at its work only and has to be killed.
StopEnds ==
  \A c \in Clients :
    (state[c] = "stopping" /\ reliable)
      ~> (state[c] = "off" \/ (state[c] = "hung" /\ HookExits(c)))

\* A provider of services alone gets through its start once the core systems
\* answer, whatever an earlier process left in the registry.
StartRecovers ==
  \A c \in Clients :
    (reliable /\ Announces(c) \subseteq Services /\ Kind(c) \notin {"subscriber", "publisher"} /\ Alone(c))
      ~> state[c] \in {"listening", "returned"}

=============================================================================
