------------------------ MODULE ServiceClientsProofs ------------------------
(***************************************************************************)
(* Proofs about ServiceClients, for any clients, configurations, entries   *)
(* and bounds.  Progress says what a client has achieved when it is at an  *)
(* announcement of its start or of its stop; for a client that shares no   *)
(* entry it is stable under everybody else's steps, because a request      *)
(* handled late marks the entry it changes as stray.                       *)
(***************************************************************************)
EXTENDS ServiceClients, TLAPS

----------------------------------------------------------------------------
(* The inductive invariant.                                                *)

\* The i-th entry is announced, or its refusal was dropped.
Done(c, i) == Plan(c)[i] \in listed \cup stray \/ Drops(c, Plan(c)[i])

\* The i-th entry that shutdown removes is gone.
Gone(c, i) == Removals(c)[i] \notin listed \ stray

StartProgress(c) ==
  /\ state[c] \in {"registering", "replacing", "again"} => \A i \in 1..step[c] - 1 : Done(c, i)
  /\ state[c] \in {"listening", "returned"} => \A i \in 1..Len(Plan(c)) : Done(c, i)

StopProgress(c) ==
  /\ state[c] = "stopping" => \A i \in 1..step[c] - 1 : Gone(c, i)
  /\ state[c] \in {"off", "hung"} /\ ended[c] = "shutdown" =>
       \A i \in 1..Len(Removals(c)) : Gone(c, i)

\* The stop begins with the first announcement.
StopsFromFirst == \A c \in Clients : state[c] = "listening" => step[c] = 1

Progress == \A c \in Clients : Alone(c) => StartProgress(c) /\ StopProgress(c)

Inv == TypeOK /\ StopsFromFirst /\ Progress

----------------------------------------------------------------------------
(* Plans and requests.                                                     *)

\* Nothing changes a configuration.
LEMMA SameConfiguration ==
  ASSUME UNCHANGED profile
  PROVE  /\ \A c : Plan(c)' = Plan(c) /\ Kind(c)' = Kind(c) /\ Daemon(c)' = Daemon(c)
         /\ \A c : Removals(c)' = Removals(c) /\ Announces(c)' = Announces(c)
         /\ \A c : Alone(c)' <=> Alone(c)
BY DEF Plan, Kind, Daemon, Removals, Announces, Alone

\* The entries a client announces are those of its plan.
LEMMA PlanType ==
  ASSUME TypeOK, NEW c \in Clients
  PROVE  /\ Plan(c) \in Seq(Entries)
         /\ Len(Plan(c)) \in Nat \ {0}
         /\ \A i \in 1..Len(Plan(c)) : Plan(c)[i] \in Entries
         /\ \A i, j \in 1..Len(Plan(c)) : Plan(c)[i] = Plan(c)[j] => i = j
         /\ Kind(c) \in Kinds
         /\ Daemon(c) \in BOOLEAN
<1>1. profile[c] \in Profiles[c]
  BY DEF TypeOK
<1>2. /\ Plan(c) \in Seq(Entries)
      /\ Plan(c) # <<>>
      /\ Kind(c) \in Kinds
      /\ Daemon(c) \in BOOLEAN
      /\ \A i, j \in 1..Len(Plan(c)) : Plan(c)[i] = Plan(c)[j] => i = j
  BY <1>1, ProfilesAssumption DEF Plan, Kind, Daemon
<1>3. QED
  BY <1>2

\* What is taken back was announced.
LEMMA RemovalsType ==
  ASSUME TypeOK, NEW c \in Clients
  PROVE  /\ Removals(c) \in Seq(Entries)
         /\ Len(Removals(c)) \in Nat
         /\ \A i \in 1..Len(Removals(c)) : Removals(c)[i] \in Announces(c)
<1>1. Len(<<Plan(c)[1]>>) = 1 /\ <<Plan(c)[1]>>[1] = Plan(c)[1]
  OBVIOUS
<1>2. 1 \in 1..Len(Plan(c))
  BY PlanType
<1>3. CASE Kind(c) = "full"
  BY <1>1, <1>2, <1>3, PlanType DEF Removals, Announces
<1>4. CASE Kind(c) = "test"
  BY <1>4, PlanType DEF Removals, Announces
<1>5. CASE Kind(c) # "full" /\ Kind(c) # "test"
  <2>1. Removals(c) = <<>>
    BY <1>5 DEF Removals
  <2>2. QED
    BY <2>1
<1>6. QED
  BY <1>3, <1>4, <1>5

\* A request changes the core systems in the entry it is about.
LEMMA SendEffect ==
  ASSUME TypeOK, NEW op \in {"register", "remove"}, NEW e \in Entries, NEW answer \in Answers,
         Send(op, e, answer)
  PROVE  /\ listed' \subseteq Entries /\ stray' \subseteq Entries /\ late' \subseteq LateRequests
         /\ \A x : x # e => (x \in listed' <=> x \in listed) /\ (x \in stray' <=> x \in stray)
         /\ op = "register" /\ answer = "ok" => e \in listed'
         /\ op = "remove" /\ answer = "ok" => e \notin listed'
BY DEF Send, Handle, TypeOK, LateRequests, coreVars, Answers

----------------------------------------------------------------------------
(* Types and where a client is in its plan.                                *)

LEMMA TypeInit == Init => TypeOK
<1> SUFFICES ASSUME Init PROVE TypeOK
  OBVIOUS
<1>1. /\ profile \in [Clients -> UNION {Profiles[c] : c \in Clients}]
      /\ \A c \in Clients : profile[c] \in Profiles[c]
  BY DEF Init
<1>2. /\ state \in [Clients -> States] /\ step \in [Clients -> Nat]
      /\ ended \in [Clients -> {"none", "shutdown", "failed", "killed"}]
      /\ \A c \in Clients : state[c] = "off"
  BY DEF Init, States
<1>3. listed \subseteq Entries /\ stray \subseteq Entries /\ late \subseteq LateRequests
  BY DEF Init
<1>4. crashes \in 0..MaxCrashes
  BY BoundsAssumption DEF Init
<1>5. reliable \in BOOLEAN
  BY DEF Init
<1>6. QED
  BY <1>1, <1>2, <1>3, <1>4, <1>5 DEF TypeOK

\* The same client with the next announcement of the start.
LEMMA ProceedType ==
  ASSUME TypeOK, NEW c \in Clients, step[c] \in 1..Len(Plan(c)), Proceed(c), UNCHANGED profile
  PROVE  /\ state' \in [Clients -> States]
         /\ step' \in [Clients -> Nat]
         /\ \A d \in Clients \ {c} : state'[d] = state[d] /\ step'[d] = step[d]
         /\ state'[c] = "registering" => step'[c] \in 1..Len(Plan(c))
         /\ state'[c] \in {"registering", "listening", "returned"}
<1>1. Len(Plan(c)) \in Nat
  BY PlanType
<1>2. /\ state \in [Clients -> States] /\ step \in [Clients -> Nat]
  BY DEF TypeOK
<1>3. CASE step[c] < Len(Plan(c))
  <2>1. step' = [step EXCEPT ![c] = step[c] + 1] /\ state' = [state EXCEPT ![c] = "registering"]
    BY <1>3 DEF Proceed, Become
  <2>2. QED
    BY <1>1, <1>2, <1>3, <2>1 DEF States
<1>4. CASE ~(step[c] < Len(Plan(c)))
  <2>1. step' = [step EXCEPT ![c] = 1]
    BY <1>4 DEF Proceed
  <2>2. state' = [state EXCEPT ![c] = "returned"] \/ state' = [state EXCEPT ![c] = "listening"]
    BY <1>4 DEF Proceed, Become
  <2>3. QED
    BY <1>1, <1>2, <2>1, <2>2 DEF States
<1>5. QED
  BY <1>3, <1>4

\* A step of one client that keeps its types and its place in its plan.
LEMMA ClientType ==
  ASSUME TypeOK, NEW c \in Clients, UNCHANGED profile,
         state' \in [Clients -> States], step' \in [Clients -> Nat],
         ended' \in [Clients -> {"none", "shutdown", "failed", "killed"}],
         \A d \in Clients \ {c} : state'[d] = state[d] /\ step'[d] = step[d],
         state'[c] \in {"registering", "replacing", "again"} => step'[c] \in 1..Len(Plan(c)),
         state'[c] = "stopping" => step'[c] \in 1..Len(Removals(c)) + 1,
         listed' \subseteq Entries, stray' \subseteq Entries, late' \subseteq LateRequests,
         UNCHANGED reliable, crashes' \in 0..MaxCrashes
  PROVE  TypeOK'
<1>1. \A d \in Clients :
        /\ state'[d] \in {"registering", "replacing", "again"} => step'[d] \in 1..Len(Plan(d))'
        /\ state'[d] = "stopping" => step'[d] \in 1..Len(Removals(d))' + 1
  BY SameConfiguration DEF TypeOK
<1>2. reliable' \in BOOLEAN
  BY DEF TypeOK
<1>3. /\ profile' \in [Clients -> UNION {Profiles[d] : d \in Clients}]
      /\ \A d \in Clients : profile'[d] \in Profiles[d]
  BY DEF TypeOK
<1>4. QED
  BY <1>1, <1>2, <1>3 DEF TypeOK

\* The announcement a client is at is an entry.
LEMMA CurrentEntry ==
  ASSUME TypeOK, NEW c \in Clients, state[c] \in {"registering", "replacing", "again"}
  PROVE  step[c] \in 1..Len(Plan(c)) /\ Plan(c)[step[c]] \in Entries
BY PlanType DEF TypeOK

LEMMA TypeStep == TypeOK /\ StopsFromFirst /\ [Next]_vars => TypeOK'
<1> SUFFICES ASSUME TypeOK, StopsFromFirst, [Next]_vars PROVE TypeOK'
  OBVIOUS
<1>0. /\ state \in [Clients -> States] /\ step \in [Clients -> Nat]
      /\ ended \in [Clients -> {"none", "shutdown", "failed", "killed"}]
      /\ listed \subseteq Entries /\ stray \subseteq Entries /\ late \subseteq LateRequests
      /\ crashes \in 0..MaxCrashes
  BY DEF TypeOK
<1>1. ASSUME NEW c \in Clients, Start(c) PROVE TypeOK'
  <2>1. Len(Plan(c)) \in Nat \ {0}
    BY PlanType
  <2>2. QED
    BY <1>0, <1>1, <2>1, ClientType DEF Start, Become, States, coreVars
<1>2. ASSUME NEW c \in Clients, Register(c) PROVE TypeOK'
  <2>1. PICK answer \in Answers :
          /\ Send("register", Plan(c)[step[c]], answer)
          /\ Proceed(c) \/ (Become(c, "replacing") /\ UNCHANGED step) \/ Throw(c)
    BY <1>2 DEF Register
  <2>2. step[c] \in 1..Len(Plan(c)) /\ Plan(c)[step[c]] \in Entries /\ UNCHANGED profile
    BY <1>2, CurrentEntry DEF Register
  <2>3. listed' \subseteq Entries /\ stray' \subseteq Entries /\ late' \subseteq LateRequests
    BY <2>1, <2>2, SendEffect
  <2>4. /\ state' \in [Clients -> States] /\ step' \in [Clients -> Nat]
        /\ \A d \in Clients \ {c} : state'[d] = state[d] /\ step'[d] = step[d]
        /\ state'[c] \in {"registering", "replacing", "again"} => step'[c] \in 1..Len(Plan(c))
        /\ state'[c] # "stopping"
    <3>1. CASE Proceed(c)
      BY <2>2, <3>1, ProceedType
    <3>2. CASE (Become(c, "replacing") /\ UNCHANGED step) \/ Throw(c)
      BY <1>0, <2>2, <3>2 DEF Become, Throw, States
    <3>3. QED
      BY <2>1, <3>1, <3>2
  <2>5. UNCHANGED <<ended, reliable, crashes>>
    BY <1>2 DEF Register
  <2>6. QED
    BY <1>0, <2>2, <2>3, <2>4, <2>5, ClientType
<1>3. ASSUME NEW c \in Clients, Replace(c) PROVE TypeOK'
  <2>1. PICK answer \in Answers :
          /\ Send("remove", Plan(c)[step[c]], answer)
          /\ (Become(c, "again") /\ UNCHANGED step) \/ Throw(c)
    BY <1>3 DEF Replace
  <2>2. step[c] \in 1..Len(Plan(c)) /\ Plan(c)[step[c]] \in Entries
    BY <1>3, CurrentEntry DEF Replace
  <2>3. listed' \subseteq Entries /\ stray' \subseteq Entries /\ late' \subseteq LateRequests
    BY <2>1, <2>2, SendEffect
  <2>4. UNCHANGED <<profile, ended, reliable, crashes>>
    BY <1>3 DEF Replace
  <2>5. QED
    BY <1>0, <2>1, <2>2, <2>3, <2>4, ClientType DEF Become, Throw, States
<1>4. ASSUME NEW c \in Clients, RegisterAgain(c) PROVE TypeOK'
  <2>1. PICK answer \in Answers :
          /\ Send("register", Plan(c)[step[c]], answer)
          /\ Proceed(c) \/ Throw(c)
    BY <1>4 DEF RegisterAgain
  <2>2. step[c] \in 1..Len(Plan(c)) /\ Plan(c)[step[c]] \in Entries /\ UNCHANGED profile
    BY <1>4, CurrentEntry DEF RegisterAgain
  <2>3. listed' \subseteq Entries /\ stray' \subseteq Entries /\ late' \subseteq LateRequests
    BY <2>1, <2>2, SendEffect
  <2>4. /\ state' \in [Clients -> States] /\ step' \in [Clients -> Nat]
        /\ \A d \in Clients \ {c} : state'[d] = state[d] /\ step'[d] = step[d]
        /\ state'[c] \in {"registering", "replacing", "again"} => step'[c] \in 1..Len(Plan(c))
        /\ state'[c] # "stopping"
    <3>1. CASE Proceed(c)
      BY <2>2, <3>1, ProceedType
    <3>2. CASE Throw(c)
      BY <1>0, <2>2, <3>2 DEF Become, Throw, States
    <3>3. QED
      BY <2>1, <3>1, <3>2
  <2>5. UNCHANGED <<ended, reliable, crashes>>
    BY <1>4 DEF RegisterAgain
  <2>6. QED
    BY <1>0, <2>2, <2>3, <2>4, <2>5, ClientType
<1>5. ASSUME NEW c \in Clients, Remove(c) PROVE TypeOK'
  <2>1. PICK answer \in Answers :
          /\ Send("remove", Removals(c)[step[c]], answer)
          /\ \/ step' = [step EXCEPT ![c] = @ + 1] /\ UNCHANGED <<state, ended>>
             \/ /\ Become(c, IF Daemon(c) THEN "off" ELSE "orphan")
                /\ ended' = [ended EXCEPT ![c] = IF Daemon(c) THEN "failed" ELSE @]
                /\ UNCHANGED step
    BY <1>5 DEF Remove
  <2>2. /\ state[c] = "stopping" /\ step[c] \in 1..Len(Removals(c)) /\ Len(Removals(c)) \in Nat
        /\ Removals(c)[step[c]] \in Entries
    <3>1. state[c] = "stopping" /\ step[c] <= Len(Removals(c))
      BY <1>5 DEF Remove
    <3>2. step[c] \in 1..Len(Removals(c)) + 1
      BY <3>1 DEF TypeOK
    <3>3. Removals(c) \in Seq(Entries) /\ Len(Removals(c)) \in Nat
      BY RemovalsType
    <3>4. step[c] \in 1..Len(Removals(c))
      BY <3>1, <3>2, <3>3
    <3>5. QED
      BY <3>1, <3>3, <3>4
  <2>3. listed' \subseteq Entries /\ stray' \subseteq Entries /\ late' \subseteq LateRequests
    BY <2>1, <2>2, SendEffect
  <2>4. UNCHANGED <<profile, reliable, crashes>>
    BY <1>5 DEF Remove
  <2>5. CASE step' = [step EXCEPT ![c] = @ + 1] /\ UNCHANGED <<state, ended>>
    BY <1>0, <2>2, <2>3, <2>4, <2>5, ClientType
  <2>6. CASE /\ Become(c, IF Daemon(c) THEN "off" ELSE "orphan")
             /\ ended' = [ended EXCEPT ![c] = IF Daemon(c) THEN "failed" ELSE @]
             /\ UNCHANGED step
    <3>1. state' \in [Clients -> States] /\ state'[c] \in {"off", "orphan"}
      BY <1>0, <2>6 DEF Become, States
    <3>2. \A d \in Clients \ {c} : state'[d] = state[d]
      BY <1>0, <2>6 DEF Become
    <3>3. ended' \in [Clients -> {"none", "shutdown", "failed", "killed"}]
      BY <1>0, <2>6
    <3>4. QED
      BY <1>0, <2>3, <2>4, <2>6, <3>1, <3>2, <3>3, ClientType
  <2>7. QED
    BY <2>1, <2>5, <2>6
<1>6. ASSUME NEW c \in Clients, Shutdown(c) PROVE TypeOK'
  <2>1. state' \in [Clients -> States] /\ state'[c] \in {"off", "hung"}
    BY <1>0, <1>6 DEF Shutdown, Become, States
  <2>2. \A d \in Clients \ {c} : state'[d] = state[d]
    BY <1>0, <1>6 DEF Shutdown, Become
  <2>3. ended' \in [Clients -> {"none", "shutdown", "failed", "killed"}]
    BY <1>0, <1>6 DEF Shutdown
  <2>4. QED
    BY <1>0, <1>6, <2>1, <2>2, <2>3, ClientType DEF Shutdown, coreVars
<1>7. ASSUME NEW c \in Clients, Stop(c) PROVE TypeOK'
  <2>1. step[c] = 1 /\ Len(Removals(c)) \in Nat
    BY <1>7, RemovalsType DEF Stop, StopsFromFirst
  <2>2. QED
    BY <1>0, <1>7, <2>1, ClientType DEF Stop, Become, States, coreVars
<1>8. ASSUME NEW c \in Clients, EndOfInput(c) PROVE TypeOK'
  BY <1>0, <1>8, ClientType DEF EndOfInput, Become, States, coreVars
<1>9. ASSUME NEW c \in Clients, Kill(c) PROVE TypeOK'
  <2>1. crashes' \in 0..MaxCrashes
    BY <1>0, <1>9, BoundsAssumption DEF Kill
  <2>2. QED
    BY <1>0, <1>9, <2>1, ClientType DEF Kill, Become, States, coreVars
<1>10. ASSUME NEW r \in LateRequests, HandleLate(r) PROVE TypeOK'
  <2>1. r.entry \in Entries
    BY DEF LateRequests
  <2>2. listed' \subseteq Entries /\ stray' \subseteq Entries /\ late' \subseteq LateRequests
    BY <1>0, <1>10, <2>1 DEF HandleLate
  <2>3. QED
    BY <1>10, <2>2, SameConfiguration DEF HandleLate, TypeOK, clientVars
<1>11. CASE BecomeReliable
  BY <1>11, SameConfiguration DEF BecomeReliable, TypeOK, clientVars, coreVars
<1>12. CASE UNCHANGED vars
  BY <1>12, SameConfiguration DEF vars, TypeOK, clientVars, coreVars
<1>13. QED
  BY <1>1, <1>2, <1>3, <1>4, <1>5, <1>6, <1>7, <1>8, <1>9, <1>10, <1>11, <1>12 DEF Next, Run

----------------------------------------------------------------------------
(* What a client has achieved.                                             *)

\* Only Proceed makes a client listen, at its first announcement.
LEMMA StopsFromFirstStep == TypeOK /\ StopsFromFirst /\ [Next]_vars => StopsFromFirst'
<1> SUFFICES ASSUME TypeOK, StopsFromFirst, [Next]_vars, NEW c \in Clients, state'[c] = "listening"
             PROVE  step'[c] = 1
  BY DEF StopsFromFirst
<1>0. state \in [Clients -> States] /\ step \in [Clients -> Nat]
  BY DEF TypeOK
<1>1. state[c] = "listening" => step[c] = 1
  BY DEF StopsFromFirst
<1>2. ASSUME NEW d \in Clients, Proceed(d) PROVE step'[c] = 1
  BY <1>0, <1>1, <1>2 DEF Proceed, Become
<1>3. ASSUME NEW d \in Clients, NEW s \in States \ {"listening"}, Become(d, s), UNCHANGED step
      PROVE  step'[c] = 1
  BY <1>0, <1>1, <1>3 DEF Become
<1>4. ASSUME UNCHANGED <<state, step>> PROVE step'[c] = 1
  BY <1>1, <1>4
<1>5. ASSUME NEW d \in Clients, Start(d) PROVE step'[c] = 1
  BY <1>0, <1>1, <1>5 DEF Start, Become
<1>6. ASSUME NEW d \in Clients, Register(d) \/ RegisterAgain(d) \/ Replace(d) PROVE step'[c] = 1
  BY <1>2, <1>3, <1>6 DEF Register, RegisterAgain, Replace, Throw, States
<1>7. ASSUME NEW d \in Clients, Remove(d) PROVE step'[c] = 1
  <2>1. CASE step' = [step EXCEPT ![d] = @ + 1] /\ UNCHANGED state
    <3>1. c # d
      BY <1>7, <2>1 DEF Remove
    <3>2. QED
      BY <1>0, <1>1, <2>1, <3>1
  <2>2. CASE Become(d, IF Daemon(d) THEN "off" ELSE "orphan") /\ UNCHANGED step
    BY <1>3, <2>2 DEF States
  <2>3. QED
    BY <1>7, <2>1, <2>2 DEF Remove
<1>8. ASSUME NEW d \in Clients, Shutdown(d) PROVE step'[c] = 1
  BY <1>3, <1>8 DEF Shutdown, States
<1>9. ASSUME NEW d \in Clients, Stop(d) \/ EndOfInput(d) \/ Kill(d) PROVE step'[c] = 1
  BY <1>3, <1>9 DEF Stop, EndOfInput, Kill, States
<1>10. CASE (\E r \in LateRequests : HandleLate(r)) \/ BecomeReliable \/ UNCHANGED vars
  BY <1>4, <1>10 DEF HandleLate, BecomeReliable, vars, clientVars
<1>11. QED
  BY <1>5, <1>6, <1>7, <1>8, <1>9, <1>10 DEF Next, Run

\* A step that neither moves a client nor takes back what it achieved.
LEMMA Stable ==
  ASSUME TypeOK, NEW c \in Clients, StartProgress(c), StopProgress(c), UNCHANGED profile,
         state'[c] = state[c], step'[c] = step[c], ended'[c] = ended[c],
         \A x \in Announces(c) : /\ x \in listed \cup stray => x \in listed' \cup stray'
                                 /\ x \notin listed \ stray => x \notin listed' \ stray'
  PROVE  StartProgress(c)' /\ StopProgress(c)'
<1>1. \A i \in 1..Len(Plan(c)) : Plan(c)[i] \in Announces(c)
  BY DEF Announces
<1>2. \A i \in 1..Len(Removals(c)) : Removals(c)[i] \in Announces(c)
  BY RemovalsType
<1>3. ASSUME NEW i \in 1..Len(Plan(c)), Done(c, i) PROVE Done(c, i)'
  <2>1. Plan(c)' = Plan(c) /\ Kind(c)' = Kind(c)
    BY SameConfiguration
  <2>2. CASE Plan(c)[i] \in listed \cup stray
    <3>1. Plan(c)[i] \in listed' \cup stray'
      BY <1>1, <2>2
    <3>2. QED
      BY <2>1, <3>1 DEF Done
  <2>3. CASE Drops(c, Plan(c)[i])
    BY <2>1, <2>3 DEF Done, Drops
  <2>4. QED
    BY <1>3, <2>2, <2>3 DEF Done
<1>4. \A i \in 1..Len(Removals(c)) : Gone(c, i) => Gone(c, i)'
  BY <1>2, SameConfiguration DEF Gone
<1>5. /\ state[c] \in {"registering", "replacing", "again"} => step[c] \in 1..Len(Plan(c))
      /\ state[c] = "stopping" => step[c] \in 1..Len(Removals(c)) + 1
      /\ Len(Plan(c)) \in Nat /\ Len(Removals(c)) \in Nat
  BY PlanType, RemovalsType DEF TypeOK
<1>6. StartProgress(c)'
  BY <1>3, <1>5, SameConfiguration DEF StartProgress
<1>7. StopProgress(c)'
  BY <1>4, <1>5, SameConfiguration DEF StopProgress
<1>8. QED
  BY <1>6, <1>7

\* An accepted announcement, or one whose refusal is dropped, takes the client
\* one further.
LEMMA ProceedProgress ==
  ASSUME TypeOK, NEW c \in Clients, UNCHANGED profile, StartProgress(c),
         state[c] \in {"registering", "again"}, NEW answer \in Answers,
         Send("register", Plan(c)[step[c]], answer),
         answer = "ok" \/ Drops(c, Plan(c)[step[c]]),
         Proceed(c)
  PROVE  StartProgress(c)' /\ StopProgress(c)'
<1>1. /\ step[c] \in 1..Len(Plan(c)) /\ Plan(c)[step[c]] \in Entries
      /\ Len(Plan(c)) \in Nat
      /\ \A i, j \in 1..Len(Plan(c)) : Plan(c)[i] = Plan(c)[j] => i = j
  BY CurrentEntry, PlanType
<1>2. /\ \A x : x # Plan(c)[step[c]] => (x \in listed' <=> x \in listed) /\ (x \in stray' <=> x \in stray)
      /\ answer = "ok" => Plan(c)[step[c]] \in listed'
  BY <1>1, SendEffect
<1>3. \A i \in 1..step[c] - 1 : Done(c, i)
  BY DEF StartProgress
<1>4. \A i \in 1..step[c] : Done(c, i)'
  BY <1>1, <1>2, <1>3, SameConfiguration DEF Done, Drops
<1>5. state \in [Clients -> States] /\ step \in [Clients -> Nat]
  BY DEF TypeOK
<1>6. CASE step[c] < Len(Plan(c))
  <2>1. state'[c] = "registering" /\ step'[c] = step[c] + 1
    BY <1>5, <1>6 DEF Proceed, Become
  <2>2. QED
    BY <1>1, <1>4, <2>1, SameConfiguration DEF StartProgress, StopProgress
<1>7. CASE ~(step[c] < Len(Plan(c)))
  <2>1. step[c] = Len(Plan(c)) /\ state'[c] \in {"listening", "returned"}
    BY <1>1, <1>5, <1>7 DEF Proceed, Become
  <2>2. QED
    BY <1>1, <1>4, <2>1, SameConfiguration DEF StartProgress, StopProgress
<1>8. QED
  BY <1>6, <1>7

\* While a duplicate is replaced the announcements before it stay.
LEMMA ReplaceProgress ==
  ASSUME TypeOK, NEW c \in Clients, UNCHANGED profile, StartProgress(c),
         state[c] \in {"registering", "replacing"}, NEW op \in {"register", "remove"}, NEW answer \in Answers,
         Send(op, Plan(c)[step[c]], answer),
         state'[c] \in {"replacing", "again"}, step'[c] = step[c]
  PROVE  StartProgress(c)' /\ StopProgress(c)'
<1>1. /\ step[c] \in 1..Len(Plan(c)) /\ Plan(c)[step[c]] \in Entries
      /\ Len(Plan(c)) \in Nat
      /\ \A i, j \in 1..Len(Plan(c)) : Plan(c)[i] = Plan(c)[j] => i = j
  BY CurrentEntry, PlanType
<1>2. \A x : x # Plan(c)[step[c]] => (x \in listed' <=> x \in listed) /\ (x \in stray' <=> x \in stray)
  BY <1>1, SendEffect
<1>3. \A i \in 1..step[c] - 1 : Done(c, i)
  BY DEF StartProgress
<1>4. \A i \in 1..step[c] - 1 : Done(c, i)'
  BY <1>1, <1>2, <1>3, SameConfiguration DEF Done, Drops
<1>5. QED
  BY <1>4, SameConfiguration DEF StartProgress, StopProgress

\* A removal that is answered takes the stop one further.
LEMMA RemoveProgress ==
  ASSUME TypeOK, NEW c \in Clients, UNCHANGED profile, StopProgress(c), Remove(c)
  PROVE  StartProgress(c)' /\ StopProgress(c)'
<1>1. PICK answer \in Answers :
        /\ Send("remove", Removals(c)[step[c]], answer)
        /\ \/ /\ answer = "ok"
              /\ step' = [step EXCEPT ![c] = @ + 1] /\ UNCHANGED <<state, ended>>
           \/ /\ Become(c, IF Daemon(c) THEN "off" ELSE "orphan")
              /\ ended' = [ended EXCEPT ![c] = IF Daemon(c) THEN "failed" ELSE @]
  BY DEF Remove
<1>2. /\ state[c] = "stopping" /\ step[c] \in 1..Len(Removals(c)) /\ Len(Removals(c)) \in Nat
      /\ Removals(c) \in Seq(Entries)
  <2>1. state[c] = "stopping" /\ step[c] <= Len(Removals(c))
    BY DEF Remove
  <2>2. step[c] \in 1..Len(Removals(c)) + 1
    BY <2>1 DEF TypeOK
  <2>3. QED
    BY <2>1, <2>2, RemovalsType
<1>3. /\ state \in [Clients -> States] /\ step \in [Clients -> Nat]
      /\ ended \in [Clients -> {"none", "shutdown", "failed", "killed"}]
  BY DEF TypeOK
<1>4. CASE /\ answer = "ok"
           /\ step' = [step EXCEPT ![c] = @ + 1] /\ UNCHANGED <<state, ended>>
  <2>1. Removals(c)[step[c]] \in Entries
    BY <1>2
  <2>2. /\ \A x : x # Removals(c)[step[c]] => (x \in listed' <=> x \in listed) /\ (x \in stray' <=> x \in stray)
        /\ Removals(c)[step[c]] \notin listed'
    BY <1>1, <1>4, <2>1, SendEffect
  <2>3. \A i \in 1..step[c] - 1 : Gone(c, i)
    BY <1>2 DEF StopProgress
  <2>4. \A i \in 1..step[c] : Gone(c, i)'
    BY <1>2, <2>2, <2>3, SameConfiguration DEF Gone
  <2>5. state'[c] = "stopping" /\ step'[c] = step[c] + 1
    BY <1>2, <1>3, <1>4
  <2>6. QED
    BY <1>2, <2>4, <2>5, SameConfiguration DEF StartProgress, StopProgress
<1>5. CASE /\ Become(c, IF Daemon(c) THEN "off" ELSE "orphan")
           /\ ended' = [ended EXCEPT ![c] = IF Daemon(c) THEN "failed" ELSE @]
  <2>1. state'[c] = "orphan" \/ (state'[c] = "off" /\ ended'[c] = "failed")
    BY <1>3, <1>5 DEF Become
  <2>2. QED
    BY <2>1 DEF StartProgress, StopProgress
<1>6. QED
  BY <1>1, <1>4, <1>5

\* The steps of a client itself.
LEMMA OwnStep ==
  ASSUME TypeOK, StopsFromFirst, NEW c \in Clients, UNCHANGED profile,
         StartProgress(c), StopProgress(c),
         Start(c) \/ Run(c) \/ Stop(c) \/ EndOfInput(c) \/ Kill(c)
  PROVE  StartProgress(c)' /\ StopProgress(c)'
<1>0. /\ state \in [Clients -> States] /\ step \in [Clients -> Nat]
      /\ ended \in [Clients -> {"none", "shutdown", "failed", "killed"}]
  BY DEF TypeOK
<1>1. ASSUME Throw(c) PROVE StartProgress(c)' /\ StopProgress(c)'
  <2>1. state'[c] = "orphan"
    BY <1>0, <1>1 DEF Throw, Become
  <2>2. QED
    BY <2>1 DEF StartProgress, StopProgress
<1>2. CASE Start(c)
  <2>1. state'[c] = "registering" /\ step'[c] = 1
    BY <1>0, <1>2 DEF Start, Become
  <2>2. QED
    BY <2>1 DEF StartProgress, StopProgress
<1>3. CASE Register(c)
  <2>1. PICK answer \in Answers :
          /\ Send("register", Plan(c)[step[c]], answer)
          /\ \/ (answer = "ok" \/ Drops(c, Plan(c)[step[c]])) /\ Proceed(c)
             \/ Become(c, "replacing") /\ UNCHANGED step
             \/ Throw(c)
    BY <1>3 DEF Register
  <2>2. state[c] = "registering"
    BY <1>3 DEF Register
  <2>3. CASE (answer = "ok" \/ Drops(c, Plan(c)[step[c]])) /\ Proceed(c)
    BY <2>1, <2>2, <2>3, ProceedProgress
  <2>4. CASE Become(c, "replacing") /\ UNCHANGED step
    <3>1. state'[c] = "replacing" /\ step'[c] = step[c]
      BY <1>0, <2>4 DEF Become
    <3>2. QED
      BY <2>1, <2>2, <3>1, ReplaceProgress
  <2>5. QED
    BY <1>1, <2>1, <2>3, <2>4
<1>4. CASE Replace(c)
  <2>1. PICK answer \in Answers :
          /\ Send("remove", Plan(c)[step[c]], answer)
          /\ (Become(c, "again") /\ UNCHANGED step) \/ Throw(c)
    BY <1>4 DEF Replace
  <2>2. state[c] = "replacing"
    BY <1>4 DEF Replace
  <2>3. CASE Become(c, "again") /\ UNCHANGED step
    <3>1. state'[c] = "again" /\ step'[c] = step[c]
      BY <1>0, <2>3 DEF Become
    <3>2. QED
      BY <2>1, <2>2, <3>1, ReplaceProgress
  <2>4. QED
    BY <1>1, <2>1, <2>3
<1>5. CASE RegisterAgain(c)
  <2>1. PICK answer \in Answers :
          /\ Send("register", Plan(c)[step[c]], answer)
          /\ (answer = "ok" /\ Proceed(c)) \/ Throw(c)
    BY <1>5 DEF RegisterAgain
  <2>2. state[c] = "again"
    BY <1>5 DEF RegisterAgain
  <2>3. CASE answer = "ok" /\ Proceed(c)
    BY <2>1, <2>2, <2>3, ProceedProgress
  <2>4. QED
    BY <1>1, <2>1, <2>3
<1>6. CASE Remove(c)
  BY <1>6, RemoveProgress
<1>7. CASE Shutdown(c)
  <2>1. /\ state[c] = "stopping" /\ step[c] > Len(Removals(c))
        /\ state'[c] \in {"off", "hung"} /\ UNCHANGED <<listed, stray>>
    BY <1>0, <1>7 DEF Shutdown, Become, coreVars
  <2>2. Len(Removals(c)) \in Nat
    BY RemovalsType
  <2>3. step[c] \in Nat
    BY <1>0
  <2>4. \A i \in 1..Len(Removals(c)) : Gone(c, i)
    BY <2>1, <2>2, <2>3 DEF StopProgress
  <2>5. \A i \in 1..Len(Removals(c)) : Gone(c, i)'
    BY <2>1, <2>4, SameConfiguration DEF Gone
  <2>6. QED
    BY <2>1, <2>5, SameConfiguration DEF StartProgress, StopProgress
<1>8. CASE Stop(c)
  <2>1. state'[c] = "stopping" /\ step'[c] = 1
    BY <1>0, <1>8 DEF Stop, Become, StopsFromFirst
  <2>2. QED
    BY <2>1 DEF StartProgress, StopProgress
<1>9. CASE EndOfInput(c)
  <2>1. state'[c] = "orphan"
    BY <1>0, <1>9 DEF EndOfInput, Become
  <2>2. QED
    BY <2>1 DEF StartProgress, StopProgress
<1>10. CASE Kill(c)
  <2>1. state'[c] = "off" /\ ended'[c] = "killed"
    BY <1>0, <1>10 DEF Kill, Become
  <2>2. QED
    BY <2>1 DEF StartProgress, StopProgress
<1>11. QED
  BY <1>2, <1>3, <1>4, <1>5, <1>6, <1>7, <1>8, <1>9, <1>10 DEF Run

\* Another client's step leaves an unshared entry alone.
LEMMA OthersStep ==
  ASSUME TypeOK, NEW c \in Clients, NEW d \in Clients \ {c}, Alone(c),
         Start(d) \/ Run(d) \/ Stop(d) \/ EndOfInput(d) \/ Kill(d)
  PROVE  /\ state'[c] = state[c] /\ step'[c] = step[c] /\ ended'[c] = ended[c]
         /\ \A x \in Announces(c) : /\ x \in listed \cup stray => x \in listed' \cup stray'
                                    /\ x \notin listed \ stray => x \notin listed' \ stray'
<1>0. /\ state \in [Clients -> States] /\ step \in [Clients -> Nat]
      /\ ended \in [Clients -> {"none", "shutdown", "failed", "killed"}]
  BY DEF TypeOK
<1> DEFINE Left == /\ state'[c] = state[c] /\ step'[c] = step[c] /\ ended'[c] = ended[c]
                   /\ \A x \in Announces(c) : /\ x \in listed \cup stray => x \in listed' \cup stray'
                                              /\ x \notin listed \ stray => x \notin listed' \ stray'
<1>1. Announces(c) \cap Announces(d) = {}
  BY DEF Alone
<1>2. ASSUME Proceed(d) \/ Throw(d) PROVE state'[c] = state[c] /\ step'[c] = step[c]
  <2>1. CASE Throw(d)
    BY <1>0, <2>1 DEF Throw, Become
  <2>2. CASE Proceed(d)
    BY <1>0, <2>2 DEF Proceed, Become
  <2>3. QED
    BY <1>2, <2>1, <2>2
<1>3. ASSUME Register(d) \/ Replace(d) \/ RegisterAgain(d)
      PROVE  Left
  <2>1. /\ state[d] \in {"registering", "replacing", "again"} /\ UNCHANGED ended
        /\ \E op \in {"register", "remove"}, answer \in Answers : Send(op, Plan(d)[step[d]], answer)
        /\ Proceed(d) \/ Throw(d) \/ (\E s \in {"replacing", "again"} : Become(d, s) /\ UNCHANGED step)
    BY <1>3 DEF Register, Replace, RegisterAgain
  <2>2. step[d] \in 1..Len(Plan(d)) /\ Plan(d)[step[d]] \in Entries
    BY <2>1, CurrentEntry
  <2>3. Plan(d)[step[d]] \notin Announces(c)
    BY <1>1, <2>2 DEF Announces
  <2>4. state'[c] = state[c] /\ step'[c] = step[c]
    BY <1>0, <1>2, <2>1 DEF Become
  <2>5. \A x \in Announces(c) : /\ x \in listed \cup stray => x \in listed' \cup stray'
                                /\ x \notin listed \ stray => x \notin listed' \ stray'
    <3>1. PICK op \in {"register", "remove"}, answer \in Answers : Send(op, Plan(d)[step[d]], answer)
      BY <2>1
    <3>2. QED
      BY <2>1, <2>2, <2>3, <3>1, SendEffect
  <2>6. QED
    BY <2>1, <2>4, <2>5
<1>4. CASE Remove(d)
  <2>1. /\ state[d] = "stopping" /\ step[d] <= Len(Removals(d))
        /\ \E answer \in Answers : Send("remove", Removals(d)[step[d]], answer)
    BY <1>4 DEF Remove
  <2>2. step[d] \in 1..Len(Removals(d)) /\ Removals(d) \in Seq(Entries)
    <3>1. step[d] \in 1..Len(Removals(d)) + 1
      BY <2>1 DEF TypeOK
    <3>2. QED
      BY <2>1, <3>1, RemovalsType
  <2>3. Removals(d)[step[d]] \in Entries /\ Removals(d)[step[d]] \notin Announces(c)
    BY <1>1, <2>2, RemovalsType
  <2>4. state'[c] = state[c] /\ step'[c] = step[c] /\ ended'[c] = ended[c]
    BY <1>0, <1>4 DEF Remove, Become
  <2>5. \A x \in Announces(c) : /\ x \in listed \cup stray => x \in listed' \cup stray'
                                /\ x \notin listed \ stray => x \notin listed' \ stray'
    <3>1. PICK op \in {"register", "remove"}, answer \in Answers : Send(op, Removals(d)[step[d]], answer)
      BY <2>1
    <3>2. QED
      BY <2>1, <2>2, <2>3, <3>1, SendEffect
  <2>6. QED
    BY <2>4, <2>5
<1>5. CASE Start(d) \/ Shutdown(d) \/ Stop(d) \/ EndOfInput(d) \/ Kill(d)
  <2>1. state'[c] = state[c] /\ step'[c] = step[c] /\ ended'[c] = ended[c] /\ UNCHANGED <<listed, stray>>
    BY <1>0, <1>5 DEF Start, Shutdown, Stop, EndOfInput, Kill, Become, coreVars
  <2>2. QED
    BY <2>1
<1>6. QED
  BY <1>3, <1>4, <1>5 DEF Run

\* Progress is kept by every step.
LEMMA ProgressStep == Inv /\ [Next]_vars => Progress'
<1> SUFFICES ASSUME Inv, [Next]_vars, NEW c \in Clients, Alone(c)' PROVE (StartProgress(c) /\ StopProgress(c))'
  BY DEF Progress
<1>1. UNCHANGED profile
  BY DEF Next, Start, Run, Register, Replace, RegisterAgain, Remove, Shutdown, Stop, EndOfInput, Kill,
     HandleLate, BecomeReliable, vars
<1>2. Alone(c)
  BY <1>1, SameConfiguration
<1>3. StartProgress(c) /\ StopProgress(c)
  BY <1>2 DEF Inv, Progress
<1>4. ASSUME NEW d \in Clients, Start(d) \/ Run(d) \/ Stop(d) \/ EndOfInput(d) \/ Kill(d)
      PROVE  StartProgress(c)' /\ StopProgress(c)'
  <2>1. CASE d = c
    BY <1>1, <1>3, <1>4, <2>1, OwnStep DEF Inv
  <2>2. CASE d # c
    <3>1. d \in Clients \ {c} /\ TypeOK
      BY <2>2 DEF Inv
    <3>2. /\ state'[c] = state[c] /\ step'[c] = step[c] /\ ended'[c] = ended[c]
          /\ \A x \in Announces(c) : /\ x \in listed \cup stray => x \in listed' \cup stray'
                                     /\ x \notin listed \ stray => x \notin listed' \ stray'
      BY <1>2, <1>4, <3>1, OthersStep, Zenon
    <3>3. QED
      BY <1>1, <1>3, <3>1, <3>2, Stable
  <2>3. QED
    BY <2>1, <2>2
<1>5. ASSUME NEW r \in LateRequests, HandleLate(r) PROVE StartProgress(c)' /\ StopProgress(c)'
  <2>1. \A x : /\ x \in listed \cup stray => x \in listed' \cup stray'
               /\ x \notin listed \ stray => x \notin listed' \ stray'
    BY <1>5 DEF HandleLate
  <2>2. UNCHANGED <<state, step, ended>>
    BY <1>5 DEF HandleLate, clientVars
  <2>3. QED
    BY <1>1, <1>3, <2>1, <2>2, Stable DEF Inv
<1>6. CASE BecomeReliable \/ UNCHANGED vars
  <2>1. UNCHANGED <<state, step, ended, listed, stray>>
    BY <1>6 DEF BecomeReliable, vars, clientVars, coreVars
  <2>2. QED
    BY <1>1, <1>3, <2>1, Stable DEF Inv
<1>7. QED
  BY <1>4, <1>5, <1>6 DEF Next

\* The invariant holds in every state of a run.
LEMMA Invariance == Spec => []Inv
<1>1. Init => Inv
  <2>1. Init => StopsFromFirst
    BY DEF Init, StopsFromFirst
  <2>2. Init => Progress
    BY DEF Init, Progress, StartProgress, StopProgress
  <2>3. QED
    BY <2>1, <2>2, TypeInit DEF Inv
<1>2. Inv /\ [Next]_vars => Inv'
  BY TypeStep, StopsFromFirstStep, ProgressStep DEF Inv
<1>3. QED
  BY <1>1, <1>2, PTL DEF Spec

----------------------------------------------------------------------------
(* The theorems.                                                           *)

\* A client is always at an announcement it has, whatever its plan.
THEOREM TypeCorrect == Spec => []TypeOK
<1>1. Inv => TypeOK
  BY DEF Inv
<1>2. QED
  BY <1>1, Invariance, PTL

\* A client that listens is announced, whatever was lost, late or left behind,
\* but for the errors ArrowheadProviderTest drops.
THEOREM AnnouncedWhenListening == Spec => []AnnouncedIsListed
<1>1. Inv => AnnouncedIsListed
  <2> SUFFICES ASSUME Inv, NEW c \in Clients, state[c] \in {"listening", "returned"}, Alone(c),
                      NEW e \in Announces(c)
               PROVE  e \in listed \cup stray \/ Drops(c, e)
    BY DEF AnnouncedIsListed
  <2>1. PICK i \in 1..Len(Plan(c)) : e = Plan(c)[i]
    BY DEF Announces
  <2>2. Done(c, i)
    BY DEF Inv, Progress, StartProgress
  <2>3. QED
    BY <2>1, <2>2 DEF Done
<1>2. QED
  BY <1>1, Invariance, PTL

\* A full or a test provider that has shut down left none of its services behind.
THEOREM RemovedAtShutdown == Spec => []ShutdownRemoves
<1>1. Inv => ShutdownRemoves
  BY DEF Inv, Progress, StopProgress, Gone, ShutdownRemoves
<1>2. QED
  BY <1>1, Invariance, PTL

----------------------------------------------------------------------------
(* A start with reliable core systems.                                     *)

\* What the code makes of a plan: the constructors of the two providers register
\* one service entry, the first.
OneService == \A c \in Clients : Kind(c) \in {"basic", "full"} =>
  \A i \in 2..Len(Plan(c)) : Plan(c)[i] \notin Services

\* The start of a client is at a service entry that no request given up has
\* changed, and the core systems answer.
SafeStart(c) ==
  /\ reliable /\ Alone(c) /\ Kind(c) \notin {"subscriber", "publisher"}
  /\ state[c] \in {"registering", "replacing", "again"}
  /\ Plan(c)[step[c]] \in Services \ stray

\* No such start ends with an exception.
SafeStartGoesOn == [][OneService => \A c \in Clients : SafeStart(c) => state'[c] # "orphan"]_vars

\* An entry that is about to be registered a second time has been removed.
AgainState ==
  \A c \in Clients : Alone(c) /\ state[c] = "again" => Plan(c)[step[c]] \notin listed \ stray

\* Only an answered removal leads to "again"; nobody else announces the entry.
LEMMA AgainStep == Inv /\ AgainState /\ [Next]_vars => AgainState'
<1> SUFFICES ASSUME Inv, AgainState, [Next]_vars, NEW c \in Clients, Alone(c)', state'[c] = "again"
             PROVE  (Plan(c)[step[c]])' \notin listed' \ stray'
  BY DEF AgainState
<1>0. /\ UNCHANGED profile
      /\ state \in [Clients -> States] /\ step \in [Clients -> Nat]
      /\ TypeOK
  BY DEF Inv, TypeOK, Next, Start, Run, Register, Replace, RegisterAgain, Remove, Shutdown, Stop,
     EndOfInput, Kill, HandleLate, BecomeReliable, vars
<1>1. Alone(c) /\ Plan(c)' = Plan(c)
  BY <1>0, SameConfiguration
<1>2. ASSUME state[c] = "again", step'[c] = step[c],
             \A x \in Announces(c) : x \notin listed \ stray => x \notin listed' \ stray'
      PROVE  (Plan(c)[step[c]])' \notin listed' \ stray'
  <2>1. step[c] \in 1..Len(Plan(c))
    BY <1>0, <1>2, CurrentEntry
  <2>2. Plan(c)[step[c]] \in Announces(c)
    BY <2>1 DEF Announces
  <2>3. QED
    BY <1>1, <1>2, <2>2 DEF AgainState
<1>3. ASSUME NEW d \in Clients, d # c, Start(d) \/ Run(d) \/ Stop(d) \/ EndOfInput(d) \/ Kill(d)
      PROVE  (Plan(c)[step[c]])' \notin listed' \ stray'
  <2>1. /\ state'[c] = state[c] /\ step'[c] = step[c]
        /\ \A x \in Announces(c) : x \notin listed \ stray => x \notin listed' \ stray'
    <3>1. d \in Clients \ {c}
      BY <1>3
    <3>2. /\ state'[c] = state[c] /\ step'[c] = step[c] /\ ended'[c] = ended[c]
          /\ \A x \in Announces(c) : /\ x \in listed \cup stray => x \in listed' \cup stray'
                                     /\ x \notin listed \ stray => x \notin listed' \ stray'
      BY <1>0, <1>1, <1>3, <3>1, OthersStep, Zenon
    <3>3. QED
      BY <3>2
  <2>2. QED
    BY <1>2, <2>1
<1>4. CASE Replace(c)
  <2>1. PICK answer \in Answers :
          /\ Send("remove", Plan(c)[step[c]], answer)
          /\ IF answer = "ok" THEN Become(c, "again") /\ UNCHANGED step ELSE Throw(c)
    BY <1>4 DEF Replace
  <2>2. answer = "ok" /\ step' = step
    BY <1>0, <2>1 DEF Throw, Become
  <2>3. Plan(c)[step[c]] \in Entries
    BY <1>0, <1>4, CurrentEntry DEF Replace
  <2>4. Plan(c)[step[c]] \notin listed'
    BY <1>0, <2>1, <2>2, <2>3, SendEffect
  <2>5. QED
    BY <1>1, <2>2, <2>4
<1>5. CASE Start(c) \/ Register(c) \/ RegisterAgain(c) \/ Shutdown(c) \/ Stop(c) \/ EndOfInput(c) \/ Kill(c)
  BY <1>0, <1>5 DEF Start, Register, RegisterAgain, Shutdown, Stop, EndOfInput, Kill, Proceed, Throw, Become
<1>6. CASE Remove(c)
  BY <1>0, <1>6 DEF Remove, Become
<1>7. ASSUME NEW r \in LateRequests, HandleLate(r) PROVE (Plan(c)[step[c]])' \notin listed' \ stray'
  BY <1>2, <1>7 DEF HandleLate, clientVars
<1>8. CASE BecomeReliable \/ UNCHANGED vars
  BY <1>2, <1>8 DEF BecomeReliable, vars, clientVars, coreVars
<1>9. QED
  BY <1>3, <1>4, <1>5, <1>6, <1>7, <1>8 DEF Next, Run

\* The answers of reliable core systems.
LEMMA ReliableAnswer ==
  ASSUME reliable, NEW op \in {"register", "remove"}, NEW e, NEW answer, Send(op, e, answer)
  PROVE  /\ answer \in {"ok", "duplicate"}
         /\ answer = "duplicate" => op = "register" /\ e \in listed
BY DEF Send, Handle

\* The safety half of StartRecovers: whatever an earlier process left in the
\* registry, the replacement of a duplicate leads through the start, for every
\* plan of a provider.
THEOREM SafeStartSucceeds == Spec => SafeStartGoesOn
<1>1. Init => AgainState
  BY DEF Init, AgainState
<1>2. ASSUME Inv, AgainState, [Next]_vars, OneService, NEW c \in Clients, SafeStart(c)
      PROVE  state'[c] # "orphan"
  <2>0. /\ state \in [Clients -> States] /\ TypeOK /\ reliable /\ Alone(c)
        /\ state[c] \in {"registering", "replacing", "again"}
        /\ step[c] \in 1..Len(Plan(c)) /\ Plan(c)[step[c]] \in Services \ stray
        /\ Kind(c) \in {"basic", "full", "test", "example"}
    BY <1>2, CurrentEntry, PlanType DEF Inv, TypeOK, SafeStart, Kinds
  <2>1. ASSUME NEW d \in Clients, d # c, Start(d) \/ Run(d) \/ Stop(d) \/ EndOfInput(d) \/ Kill(d)
        PROVE  state'[c] = state[c]
    BY <2>0, <2>1, OthersStep
  <2>2. CASE Register(c)
    <3>1. PICK answer \in Answers :
            /\ Send("register", Plan(c)[step[c]], answer)
            /\ \/ Proceed(c)
               \/ Become(c, "replacing")
               \/ answer # "ok" /\ ~Replaces(c, answer)
      BY <2>2 DEF Register
    <3>2. answer # "ok" => answer = "duplicate"
      BY <2>0, <3>1, ReliableAnswer
    <3>3. Kind(c) \in {"basic", "full"} => step[c] = 1
      <4>1. Len(Plan(c)) \in Nat
        BY <2>0, PlanType
      <4>2. step[c] # 1 => step[c] \in 2..Len(Plan(c))
        BY <2>0, <4>1
      <4>3. QED
        BY <1>2, <2>0, <4>2 DEF OneService
    <3>4. answer # "ok" => Replaces(c, answer)
      BY <2>0, <3>2, <3>3 DEF Replaces
    <3>5. QED
      BY <2>0, <3>1, <3>4 DEF Proceed, Become
  <2>3. CASE Replace(c)
    <3>1. PICK answer \in Answers :
            /\ Send("remove", Plan(c)[step[c]], answer)
            /\ IF answer = "ok" THEN Become(c, "again") ELSE TRUE
      BY <2>3 DEF Replace
    <3>2. answer = "ok"
      BY <2>0, <3>1, ReliableAnswer
    <3>3. QED
      BY <2>0, <3>1, <3>2 DEF Become
  <2>4. CASE RegisterAgain(c)
    <3>1. PICK answer \in Answers :
            /\ Send("register", Plan(c)[step[c]], answer)
            /\ IF answer = "ok" THEN Proceed(c) ELSE TRUE
      BY <2>4 DEF RegisterAgain
    <3>2. Plan(c)[step[c]] \notin listed
      BY <1>2, <2>0, <2>4 DEF AgainState, RegisterAgain
    <3>3. answer = "ok"
      BY <2>0, <3>1, <3>2, ReliableAnswer
    <3>4. QED
      BY <2>0, <3>1, <3>3 DEF Proceed, Become
  <2>5. CASE Start(c) \/ Kill(c)
    BY <2>0, <2>5 DEF Start, Kill, Become
  <2>6. CASE Remove(c) \/ Shutdown(c) \/ Stop(c) \/ EndOfInput(c)
    BY <2>0, <2>6 DEF Remove, Shutdown, Stop, EndOfInput
  <2>7. CASE (\E r \in LateRequests : HandleLate(r)) \/ BecomeReliable \/ UNCHANGED vars
    BY <2>0, <2>7 DEF HandleLate, BecomeReliable, vars, clientVars
  <2>8. QED
    BY <1>2, <2>0, <2>1, <2>2, <2>3, <2>4, <2>5, <2>6, <2>7 DEF Next, Run
<1>3. Inv /\ AgainState /\ [Next]_vars =>
        [OneService => \A c \in Clients : SafeStart(c) => state'[c] # "orphan"]_vars
  BY <1>2
<1>4. QED
  BY <1>1, <1>3, AgainStep, Invariance, PTL DEF Spec, SafeStartGoesOn

----------------------------------------------------------------------------
(* A stop with reliable core systems.                                      *)

\* A client told to stop goes from removal to removal and to its end, which is
\* that of shutdown unless it is killed; it hangs in its hook if that exits.
StopGoesOn ==
  [][\A c \in Clients : reliable /\ state[c] = "stopping" =>
       \/ state'[c] = "stopping" /\ step'[c] \in {step[c], step[c] + 1}
       \/ state'[c] = "off" /\ ended'[c] \in {"shutdown", "killed"}
       \/ state'[c] = "hung" /\ HookExits(c) /\ ended'[c] = "shutdown"]_vars

\* The safety half of StopEnds: no removal that is answered ends a stop with an
\* exception, for every kind of client and every plan.
THEOREM StopsComplete == Spec => StopGoesOn
<1> DEFINE Goes(c) ==
      \/ state'[c] = "stopping" /\ step'[c] \in {step[c], step[c] + 1}
      \/ state'[c] = "off" /\ ended'[c] \in {"shutdown", "killed"}
      \/ state'[c] = "hung" /\ HookExits(c) /\ ended'[c] = "shutdown"
<1>1. ASSUME Inv, [Next]_vars, NEW c \in Clients, reliable, state[c] = "stopping" PROVE Goes(c)
  <2>0. /\ state \in [Clients -> States] /\ step \in [Clients -> Nat] /\ TypeOK
        /\ ended \in [Clients -> {"none", "shutdown", "failed", "killed"}]
    BY <1>1 DEF Inv, TypeOK
  <2>1. ASSUME NEW d \in Clients, d # c, Start(d) \/ Run(d) \/ Stop(d) \/ EndOfInput(d) \/ Kill(d)
        PROVE  state'[c] = state[c] /\ step'[c] = step[c]
    BY <2>0, <2>1 DEF Start, Run, Register, Replace, RegisterAgain, Remove, Shutdown, Stop,
      EndOfInput, Kill, Proceed, Throw, Become
  <2>2. CASE Remove(c)
    <3>1. PICK answer \in Answers :
            /\ Send("remove", Removals(c)[step[c]], answer)
            /\ answer = "ok" => step' = [step EXCEPT ![c] = @ + 1] /\ UNCHANGED state
      BY <2>2 DEF Remove
    <3>2. answer = "ok"
      BY <1>1, <3>1, ReliableAnswer
    <3>3. QED
      BY <1>1, <2>0, <3>1, <3>2
  <2>3. CASE Shutdown(c)
    BY <2>0, <2>3 DEF Shutdown, Become
  <2>4. CASE Kill(c)
    BY <2>0, <2>4 DEF Kill, Become
  <2>5. CASE Start(c) \/ Stop(c) \/ EndOfInput(c) \/ Register(c) \/ Replace(c) \/ RegisterAgain(c)
    BY <1>1, <2>5 DEF Start, Stop, EndOfInput, Register, Replace, RegisterAgain
  <2>6. CASE (\E r \in LateRequests : HandleLate(r)) \/ BecomeReliable \/ UNCHANGED vars
    BY <1>1, <2>6 DEF HandleLate, BecomeReliable, vars, clientVars
  <2>7. QED
    BY <1>1, <2>1, <2>2, <2>3, <2>4, <2>5, <2>6 DEF Next, Run
<1>2. Inv /\ [Next]_vars =>
        [\A c \in Clients : reliable /\ state[c] = "stopping" =>
           \/ state'[c] = "stopping" /\ step'[c] \in {step[c], step[c] + 1}
           \/ state'[c] = "off" /\ ended'[c] \in {"shutdown", "killed"}
           \/ state'[c] = "hung" /\ HookExits(c) /\ ended'[c] = "shutdown"]_vars
  BY <1>1
<1>3. QED
  BY <1>2, Invariance, PTL DEF Spec, StopGoesOn

=============================================================================
