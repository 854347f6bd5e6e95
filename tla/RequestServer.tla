---------------------------- MODULE RequestServer ----------------------------
(***************************************************************************)
(* What a server of the SensorAdapter promises its clients, whatever the   *)
(* calls libmicrohttpd makes for it: a request is answered at most once,   *)
(* a measurement that comes with it is handed on exactly once before the   *)
(* answer and never without a request, and no request stays open.          *)
(***************************************************************************)
CONSTANT Clients

VARIABLES
  phase,  \* per client: "idle", "pending" (asked) or "answered"
  duty,   \* "due" while the measurement of a request is still to be handed on
  failed  \* the program has ended by itself

vars == <<phase, duty, failed>>

Init ==
  /\ phase = [c \in Clients |-> "idle"]
  /\ duty = [c \in Clients |-> "none"]
  /\ failed = FALSE

Ask(c) ==
  /\ ~failed
  /\ phase[c] = "idle"
  /\ phase' = [phase EXCEPT ![c] = "pending"]
  /\ \E d \in {"none", "due"} : duty' = [duty EXCEPT ![c] = d]
  /\ UNCHANGED failed

HandOn(c) ==
  /\ ~failed
  /\ phase[c] = "pending"
  /\ duty[c] = "due"
  /\ duty' = [duty EXCEPT ![c] = "none"]
  /\ UNCHANGED <<phase, failed>>

Answer(c) ==
  /\ ~failed
  /\ phase[c] = "pending"
  /\ duty[c] = "none"
  /\ phase' = [phase EXCEPT ![c] = "answered"]
  /\ UNCHANGED <<duty, failed>>

\* The answers have been sent, or the connections are closed.
End(S) ==
  /\ ~failed
  /\ \E c \in S : phase[c] # "idle"
  /\ phase' = [c \in Clients |-> IF c \in S THEN "idle" ELSE phase[c]]
  /\ duty' = [c \in Clients |-> IF c \in S THEN "none" ELSE duty[c]]
  /\ UNCHANGED failed

Fail ==
  /\ failed' = TRUE
  /\ UNCHANGED <<phase, duty>>

Next ==
  \/ \E c \in Clients : Ask(c) \/ HandOn(c) \/ Answer(c)
  \/ \E S \in SUBSET Clients : End(S)
  \/ Fail

Spec == Init /\ [][Next]_vars

Ends(c) ==
  /\ phase[c] # "idle"
  /\ Answer(c) \/ \E S \in SUBSET Clients : c \in S /\ End(S)

FairSpec == Spec /\ \A c \in Clients : WF_vars(Ends(c))
==============================================================================
