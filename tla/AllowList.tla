----------------------------- MODULE AllowList -----------------------------
(***************************************************************************)
(* What the rest of the SensorAdapter relies on in the whitelist: a set of *)
(* allowed sensors that follows a file.  A load fixes the set to reach;    *)
(* sensors are then allowed one by one, and only when all of them are      *)
(* allowed are others forbidden, so that a sensor in both the old and the  *)
(* new set is allowed all the time.                                        *)
(***************************************************************************)
CONSTANT Sensors
VARIABLES allowed,  \* what sensorIsEnabled answers yes to
          goal      \* what the current load is going to make of it

vars == <<allowed, goal>>

Init == allowed = {} /\ goal = {}

\* A load begins when the last one has reached its goal.
Load(new) ==
  /\ goal = allowed
  /\ goal' = new
  /\ UNCHANGED allowed

Allow(s) ==
  /\ s \in goal \ allowed
  /\ allowed' = allowed \cup {s}
  /\ UNCHANGED goal

Forbid(s) ==
  /\ goal \subseteq allowed
  /\ s \in allowed \ goal
  /\ allowed' = allowed \ {s}
  /\ UNCHANGED goal

Change == \E s \in Sensors : Allow(s) \/ Forbid(s)

Next == (\E new \in SUBSET Sensors : Load(new)) \/ Change

SafeSpec == Init /\ [][Next]_vars

\* Every load reaches its goal.
Spec == SafeSpec /\ WF_vars(Change)

=============================================================================
