------------------------------ MODULE MCPlanning ------------------------------
(* Small instances of Schedule and of Approvals, which share no state: a     *)
(* behaviour is one of the first or one of the second.                       *)
EXTENDS Schedule, Approvals, TLC

CONSTANTS amy, ben, m1, m2, early, night   \* Approvals: one manager is an employee

VARIABLE part

Planning == <<part, scheduleVars, vars>>

PlanningInit ==
  /\ part \in {"schedule", "approvals"}
  /\ ScheduleInit /\ Init
  /\ part = "schedule" => ~overlap /\ day = "today"
  /\ part = "approvals" => plan.shop = [w \in Crew |-> CHOOSE s \in Shops : TRUE]

PlanningNext ==
  \/ part = "schedule" /\ ScheduleNext /\ UNCHANGED <<part, vars>>
  \/ part = "approvals" /\ Next /\ UNCHANGED <<part, scheduleVars>>

PlanningSpec == PlanningInit /\ [][PlanningNext]_Planning

SomeEmployeeOf == (m1 :> None) @@ (m2 :> amy)
SomePlan == (amy :> early) @@ (ben :> night)
SomeMaxCalls == (TRUE :> 3) @@ (FALSE :> 4)
SomeMaxCrashes == (TRUE :> 0) @@ (FALSE :> 1)

\* Branches, employees and calls, and request ids are interchangeable.
PlanningSymmetry == Permutations(Shops) \cup Permutations(Crew) \cup Permutations(Ids)
===============================================================================
