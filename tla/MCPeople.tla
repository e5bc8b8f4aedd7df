------------------------------- MODULE MCPeople -------------------------------
(* Small instances of Accounts, of Sessions and of KpiRules, which share no  *)
(* state: a behaviour is one of the first, the second or the third.          *)
EXTENDS Accounts, Sessions, KpiRules, TLC

VARIABLE part

People == <<part, avars, svars, kvars>>

PeopleInit ==
  /\ part \in {"accounts", "sessions", "rules"}
  /\ AccountsInit /\ SessionsInit /\ KpiRulesInit
  /\ part # "sessions" => soverlap = FALSE
  /\ part # "rules" => left = CHOOSE b \in Bounds : TRUE

\* Bound: a history in which Redis has missed something is one of the shorter
\* ones, in which calls may overlap; what the longer ones are for, the
\* properties ask only while it has missed nothing.
PeopleNext ==
  \/ part = "accounts" /\ AccountsNext /\ UNCHANGED <<part, svars, kvars>>
  \/ /\ part = "sessions" /\ SessionsNext /\ UNCHANGED <<part, avars, kvars>>
     /\ missed' => soverlap
  \/ part = "rules" /\ KpiRulesNext /\ UNCHANGED <<part, avars, svars>>

PeopleSpec == PeopleInit /\ [][PeopleNext]_People

SomeMaxSCalls == (TRUE :> 3) @@ (FALSE :> 4)

\* KpiRules: both sides of the threshold and of the ends of the rules, ...
SomeDeltas == {-300, -299, 30, 300}
SomeThresholds == {300, 301}

\* ... a rule switched off and one deleted, and too few rules, ...
SomeTables == {[kept |-> RuleIds \ {6}, off |-> {4}], [kept |-> {1, 2}, off |-> {}]}

\* ... two saves, an entry that grows too old, rules that are just being created.
SomeBounds ==
  {[seeded |-> TRUE,  saves |-> 2, scores |-> 1, stops |-> 1, ticks |-> 1],
   [seeded |-> TRUE,  saves |-> 1, scores |-> 2, stops |-> 0, ticks |-> 2],
   [seeded |-> FALSE, saves |-> 0, scores |-> 2, stops |-> 1, ticks |-> 0]}

\* Branches and processes, numbers and requests are interchangeable; ids are
\* numbers, given in order.
PeopleSymmetry == Permutations(Branches) \cup Permutations(Niks) \cup Permutations(SCalls)
===============================================================================
