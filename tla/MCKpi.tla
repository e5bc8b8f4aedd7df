--------------------------------- MODULE MCKpi --------------------------------
(* Small instances of DayScore, of Ranking and of the ingest lock, which      *)
(* share no state: a behaviour is one of the first, the second or the third.  *)
EXTENDS DayScore, Ranking, PgAdvisoryLock, TLC

CONSTANTS
  early, night, t1, t2,   \* DayScore: shifts and check-in instants
  x, y,                   \* Ranking: persons
  k1,                     \* PgAdvisoryLock: a day,
  s1, s2, s3              \* and sessions

VARIABLE part

IdleHistory ==
  [r \in Staff |-> [d \in Dates |->
     IF r = 2 THEN NoMark ELSE [points |-> 2, late |-> FALSE]]]

Kpi == <<part, vars, rankvars, lockvars>>

KpiInit ==
  /\ part \in {"score", "ranking", "lock"}
  /\ Init /\ RankingInit /\ LockInit
  /\ part # "score" => ~overlap /\ grid = Off
  /\ overlap => grid \in {early, None}
  /\ part # "ranking" => mark = IdleHistory
  /\ part # "lock" => key = [c \in Clients |-> k1]

\* Bound: calls that overlap begin after 07:00, since until then the days are
\* told apart by the count of evaluations only.
KpiNext ==
  \/ /\ part = "score" /\ Next /\ UNCHANGED <<part, rankvars, lockvars>>
     /\ overlap /\ phase' = "dawn" => made' = 0
  \/ part = "ranking" /\ RankingNext /\ UNCHANGED <<part, vars, lockvars>>
  \/ part = "lock" /\ LockNext /\ UNCHANGED <<part, vars, rankvars>>

KpiSpec == KpiInit /\ [][KpiNext]_Kpi

-------------------------------------------------------------------------------
(* DayScore.  Time t1 is on time for the early shift, t2 is late for it;     *)
(* both are early for the night shift.  The OFF shift has a start time, too. *)
SomePoints ==
  (early :> (t1 :> 0 @@ t2 :> -2)) @@ (night :> (t1 :> 3 @@ t2 :> 2))
  @@ (Off :> (t1 :> -4 @@ t2 :> -5))

SomeLateness ==
  (early :> (t1 :> 0 @@ t2 :> 4)) @@ (night :> (t1 :> 0 @@ t2 :> 0))
  @@ (Off :> (t1 :> 60 @@ t2 :> 64))

SomeBonuses == {-1, 2}

SomeMaxCalls == (TRUE :> 3) @@ (FALSE :> 6)

-------------------------------------------------------------------------------
(* Ranking.  Row 2 is a person's former branch, where he was never late; on  *)
(* one day he scored in row 1 only.                                          *)
SomePerson == (1 :> x) @@ (2 :> x) @@ (3 :> y)
SomeStore == (1 :> "first") @@ (2 :> "second") @@ (3 :> "first")
SomeMarks == {[points |-> 2, late |-> FALSE], [points |-> 2, late |-> TRUE],
              [points |-> -1, late |-> TRUE]}
SomeHistories ==
  {h \in [Staff -> [Dates -> SomeMarks \cup {NoMark}]] :
     /\ \E d \in Dates : h[2][d] = NoMark /\ h[1][d] # NoMark
     /\ \A d \in Dates : h[2][d] # NoMark => ~h[2][d].late}

-------------------------------------------------------------------------------
(* PgAdvisoryLock.  Three calls of one process, whose pool is smaller, and    *)
(* one of another process.                                                    *)
SomePool == [c \in Clients |-> IF c = 4 THEN {s3} ELSE {s1, s2}]

\* Calls and runs, and managers and days, are interchangeable.
KpiSymmetry == Permutations(Calls) \cup Permutations(Managers)
===============================================================================
