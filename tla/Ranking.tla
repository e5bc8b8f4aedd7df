-------------------------------- MODULE Ranking --------------------------------
(***************************************************************************)
(* The end of a month: the monthly totals, ranks, achievements and rewards *)
(* (monthlyRankingService), run by the scheduler and from the command      *)
(* line, and the totals that a person and the leaderboard show             *)
(* (kpiQueryService, leaderboardService).                                  *)
(*                                                                         *)
(* A person may have several employee rows, one for each branch of his     *)
(* past.  A row's number stands for its NIK, which breaks the last tie.    *)
(* A run starts when no other one is under way.                            *)
(***************************************************************************)
EXTENDS Integers, FiniteSets, Functions

CONSTANTS
  Staff,     \* employee rows, numbers
  Person,    \* Person[r]: the account of row r
  Store,     \* Store[r]: its branch
  Dates,     \* work dates of the month
  Marks,     \* what a day can have scored: records of points and late
  Histories,    \* the months to try
  Jobs,      \* runs of calculateMonthlyRanks
  MaxFixes,  \* bound: corrections of a score, and people who leave
  MaxKills,  \* bound: runs that die half way
  NoMark

ASSUME RankingAssumption ==
  /\ Staff \subseteq Nat /\ IsFiniteSet(Staff) /\ IsFiniteSet(Dates) /\ NoMark \notin Marks
  /\ Marks \subseteq [points : Int, late : BOOLEAN]
  /\ Histories \subseteq [Staff -> [Dates -> Marks \cup {NoMark}]]
  /\ MaxFixes \in Nat /\ MaxKills \in Nat

VARIABLES
  mark,       \* mark[r][d]: kpi_daily_scores
  employed,   \* rows with is_active
  total,      \* total[r]: kpi_monthly_aggregates
  medals,     \* achievements
  rewarded,   \* rewards: medals that have a pending voucher
  job,        \* job[j]: where run j stands, and what it has read
  unsummed,   \* rows of which support has deleted a day and not yet summed the rest
  basis,      \* history: what the last run that ended had read, or NoMark
  withdrawn,  \* history: rows of which support deleted a day since the last run began
  fixes, kills

support == <<unsummed, withdrawn>>
rankvars == <<mark, employed, total, medals, rewarded, job, support, basis, fixes, kills>>

Ready == [at |-> "ready"]
Places == {Store[r] : r \in Staff}
Podium == <<"top_1", "top_2", "top_3">>

RankingInit ==
  /\ mark \in Histories
  /\ employed = Staff
  /\ total = [r \in Staff |-> NoMark]
  /\ medals = {} /\ rewarded = {}
  /\ job = [j \in Jobs |-> Ready] /\ basis = NoMark
  /\ unsummed = {} /\ withdrawn = {}
  /\ fixes = 0 /\ kills = 0
------------------------------------------------------------------------------
(* Totals.                                                                  *)
Scored(r) == {d \in Dates : mark[r][d] # NoMark}

\* buildMonthlyAggregates, of one row
Sums(r) ==
  [points |-> SumFunction([d \in Scored(r) |-> mark[r][d].points]),
   days   |-> Cardinality(Scored(r)),
   late   |-> Cardinality({d \in Scored(r) : mark[r][d].late})]

FirstKept(rows, d) ==  \* a mutant: the first row of the date stays
  {r \in rows : mark[r][d] # NoMark}

\* dedupeDailyScoresByWorkDate: of the rows of a person that scored on d the one
\* with the most points; of several it is the first the database returns.
Kept(rows, d) ==
  {r \in rows : /\ mark[r][d] # NoMark
                /\ \A s \in rows : mark[s][d] # NoMark => mark[s][d].points <= mark[r][d].points}

Days(rows) == {d \in Dates : \E r \in rows : mark[r][d] # NoMark}

\* summarizeDedupedDailyRows, with pick the rows that were kept
Summary(pick) ==
  [points |-> SumFunction([d \in DOMAIN pick |-> mark[pick[d]][d].points]),
   days   |-> Cardinality(DOMAIN pick),
   late   |-> Cardinality({d \in DOMAIN pick : mark[pick[d]][d].late})]

Summaries(rows) ==
  {Summary(pick) : pick \in {f \in [Days(rows) -> rows] : \A d \in Days(rows) : f[d] \in Kept(rows, d)}}

\* resolveAccountEmployeeIdsBatch, the leaderboard's rows of a person
BoardRows(p) == {r \in employed : Person[r] = p}
\* resolveHistoryEmployeeIds, the rows of his own pages
HistoryRows(p) == {r \in Staff : Person[r] = p}

\* buildLeaderboardEntries ... sumDedupedMonthlyPointsForGroups
BoardTotals(p) == Summaries(BoardRows(p))

\* getKpiMonthly, and the last running_balance of getKpiMonthlyBreakdown
PageTotals(p) == Summaries(HistoryRows(p))
------------------------------------------------------------------------------
(* The run.  ranked[r] is what it has read of row r.                        *)

\* Mutant of CompareRank: late days are not looked at.
CompareRankNoLate(ranked, a, b) ==
  \/ ranked[a].points > ranked[b].points
  \/ /\ ranked[a].points = ranked[b].points
     /\ \/ ranked[a].days > ranked[b].days
        \/ ranked[a].days = ranked[b].days /\ a < b

\* Does row a come before row b?
CompareRank(ranked, a, b) ==
  \/ ranked[a].points > ranked[b].points
  \/ /\ ranked[a].points = ranked[b].points
     /\ \/ ranked[a].days > ranked[b].days
        \/ /\ ranked[a].days = ranked[b].days
           /\ \/ ranked[a].late < ranked[b].late
              \/ ranked[a].late = ranked[b].late /\ a < b

\* assignRanks
RankIn(ranked, rows, r) == 1 + Cardinality({s \in rows : CompareRank(ranked, s, r)})
InStore(ranked, s) == {r \in DOMAIN ranked : Store[r] = s}

At(j, where) == job[j].at = where
Proceed(j, next) ==
  /\ job' = [job EXCEPT ![j] = next]
  /\ UNCHANGED <<mark, employed, unsummed, fixes, kills>>

\* An aggregate of a row is written; its ranks stay as they are.
Upserted(r, sums) ==
  [sums |-> sums,
   rankGlobal |-> IF total[r] = NoMark THEN 0 ELSE total[r].rankGlobal,
   rankBranch |-> IF total[r] = NoMark THEN 0 ELSE total[r].rankBranch]

\* The scores are read, and the totals of all active rows upserted.
BuildMonthlyAggregates(j) ==
  /\ At(j, "ready")
  /\ \A k \in Jobs : job[k].at \in {"ready", "done", "dead"}
  /\ LET ranked == [r \in employed |-> Sums(r)]
     IN  /\ total' = [r \in Staff |->
              IF r \in employed THEN Upserted(r, ranked[r]) ELSE total[r]]
         /\ Proceed(j, [at |-> "rank", ranked |-> ranked])
  /\ withdrawn' = unsummed
  /\ UNCHANGED <<medals, rewarded, basis>>

\* The update of a row whose aggregate has gone fails, and the run with it;
\* the ranks written before stay.
WriteRanks(j) ==
  /\ At(j, "rank")
  /\ LET ranked == job[j].ranked
         gone   == {r \in DOMAIN ranked : total[r] = NoMark}
     IN  \E written \in SUBSET (DOMAIN ranked \ gone) :
           /\ gone = {} => written = DOMAIN ranked
           /\ total' = [r \in Staff |->
                IF r \notin written THEN total[r]
                ELSE [total[r] EXCEPT !.rankGlobal = RankIn(ranked, DOMAIN ranked, r),
                                      !.rankBranch = RankIn(ranked, InStore(ranked, Store[r]), r)]]
           /\ IF gone = {} THEN Proceed(j, [job[j] EXCEPT !.at = "clear"]) /\ UNCHANGED basis
              ELSE Proceed(j, [at |-> "dead"]) /\ basis' = NoMark
  /\ UNCHANGED <<medals, rewarded, withdrawn>>

Medals(ranked) ==
  {[row |-> r, type |-> Podium[RankIn(ranked, InStore(ranked, Store[r]), r)],
    scope |-> "branch", points |-> ranked[r].points] :
     r \in {r \in DOMAIN ranked : RankIn(ranked, InStore(ranked, Store[r]), r) <= 3}}
  \cup
  {[row |-> r, type |-> "eotm", scope |-> "global", points |-> ranked[r].points] :
     r \in {r \in DOMAIN ranked : RankIn(ranked, DOMAIN ranked, r) = 1}}

\* clearMonthGamification: the rewards go, then the achievements.
ClearMonthGamification(j) ==
  /\ At(j, "clear")
  /\ Proceed(j, [at |-> "award", ranked |-> job[j].ranked, left |-> Medals(job[j].ranked)])
  /\ medals' = {} /\ rewarded' = {}
  /\ UNCHANGED <<total, basis, withdrawn>>

\* createAchievementWithReward, in some order.  Nothing in the tables keeps a
\* run from making the achievement of another again: by tells them apart.
CreateAchievement(j) ==
  /\ At(j, "award") /\ job[j].left # {}
  /\ LET m == CHOOSE m \in job[j].left : TRUE
     IN /\ medals' = medals \cup {[medal |-> m, by |-> j]}
       /\ Proceed(j, [at |-> "reward", ranked |-> job[j].ranked, left |-> job[j].left \ {m},
                      medal |-> m])
  /\ UNCHANGED <<total, rewarded, basis, withdrawn>>

\* rewardAmountFromSettings is not zero.
CreateReward(j) ==
  /\ At(j, "reward")
  /\ rewarded' = rewarded \cup {[medal |-> job[j].medal, by |-> j]}
  /\ Proceed(j, [at |-> "award", ranked |-> job[j].ranked, left |-> job[j].left])
  /\ UNCHANGED <<total, medals, basis, withdrawn>>

EndRun(j) ==
  /\ At(j, "award") /\ job[j].left = {}
  /\ basis' = job[j].ranked
  /\ Proceed(j, [at |-> "done"])
  /\ UNCHANGED <<total, medals, rewarded, withdrawn>>

Kill(j) ==
  /\ job[j].at \notin {"ready", "done", "dead"} /\ kills < MaxKills
  /\ kills' = kills + 1 /\ basis' = NoMark
  /\ job' = [job EXCEPT ![j] = [at |-> "dead"]]
  /\ UNCHANGED <<mark, employed, total, medals, rewarded, support, fixes>>
------------------------------------------------------------------------------
\* A score of the month is corrected or withdrawn: a correction by support, an
\* adjustment, a recalculation.  No run follows.
CorrectScore(r, d, m) ==
  /\ fixes < MaxFixes /\ fixes' = fixes + 1
  /\ mark' = [mark EXCEPT ![r][d] = m] /\ mark' # mark
  /\ UNCHANGED <<employed, total, medals, rewarded, job, support, basis, kills>>

\* An employee row is made inactive.
Leave(r) ==
  /\ fixes < MaxFixes /\ fixes' = fixes + 1
  /\ r \in employed /\ employed' = employed \ {r}
  /\ UNCHANGED <<mark, total, medals, rewarded, job, support, basis, kills>>

\* deleteDeveloperSupportAttendance: the day goes with its score; then the
\* row's aggregate is summed again, or deleted with the last score.
DeleteDay(r, d) ==
  /\ fixes < MaxFixes /\ fixes' = fixes + 1
  /\ mark[r][d] # NoMark /\ r \notin unsummed
  /\ mark' = [mark EXCEPT ![r][d] = NoMark]
  /\ unsummed' = unsummed \cup {r} /\ withdrawn' = withdrawn \cup {r}
  /\ UNCHANGED <<employed, total, medals, rewarded, job, basis, kills>>

RecomputeMonthlyAggregate(r) ==
  /\ r \in unsummed /\ unsummed' = unsummed \ {r}
  /\ total' = [total EXCEPT ![r] = IF Scored(r) = {} THEN NoMark ELSE Upserted(r, Sums(r))]
  /\ UNCHANGED <<mark, employed, medals, rewarded, job, basis, withdrawn, fixes, kills>>

RankingNext ==
  \/ \E j \in Jobs :
       \/ BuildMonthlyAggregates(j) \/ WriteRanks(j) \/ ClearMonthGamification(j)
       \/ CreateAchievement(j) \/ CreateReward(j) \/ EndRun(j) \/ Kill(j)
  \/ \E r \in Staff :
       \/ Leave(r)
       \/ RecomputeMonthlyAggregate(r)
       \/ \E d \in Dates : DeleteDay(r, d)
       \/ \E d \in Dates, m \in Marks \cup {NoMark} : CorrectScore(r, d, m)

RankingSpec == RankingInit /\ [][RankingNext]_rankvars
------------------------------------------------------------------------------
(* Properties                                                               *)

\* Before: more points, then more days, then fewer late ones, then the NIK
\* (monthlyRankingService.test.ts:23-33).
Before(a, b, r, s) ==
  \/ a.points > b.points
  \/ a.points = b.points /\ a.days > b.days
  \/ a.points = b.points /\ a.days = b.days /\ a.late < b.late
  \/ a = b /\ r < s

\* When a run has ended, whatever became of those
\* before it, each branch has one achievement for each of its first three and
\* the month has one best employee, each with one reward, the points are those
\* that the run read, and the stored ranks say the same of every row of which
\* no day was deleted meanwhile (monthlyRankingService.ts:200-240).
PodiumIsRight ==
  (basis # NoMark /\ \A j \in Jobs : job[j].at \in {"ready", "done", "dead"}) =>
    LET better(r, rows) == Cardinality({s \in rows : Before(basis[s], basis[r], s, r)})
        mates(r) == {s \in DOMAIN basis : Store[s] = Store[r]}
        held(r, type) == {m \in medals : m.medal.row = r /\ m.medal.type = type}
    IN  /\ \A r \in DOMAIN basis :
             /\ \A i \in 1 .. 3 :
                  Cardinality(held(r, Podium[i])) = IF better(r, mates(r)) = i - 1 THEN 1 ELSE 0
             /\ Cardinality(held(r, "eotm")) = IF better(r, DOMAIN basis) = 0 THEN 1 ELSE 0
             /\ r \notin withdrawn => /\ total[r].rankBranch = better(r, mates(r)) + 1
                                     /\ total[r].rankGlobal = better(r, DOMAIN basis) + 1
        /\ \A m \in medals : m.medal.row \in DOMAIN basis
                             /\ m.medal.points = basis[m.medal.row].points
        /\ rewarded = medals

\* On every date that p scored, a row with the most points is still active.
BestRemain(p) ==
  \A d \in Days(HistoryRows(p)) : Kept(HistoryRows(p), d) \cap employed # {}

\* Whoever has changed branch and left rows behind: the leaderboard never counts
\* more days than his own page, and the two show the same points and days as long
\* as, for each date, one of his best rows is still active, whichever of two equal
\* rows the database returns first (kpiQueryService.ts:151, leaderboardService.ts:85-115).
PageIsBoard ==
  \A p \in {Person[r] : r \in Staff} : \A a \in BoardTotals(p), b \in PageTotals(p) :
    /\ a.days <= b.days
    /\ BestRemain(p) => a.points = b.points /\ a.days = b.days
===============================================================================
