------------------------------- MODULE DayScore -------------------------------
(***************************************************************************)
(* The attendance row and the KPI score of one employee on one work date,  *)
(* and the requests that rewrite them without the ingest lock: a check-in, *)
(* the recalculation after a grid change, the reconciliation of late       *)
(* minutes on a board read, a manager's adjustment, a support correction   *)
(* or deletion and the nightly forgotten-checkout job.                     *)
(*                                                                         *)
(* Each of them reads the row or the score first and writes later, values  *)
(* computed from what it read.  A call is between its read and its write   *)
(* while at[c] is not "idle"; the write is one transaction, which throws   *)
(* and is rolled back when the row it names by id has been deleted.        *)
(***************************************************************************)
EXTENDS Integers

CONSTANTS
  Calls,         \* concurrent requests and jobs
  Managers,      \* users with kpi.adjust
  Shifts,        \* the working shifts
  Times,         \* possible check-in instants
  Off,           \* OFF_SHIFT_ID
  None,          \* SQL NULL
  Points,        \* Points[s][t]: KPI points of a check-in at t on shift s
  Lateness,      \* Lateness[s][t]: late minutes of that check-in
  Bonuses,       \* the bonus_points a manager may send (-5..5 in the code)
  MaxAdjust,     \* 10: bound on the day's adjustment
  MaxEvals,      \* 3: evaluations by one manager of one employee a day
  MaxCalls       \* bound: calls that are made, by whether they may overlap

ASSUME ScoreAssumption ==
  /\ Off \notin Shifts /\ None \notin Shifts \cup {Off} \cup Times \cup Managers
  /\ Points \in [Shifts \cup {Off} -> [Times -> Int]]
  /\ Lateness \in [Shifts \cup {Off} -> [Times -> Nat]]
  /\ Bonuses \subseteq Int /\ MaxAdjust \in Nat /\ MaxEvals \in Nat
  /\ MaxCalls \in [BOOLEAN -> Nat]

VARIABLES
  overlap,   \* may calls overlap?
  grid,      \* the EmployeeShift row: a shift, Off, or None
  row,       \* the AttendanceRecord; status "none" if there is none
  score,     \* the KpiDailyScore
  evals,     \* evals[m]: how many ManagerEvaluation rows m wrote that day
  counted,   \* counted[m]: those among them that adjustEmployeeKpi counts
  bonusSum,  \* the sum of the bonusPoints given since there is a score
  at,        \* at[c]: the write that call c will do next
  arg,       \* arg[c]: what c was called with
  seen,      \* seen[c]: the row and the score as c read them; is the row gone?
  made,      \* how many calls have been made
  phase,     \* "dawn" until 07:00 of the work date, then "day", then "past"
  crossed    \* have two adjustments ever been under way at once?

given == <<evals, counted, bonusSum>>
data  == <<grid, row, score, given>>
calls == <<at, arg, seen, made>>
vars  == <<overlap, data, calls, phase, crossed>>

Statuses == {"none", "absent", "present", "late", "on_break", "left",
             "forgot_checkout"}

Rows == [status : Statuses, checkIn : Times \cup {None}, checkOut : BOOLEAN,
         shift : Shifts \cup {Off}, late : Nat]

Scores == [exists : BOOLEAN, points : Int, adjust : Int, total : Int]

NoRow == [status |-> "none", checkIn |-> None, checkOut |-> FALSE,
          shift |-> Off, late |-> 0]

NoScore == [exists |-> FALSE, points |-> 0, adjust |-> 0, total |-> 0]

NoArg == [cell |-> None, time |-> None, out |-> FALSE, by |-> None, bonus |-> 0]

Unseen == [row |-> NoRow, score |-> NoScore, gone |-> FALSE]

Init ==
  /\ overlap \in BOOLEAN
  /\ grid \in Shifts \cup {Off, None}
  /\ row = NoRow /\ score = NoScore
  /\ evals = [m \in Managers |-> 0] /\ counted = evals /\ bonusSum = 0
  /\ at = [c \in Calls |-> "idle"]
  /\ arg = [c \in Calls |-> NoArg]
  /\ seen = [c \in Calls |-> Unseen]
  /\ made = 0
  /\ phase = "dawn" /\ crossed = FALSE
------------------------------------------------------------------------------
\* Without overlap a call starts only when no other one is running.
MayStart == overlap \/ \A c \in Calls : at[c] = "idle"

\* The calls of adjustEmployeeKpi that have read the score.
Adjusting == {"count", "adjust"}

\* Call c has read the row and the score, and will write next.
Read(c, write, args) ==
  /\ at[c] = "idle" /\ MayStart
  /\ made < MaxCalls[overlap] /\ made' = made + 1
  /\ at' = [at EXCEPT ![c] = write]
  /\ arg' = [arg EXCEPT ![c] = args]
  /\ seen' = [seen EXCEPT ![c] = [row |-> row, score |-> score, gone |-> FALSE]]
  /\ crossed' = \/ crossed
                \/ write = "count" /\ \E d \in Calls : at[d] \in Adjusting
  /\ UNCHANGED <<phase, overlap>>

Return(c) ==
  /\ at' = [at EXCEPT ![c] = "idle"]
  /\ arg' = [arg EXCEPT ![c] = NoArg]
  /\ seen' = [seen EXCEPT ![c] = Unseen]
  /\ UNCHANGED <<made, phase, overlap, crossed>>

\* The row that c means to write is not there any more, or the one it means
\* to create is there already.
Missed(c) ==
  IF seen[c].row.status = "none" THEN row.status # "none" ELSE seen[c].gone

\* Call c is about to write, and will find what it expects.
Writes(c, write) == at[c] = write /\ ~Missed(c)

(* It does not: the statement throws and the transaction is rolled back.   *)
RollBack(c) ==
  /\ at[c] \notin {"idle", "sync", "count"} /\ Missed(c)
  /\ Return(c)
  /\ UNCHANGED data

\* computeCheckInKpiFields: status of a check-in at t on shift s.
CheckInStatus(s, t) == IF Lateness[s][t] > 0 THEN "late" ELSE "present"

\* Mutant: the upsert also writes back the adjustment that was read.
UpsertAll(s, t, adjustment) ==
  score' = [exists |-> TRUE, points |-> Points[s][t], adjust |-> adjustment,
            total |-> Points[s][t] + adjustment]

\* kpiDailyScore.upsert with the adjustment that the call has read.
UpsertScore(s, t, adjustment) ==
  score' = IF score.exists
             THEN [score EXCEPT !.points = Points[s][t],
                                !.total = Points[s][t] + adjustment]
             ELSE [exists |-> TRUE, points |-> Points[s][t], adjust |-> 0,
                   total |-> Points[s][t]]
------------------------------------------------------------------------------
(* processCheckIn, under the ingest lock: at most one at a time.           *)
CheckInRead(c, t) ==
  /\ grid \in Shifts /\ row.checkIn = None
  /\ \A d \in Calls : at[d] # "checkin"
  /\ Read(c, "checkin", [NoArg EXCEPT !.time = t, !.cell = grid])
  /\ UNCHANGED data

(* fillMissingDeveloperSupportAttendance: the same check-in, without the   *)
(* ingest lock, and a check-out if one is sent.                            *)
FillRead(c, t, out) ==
  /\ \/ row.checkIn = None /\ grid \in Shifts
        /\ Read(c, "checkin", [NoArg EXCEPT !.time = t, !.cell = grid, !.out = out])
     \/ row.checkIn # None /\ ~row.checkOut /\ out
        /\ Read(c, "close", [NoArg EXCEPT !.out = out])
  /\ UNCHANGED data

FillClose(c) ==
  /\ Writes(c, "close")
  /\ row' = [row EXCEPT !.checkOut = TRUE, !.status = "left"]
  /\ Return(c)
  /\ UNCHANGED <<grid, score, given>>

\* The row is created or updated as the call found it; a check-out that was
\* sent along is written next, to the row of this id.
CheckInWrite(c) ==
  /\ Writes(c, "checkin")
  /\ LET s == arg[c].cell
         t == arg[c].time
     IN  /\ row' = [row EXCEPT !.checkIn = t, !.shift = s,
                               !.late = Lateness[s][t],
                               !.status = CheckInStatus(s, t)]
         /\ UpsertScore(s, t, seen[c].score.adjust)
  /\ IF arg[c].out
       THEN /\ at' = [at EXCEPT ![c] = "close"]
            /\ seen' = [seen EXCEPT ![c] = [row |-> row', score |-> score', gone |-> FALSE]]
            /\ UNCHANGED <<arg, made, phase, overlap, crossed>>
       ELSE Return(c)
  /\ UNCHANGED <<grid, given>>

\* ensureAttendanceForDate: an approval request makes sure there is a row.
EnsureRow ==
  /\ MayStart /\ row.status = "none"
  /\ row' = [row EXCEPT !.status = "absent",
                        !.shift = IF grid = None THEN Off ELSE grid]
  /\ UNCHANGED <<grid, score, given, calls, phase, overlap, crossed>>

\* The row writes of the ingest pipeline's other scans of the day; their
\* order is TelegramIngest's subject.
Scan(status) ==
  /\ MayStart /\ grid # None /\ row.status # "none"
  /\ row' = [row EXCEPT !.status = status, !.shift = grid,
                        !.checkOut = @ \/ status = "left"]
  /\ UNCHANGED <<grid, score, given, calls, phase, overlap, crossed>>
------------------------------------------------------------------------------
(* saveBranchShiftSchedule: the cell is committed first, the day's row and *)
(* score follow in calls of their own.                                     *)
SaveGrid(c, cell) ==
  /\ Read(c, "sync", [NoArg EXCEPT !.cell = cell])
  /\ grid' = cell
  /\ UNCHANGED <<row, score, given>>

\* syncAttendanceShiftFromSchedule: an off day only changes the row's shift;
\* for a working shift the row and the score are read.
Sync(c) ==
  /\ at[c] = "sync"
  /\ IF arg[c].cell \in Shifts /\ row.checkIn # None
       THEN /\ at' = [at EXCEPT ![c] = "recalc"]
            /\ seen' = [seen EXCEPT ![c] = [row |-> row, score |-> score, gone |-> FALSE]]
            /\ UNCHANGED <<row, arg, made, phase, overlap, crossed>>
       ELSE /\ row' = IF arg[c].cell = Off /\ row.checkIn # None
                        THEN [row EXCEPT !.shift = Off] ELSE row
            /\ Return(c)
  /\ UNCHANGED <<grid, score, given>>

\* The transaction of recalculateAttendanceKpiForShiftChange.
RecalcWrite(c) ==
  /\ Writes(c, "recalc")
  /\ LET s   == arg[c].cell
         old == seen[c].row
     IN  /\ row' = [row EXCEPT
              !.shift = s, !.late = Lateness[s][old.checkIn],
              !.status = IF ~old.checkOut THEN CheckInStatus(s, old.checkIn)
                         ELSE IF old.status = "forgot_checkout" THEN old.status
                         ELSE "left"]
         /\ UpsertScore(s, old.checkIn, seen[c].score.adjust)
  /\ Return(c)
  /\ UNCHANGED <<grid, given>>
------------------------------------------------------------------------------
(* reconcileBranchAttendanceLateForDate, called when a board is loaded; a  *)
(* board shows today.                                                      *)
HealRead(c) ==
  /\ phase # "past" /\ row.checkIn # None /\ grid # Off
  /\ Read(c, "heal", [NoArg EXCEPT !.cell = grid])
  /\ UNCHANGED data

\* nextStatus: the status of a row that is not checked out.
NextStatus(s, old) ==
  IF old.status = "on_break" THEN old.status ELSE CheckInStatus(s, old.checkIn)

\* A row that is checked out only gets its status and lateness tidied; one
\* that is not is scored again, an open break excepted.
HealWrite(c) ==
  /\ Writes(c, "heal")
  /\ LET s    == arg[c].cell
         old  == seen[c].row
         ends == old.status \in {"left", "forgot_checkout"}
         next == NextStatus(s, old)
     IN  \/ /\ s = None \/ old.checkOut
            /\ row' = [row EXCEPT
                 !.status = IF old.checkOut /\ ~ends THEN "left" ELSE @,
                 !.late = IF s # None /\ old.late = 0
                          THEN Lateness[s][old.checkIn] ELSE @]
            /\ UNCHANGED score
         \/ /\ s # None /\ ~old.checkOut
            /\ \/ old.status = "late" /\ old.late > 0
               \/ old.late = Lateness[s][old.checkIn] /\ old.status = next
            /\ UNCHANGED <<row, score>>
         \/ /\ s # None /\ ~old.checkOut
            /\ ~(old.status = "late" /\ old.late > 0)
            /\ ~(old.late = Lateness[s][old.checkIn] /\ old.status = next)
            /\ row' = [row EXCEPT !.shift = s, !.late = Lateness[s][old.checkIn],
                                  !.status = next]
            /\ UpsertScore(s, old.checkIn, seen[c].score.adjust)
  /\ Return(c)
  /\ UNCHANGED <<grid, given>>
------------------------------------------------------------------------------
(* adjustEmployeeKpi: the score is read, the manager's evaluations are     *)
(* counted, and both are written in one transaction.  Only today's score   *)
(* is adjusted.  Counted are the evaluations of 24 hours from 00:00 UTC on *)
(* the work date, which is 07:00 in WIB: not those given before.           *)
AdjustRead(c, m, b) ==
  /\ phase # "past" /\ score.exists
  /\ Read(c, "count", [NoArg EXCEPT !.by = m, !.bonus = b])
  /\ UNCHANGED data

AdjustCount(c) ==
  /\ at[c] = "count"
  /\ IF /\ counted[arg[c].by] < MaxEvals
        /\ seen[c].score.adjust + arg[c].bonus \in -MaxAdjust..MaxAdjust
       THEN at' = [at EXCEPT ![c] = "adjust"]
            /\ UNCHANGED <<arg, seen, made, phase, overlap, crossed>>
       ELSE Return(c)
  /\ UNCHANGED data

\* The ManagerEvaluation that is created with the adjustment.
Evaluated(m, bonus) ==
  /\ evals' = [evals EXCEPT ![m] = @ + 1]
  /\ counted' = [counted EXCEPT ![m] = IF phase = "dawn" THEN @ ELSE @ + 1]
  /\ bonusSum' = bonusSum + bonus

\* Mutant: the last bonus takes the place of the adjustment.
AdjustReplaces(c) ==
  /\ Writes(c, "adjust")
  /\ score' = [score EXCEPT !.adjust = arg[c].bonus,
                            !.total = seen[c].score.points + arg[c].bonus]
  /\ Evaluated(arg[c].by, arg[c].bonus)
  /\ Return(c)
  /\ UNCHANGED <<grid, row>>

AdjustWrite(c) ==
  /\ Writes(c, "adjust")
  /\ LET old == seen[c].score
         new == old.adjust + arg[c].bonus
     IN  score' = [score EXCEPT !.adjust = new, !.total = old.points + new]
  /\ Evaluated(arg[c].by, arg[c].bonus)
  /\ Return(c)
  /\ UNCHANGED <<grid, row>>
------------------------------------------------------------------------------
(* updateDeveloperSupportAttendance: check-in and check-out are corrected  *)
(* (a check-out possibly to another instant), and the check-in is scored   *)
(* on the row's own shift.                                                 *)
SupportRead(c, t, out) ==
  /\ row.status # "none"
  /\ t # row.checkIn \/ row.checkOut \/ out
  /\ Read(c, "support", [NoArg EXCEPT !.time = t, !.out = out])
  /\ UNCHANGED data

\* Mutant: the correction moves the check-in but does not score it again.
SupportUnscored(c) ==
  /\ Writes(c, "support")
  /\ row' = [row EXCEPT !.checkIn = arg[c].time, !.checkOut = arg[c].out]
  /\ Return(c)
  /\ UNCHANGED <<grid, score, given>>

SupportWrite(c) ==
  /\ Writes(c, "support")
  /\ LET old == seen[c].row
         t   == arg[c].time
         out == arg[c].out
     IN  /\ row' = [row EXCEPT
              !.checkIn = t, !.checkOut = out, !.late = Lateness[old.shift][t],
              !.status = IF ~out THEN CheckInStatus(old.shift, t)
                         ELSE IF old.status = "forgot_checkout" THEN old.status
                         ELSE "left"]
         /\ UpsertScore(old.shift, t, seen[c].score.adjust)
  /\ Return(c)
  /\ UNCHANGED <<grid, given>>

(* deleteDeveloperSupportAttendance: the row and the score of the day are  *)
(* deleted, the manager's evaluations of it are kept.                      *)
DeleteRead(c) ==
  /\ row.status # "none"
  /\ Read(c, "delete", NoArg)
  /\ UNCHANGED data

DeleteWrite(c) ==
  /\ Writes(c, "delete")
  /\ row' = NoRow /\ score' = NoScore /\ bonusSum' = 0
  /\ at' = [at EXCEPT ![c] = "idle"]
  /\ seen' = [d \in Calls |->
       IF d = c THEN Unseen
       ELSE [seen[d] EXCEPT !.gone = @ \/ seen[d].row.status # "none"]]
  /\ UNCHANGED <<grid, evals, counted, arg, made, phase, overlap, crossed>>

(* processForgotCheckoutsForDate: the open rows are found, then marked one *)
(* by one.  The scheduler calls it after midnight, for yesterday.            *)
ForgotRead(c) ==
  /\ phase = "past" /\ row.checkIn # None /\ ~row.checkOut
  /\ row.status \in {"present", "late", "on_break"}
  /\ Read(c, "forgot", NoArg)
  /\ UNCHANGED data

ForgotWrite(c) ==
  /\ Writes(c, "forgot")
  /\ row' = [row EXCEPT !.status = "forgot_checkout"]
  /\ Return(c)
  /\ UNCHANGED <<grid, score, given>>
------------------------------------------------------------------------------
\* It strikes seven, or midnight.
Clock ==
  /\ \/ phase = "dawn" /\ phase' = "day"
     \/ phase = "day" /\ phase' = "past"
  /\ UNCHANGED <<data, calls, overlap, crossed>>

Begin(c) ==
  \/ \E t \in Times : CheckInRead(c, t)
  \/ \E cell \in Shifts \cup {Off, None} : SaveGrid(c, cell)
  \/ HealRead(c)
  \/ \E m \in Managers, b \in Bonuses : AdjustRead(c, m, b)
  \/ \E t \in Times, out \in BOOLEAN : SupportRead(c, t, out) \/ FillRead(c, t, out)
  \/ DeleteRead(c) \/ ForgotRead(c)

Finish(c) ==
  \/ CheckInWrite(c) \/ FillClose(c) \/ Sync(c) \/ RecalcWrite(c) \/ HealWrite(c)
  \/ AdjustCount(c) \/ AdjustWrite(c) \/ SupportWrite(c) \/ DeleteWrite(c)
  \/ ForgotWrite(c) \/ RollBack(c)

Next ==
  \/ \E c \in Calls : Begin(c) \/ Finish(c)
  \/ EnsureRow \/ Clock
  \/ \E status \in {"on_break", "present", "left"} : Scan(status)

Spec == Init /\ [][Next]_vars
------------------------------------------------------------------------------
TypeOK ==
  /\ overlap \in BOOLEAN
  /\ grid \in Shifts \cup {Off, None}
  /\ row \in Rows /\ score \in Scores
  /\ evals \in [Managers -> Nat] /\ counted \in [Managers -> Nat] /\ bonusSum \in Int
  /\ at \in [Calls -> {"idle", "checkin", "sync", "recalc", "heal", "count",
                       "adjust", "support", "delete", "forgot", "close"}]
  /\ arg \in [Calls -> [cell : Shifts \cup {Off, None}, time : Times \cup {None},
                        out : BOOLEAN, by : Managers \cup {None}, bonus : Int]]
  /\ seen \in [Calls -> [row : Rows, score : Scores, gone : BOOLEAN]]
  /\ made \in Nat /\ phase \in {"dawn", "day", "past"} /\ crossed \in BOOLEAN

(* However requests overlap, the adjustment of a day stays within its      *)
(* limits, although it is checked against a score read earlier             *)
(* (kpiAdjustmentService.ts: "harus antara -10 dan +10 poin").             *)
AdjustmentInRange == score.adjust \in -MaxAdjust..MaxAdjust

(* However requests overlap, only a manager changes a manager's points,    *)
(* and the deletion of the whole day: no check-in, recalculation,          *)
(* reconciliation or correction overwrites them, not even one that read    *)
(* the score before they were given or before the day was deleted          *)
(* (attendanceKpiRecalcService.ts: "adjustmentPoints tetap dipertahankan").*)
AdjustmentKept ==
  [][score.adjust' # score.adjust =>
       \E c \in Calls : AdjustWrite(c) \/ DeleteWrite(c)]_vars

(* When calls do not overlap, the total shown for a day is the sum of its  *)
(* two parts, whichever of the calls wrote it last.                        *)
TotalIsSum == ~overlap => score.total = score.points + score.adjust

(* However the other requests overlap with one, the adjustment of a day is *)
(* the sum of all evaluations since the day has a score, unless two of     *)
(* them were under way at once: these read the same sum                    *)
(* (kpiAdjustmentService.ts:44-46, 80-88), and one of the two is lost.     *)
EveryBonusCounts == ~crossed => score.adjust = bonusSum

(* No manager evaluates an employee more often a day than is allowed       *)
(* (kpiAdjustmentService.ts:69-71, "hari ini sudah tercapai (maks. 3)"),   *)
(* two overlapping requests excepted, which both count before either       *)
(* writes.                                                                 *)
EvaluationLimit == ~overlap => \A m \in Managers : evals[m] <= MaxEvals

(* However requests overlap, a day is scored if and only if it has a       *)
(* check-in, although both are deleted and rewritten by id.  When calls do *)
(* not overlap and none is running, the points are those of the check-in   *)
(* that its row shows, on one of the shifts.                               *)
PointsMatchCheckIn ==
  /\ score.exists = (row.checkIn # None)
  /\ ~overlap /\ (\A c \in Calls : at[c] = "idle") /\ score.exists =>
       \E s \in Shifts \cup {Off} : score.points = Points[s][row.checkIn]
=============================================================================
