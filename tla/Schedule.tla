-------------------------------- MODULE Schedule --------------------------------
(***************************************************************************)
(* The shifts of the branches and the monthly grid: shift settings         *)
(* (branchShiftConfigService), employee types (organizationConfigService), *)
(* the grid, its copy from month to month, its spreadsheet and the         *)
(* schedules that employees and the public see                             *)
(* (employeeShiftScheduleService, shiftScheduleTemplateService,            *)
(* publicScheduleService).                                                 *)
(*                                                                         *)
(* Handlers run one at a time; one that is several statements is the       *)
(* sequence of tables they leave, and a fault stops it after any of them.  *)
(* A month has one day.  A code "S<n>" is the number n, any other code is  *)
(* a word.  OFF is linked and active at every branch and no handler can    *)
(* change that; it is left out of the tables.  Shift times are left out.   *)
(***************************************************************************)
EXTENDS Integers, FiniteSets, Sequences

CONSTANTS
  Shops,      \* branches
  Crew,       \* active employees
  ShiftIds,        \* ids of work shifts, numbers
  OffId,      \* OFF_SHIFT_ID
  Legacy,     \* LEGACY_WORK_SHIFT_IDS
  Words,      \* codes that are not "S<n>"
  Months,     \* consecutive numbers; today is in the last
  MaxTurns,   \* bound: calls of handlers that write
  MaxStops,   \* bound: calls that stop half way
  Nil

ASSUME ScheduleAssumption ==
  /\ ShiftIds \subseteq Nat /\ OffId \in Nat \ ShiftIds
  /\ Legacy \subseteq ShiftIds /\ \E i \in Legacy : \A j \in Legacy : i <= j
  /\ Months \subseteq Nat /\ Words \cap Nat = {}
  /\ Nil \notin Nat \cup Words
  /\ MaxTurns \in Nat /\ MaxStops \in Nat

VARIABLES
  plan,     \* the tables
  sheet,    \* the spreadsheet a manager has downloaded
  movers,   \* history: employees who changed branch
  uploads,  \* history: uploads that were accepted
  turns, stops

scheduleVars == <<plan, sheet, movers, uploads, turns, stops>>

Codes == ShiftIds \cup {OffId} \cup Words
Cell == ShiftIds \cup {OffId, Nil}

Links == [active : BOOLEAN, removed : BOOLEAN, code : Codes \cup {Nil}]

ASSUME LinksAssumption == Nil \notin Links

FirstShift == CHOOSE i \in Legacy : \A j \in Legacy : i <= j

Link(code) == [active |-> TRUE, removed |-> FALSE, code |-> code]

ScheduleInit ==
  /\ \E home \in [Crew -> Shops] :
       plan = [master |-> [i \in ShiftIds |-> IF i \in Legacy THEN i ELSE Nil],    \* shifts.code
               link   |-> [b \in Shops |-> [i \in ShiftIds |->                      \* branch_shifts
                            IF i \in Legacy THEN Link(Nil) ELSE Nil]],
               types  |-> [b \in Shops |-> {}],         \* shift_ids of the branch's type
               typed  |-> [w \in Crew |-> TRUE],        \* has the employee that type?
               first  |-> [w \in Crew |-> FirstShift],
               shop   |-> home,
               cell   |-> [w \in Crew |-> [m \in Months |-> Nil]],            \* employee_shifts
               row    |-> [w \in Crew |-> [m \in Months |-> Nil]]]            \* attendance
  /\ sheet = Nil /\ movers = {}
  /\ uploads = 0 /\ turns = 0 /\ stops = 0
------------------------------------------------------------------------------
(* Queries.                                                                 *)
Team(d, b) == {w \in Crew : d.shop[w] = b}
Linked(d, b) == {i \in ShiftIds : d.link[b][i] # Nil /\ ~d.link[b][i].removed}
Label(d, b, i) == IF d.link[b][i].code # Nil THEN d.link[b][i].code ELSE d.master[i]

\* listBranchShiftOptions, without OFF
Options(d, b) == {i \in Linked(d, b) : d.link[b][i].active}

\* listBranchShiftOptionsWithHistorical: the shifts of old cells have a link.
WithHistorical(d, b, cells) == Options(d, b) \cup {i \in cells \cap ShiftIds : d.link[b][i] # Nil}

CellsOf(d, b, m) == {d.cell[w][m] : w \in Team(d, b)}

\* resolveBranchEmployeeType: an employee without a type has no shifts of it.
TypeShifts(d, w) == IF d.typed[w] THEN d.types[d.shop[w]] ELSE {}

\* resolveEmployeeAllowedShiftIds
MayAssign(d, w, offered) == IF TypeShifts(d, w) # {} THEN TypeShifts(d, w) ELSE offered

HistoryOfRows(d, b, i) ==  \* a mutant: the grid is not history
  \E w \in Crew, m \in Months : d.row[w][m] # Nil /\ d.row[w][m] = [shop |-> b, shift |-> i]

BranchShiftHasBranchHistory(d, b, i) ==
  \E w \in Crew, m \in Months :
    \/ d.row[w][m] # Nil /\ d.row[w][m] = [shop |-> b, shift |-> i]
    \/ d.shop[w] = b /\ d.cell[w][m] = i

\* Is shift i used by anyone, anywhere?
Used(d, i) ==
  \E w \in Crew : \/ d.first[w] = i
                  \/ \E m \in Months : \/ d.cell[w][m] = i
                                       \/ d.row[w][m] # Nil /\ d.row[w][m].shift = i

\* ensureBranchShiftsSeeded, which every handler and every reader calls: the
\* legacy shifts that the branch has no link to are linked again.
Seeded(d, b) ==
  [d EXCEPT !.link[b] = [i \in ShiftIds |->
     IF i \in Legacy /\ @[i] = Nil /\ d.master[i] # Nil THEN Link(Nil) ELSE @[i]]]

\* The next id after those of all shifts; OFF is not among ShiftIds.
NextShiftId(d) ==
  LET free == {i \in ShiftIds : \A j \in ShiftIds : d.master[j] # Nil => j < i}
  IN  {i \in free : \A j \in free : i <= j}
------------------------------------------------------------------------------
(* A call runs through the tables it leaves, or stops after some of them.   *)
Calling(steps) ==
  /\ turns < MaxTurns /\ turns' = turns + 1
  /\ \E k \in 1 .. Len(steps) :
       /\ k < Len(steps) => stops < MaxStops
       /\ stops' = IF k < Len(steps) THEN stops + 1 ELSE stops
       /\ plan' = steps[k]

\* saveBranchShiftSettings of the shifts in some, of which those in on are
\* active; renamed gets the code c.
SaveBranchShiftSettings(b, some, on, renamed, c) ==
  LET d == Seeded(plan, b)
      code(i) == IF i \in renamed THEN c ELSE Label(d, b, i)
  IN  /\ some \subseteq Linked(d, b) /\ on # {} /\ on \subseteq some
      /\ \A i, j \in some : i # j => code(i) # code(j)
      /\ Calling(<<[d EXCEPT !.link[b] = [i \in ShiftIds |->
           IF i \in some THEN [active |-> i \in on, removed |-> FALSE, code |-> code(i)]
                         ELSE @[i]]]>>)
      /\ UNCHANGED <<sheet, movers, uploads>>

\* createBranchShift: a shift of that code is used again, linked or restored.
CreateBranchShift(b, c) ==
  LET d == Seeded(plan, b)
      known == {i \in ShiftIds : d.master[i] = c}
  IN  /\ \A i \in Linked(d, b) : Label(d, b, i) # c
      /\ \E i \in IF known # {} THEN known ELSE NextShiftId(d) :
           LET named == [d EXCEPT !.master[i] = c]
           IN  /\ i \notin Linked(d, b)
               /\ Calling(<<d, named, [named EXCEPT !.link[b][i] = Link(c)]>>)
      /\ UNCHANGED <<sheet, movers, uploads>>

RemoveFromEmployeeTypes(d, b, i) == [d EXCEPT !.types[b] = @ \ {i}]

\* deleteBranchShift: with history the shift is kept as removed; without, the
\* link goes, and the shift itself when nobody uses it.  Deleting a shift to
\* which a removed link of another branch points fails.
DeleteBranchShift(b, i) ==
  LET removed  == [plan EXCEPT !.link[b][i] = [@ EXCEPT !.removed = TRUE, !.active = FALSE]]
      unlinked == [plan EXCEPT !.link[b][i] = Nil]
      gone     == [unlinked EXCEPT !.master[i] = Nil]
      end(d)   == LET cleaned == RemoveFromEmployeeTypes(d, b, i)
                  IN  <<cleaned, Seeded(cleaned, b)>>
      shared   == \E s \in Shops : i \in Linked(unlinked, s)
      held     == \E s \in Shops : unlinked.link[s][i] # Nil
      steps    == CASE BranchShiftHasBranchHistory(plan, b, i) -> <<removed>> \o end(removed)
                    [] ~BranchShiftHasBranchHistory(plan, b, i) /\ shared ->
                         <<unlinked, Seeded(unlinked, b)>>
                    [] ~BranchShiftHasBranchHistory(plan, b, i) /\ ~shared /\ Used(plan, i) ->
                         <<unlinked>> \o end(unlinked)
                    [] OTHER -> IF held THEN <<unlinked>> ELSE <<unlinked, gone>> \o end(gone)
  IN  /\ Cardinality(Linked(plan, b)) > 1 /\ plan.link[b][i] # Nil
      /\ \A w \in Team(plan, b) : plan.first[w] # i
      /\ Calling(steps)
      /\ UNCHANGED <<sheet, movers, uploads>>

\* saveEmployeeTypes: the first shift of a type becomes its employees' default.
SaveShiftsOfType(b, ids, one) ==
  LET d == Seeded(plan, b)
  IN  /\ ids \subseteq Options(d, b)
      /\ one \in ids \cup {Nil} /\ (one = Nil <=> ids = {})
      /\ Calling(<<[d EXCEPT !.types[b] = ids, !.first = [w \in Crew |->
           IF one # Nil /\ d.shop[w] = b /\ d.typed[w] THEN one ELSE @[w]]]>>)
      /\ UNCHANGED <<sheet, movers, uploads>>

\* updateEmployeeType: to the branch's type, or to none.
UpdateEmployeeType(w) ==
  LET ids == plan.types[plan.shop[w]]
  IN  /\ IF plan.typed[w] \/ ids = {}
         THEN Calling(<<[plan EXCEPT !.typed[w] = ~@]>>)
         ELSE \E i \in ids : Calling(<<[plan EXCEPT !.typed[w] = TRUE, !.first[w] = i]>>)
      /\ UNCHANGED <<sheet, movers, uploads>>

\* An employee moves: his cells and his attendance come with him.
MoveToShop(w, b) ==
  /\ b # plan.shop[w]
  /\ ~plan.typed[w]  \* the branch's type does not exist at b
  /\ Calling(<<[plan EXCEPT !.shop[w] = b]>>)
  /\ movers' = movers \cup {w}
  /\ UNCHANGED <<sheet, uploads>>
------------------------------------------------------------------------------
(* The grid.                                                                *)

\* A check-in on a scheduled day.
CheckInAsScheduled(w, m) ==
  /\ plan.cell[w][m] \in ShiftIds /\ plan.row[w][m] = Nil
  /\ Calling(<<[plan EXCEPT !.row[w][m] = [shop |-> plan.shop[w], shift |-> plan.cell[w][m]]]>>)
  /\ UNCHANGED <<sheet, movers, uploads>>

\* What saveBranchShiftSchedule accepts: changes of month m, by employee.
Acceptable(d, b, changes) ==
  \A w \in DOMAIN changes :
    /\ w \in Team(d, b)
    /\ changes[w] \in {OffId, Nil} \cup (Options(d, b) \cap MayAssign(d, w, Options(d, b)))

\* The cells in one transaction, then the attendance of the days concerned.
SavedGrid(d, m, changes) ==
  LET cells == [d EXCEPT !.cell = [w \in Crew |->
                  IF w \in DOMAIN changes THEN [@[w] EXCEPT ![m] = changes[w]] ELSE @[w]]]
  IN  <<cells,
        [cells EXCEPT !.row = [w \in Crew |->
           IF w \in DOMAIN changes /\ changes[w] # Nil /\ @[w][m] # Nil
           THEN [@[w] EXCEPT ![m].shift = changes[w]] ELSE @[w]]]>>

SaveBranchShiftSchedule(b, m, changes) ==
  LET d == Seeded(plan, b)
  IN  /\ Acceptable(d, b, changes)
      /\ Calling(SavedGrid(d, m, changes))

EditGrid(b, m, w, v) ==
  /\ SaveBranchShiftSchedule(b, m, [x \in {w} |-> v])
  /\ UNCHANGED <<sheet, movers, uploads>>

CopyFromPreviousMonth(b, m) ==
  LET some == {w \in Team(plan, b) : plan.cell[w][m - 1] # Nil}
  IN  /\ m - 1 \in Months /\ some # {}
      /\ SaveBranchShiftSchedule(b, m, [w \in some |-> plan.cell[w][m - 1]])
      /\ UNCHANGED <<sheet, movers, uploads>>

TemplateOfDefaults(d, b, m) ==  \* a mutant: an empty cell shows the default shift
  [w \in Team(d, b) |-> IF d.cell[w][m] # Nil THEN d.cell[w][m] ELSE d.first[w]]
BuildTemplate(d, b, m) == [w \in Team(d, b) |-> d.cell[w][m]]

Download(b, m) ==
  /\ sheet = Nil
  /\ Calling(<<Seeded(plan, b)>>)
  /\ sheet' = [shop |-> b, month |-> m, cells |-> BuildTemplate(plan', b, m),
               seen |-> [w \in Team(plan, b) |-> plan.cell[w][m]], edited |-> {}]
  /\ UNCHANGED <<movers, uploads>>

\* A cell is filled in, from the list of the template, or emptied.
FillIn(w, v) ==
  /\ sheet # Nil /\ w \in DOMAIN sheet.cells /\ sheet.edited = {}
  /\ v \in {OffId, Nil} \cup
           MayAssign(plan, w, WithHistorical(plan, sheet.shop, CellsOf(plan, sheet.shop, sheet.month)))
  /\ sheet' = [sheet EXCEPT !.cells[w] = v, !.edited = {w}]
  /\ UNCHANGED <<plan, movers, uploads, turns, stops>>

\* importShiftScheduleTemplateExcel: an empty cell clears, a shift that the
\* employee may not have is reported and left, the rest is saved as a whole.
ImportTemplate ==
  /\ sheet # Nil
  /\ LET b == sheet.shop
         m == sheet.month
         d == Seeded(plan, b)
         offered == WithHistorical(d, b, CellsOf(d, b, m))
         changed == {w \in DOMAIN sheet.cells \cap Team(d, b) :
           /\ sheet.cells[w] # d.cell[w][m]
           /\ sheet.cells[w] \in {OffId, Nil} \cup MayAssign(d, w, offered)}
     IN  /\ changed # {}
         /\ SaveBranchShiftSchedule(b, m, [w \in changed |-> sheet.cells[w]])
  /\ uploads' = uploads + 1 /\ sheet' = Nil
  /\ UNCHANGED movers
------------------------------------------------------------------------------
(* Views.                                                                   *)

\* getBranchUpcomingShiftSchedule: the groups that are listed.
Upcoming(d, b, m) ==
  [i \in WithHistorical(d, b, CellsOf(d, b, m)) \cup {OffId} |->
     {w \in Team(d, b) : d.cell[w][m] = i}]

\* getEmployeeMonthlyShiftSchedule: the code of the cell, Nil when it is made up
\* from the id.
OwnCode(d, w, m) ==
  LET b == d.shop[w]
      i == d.cell[w][m]
  IN  CASE i = OffId -> OffId
        [] i \in WithHistorical(d, b, {i}) -> Label(d, b, i)
        [] OTHER -> Nil

\* resolveHistoricalShiftCode, Nil when the code is made up from the id
HistoricalCode(d, b, i) ==
  CASE i = OffId -> OffId
    [] i # OffId /\ d.link[b][i] # Nil -> Label(d, b, i)
    [] OTHER -> d.master[i]

------------------------------------------------------------------------------
ScheduleNext ==
  \/ \E b \in Shops :
       \/ \E on \in SUBSET ShiftIds :  \* all shifts are saved, some are inactive
            SaveBranchShiftSettings(b, Linked(Seeded(plan, b), b), on, {}, Nil)
       \/ \E i \in ShiftIds, c \in Codes : SaveBranchShiftSettings(b, {i}, {i}, {i}, c)
       \/ \E c \in Codes : CreateBranchShift(b, c)
       \/ \E i \in ShiftIds : DeleteBranchShift(b, i)
       \/ \E ids \in SUBSET ShiftIds, one \in ShiftIds \cup {Nil} : SaveShiftsOfType(b, ids, one)
       \/ \E m \in Months, w \in Crew, v \in Cell : EditGrid(b, m, w, v)
       \/ \E m \in Months : CopyFromPreviousMonth(b, m)
       \/ \E m \in Months : Download(b, m)
  \/ \E w \in Crew :
       \/ UpdateEmployeeType(w)
       \/ \E b \in Shops : MoveToShop(w, b)
       \/ \E m \in Months : CheckInAsScheduled(w, m)
       \/ \E v \in Cell : FillIn(w, v)
  \/ ImportTemplate

ScheduleSpec == ScheduleInit /\ [][ScheduleNext]_scheduleVars
------------------------------------------------------------------------------
(* Properties                                                               *)

\* Whatever is renamed, removed, restored or deleted, and wherever a call
\* stops: an employee who did not change branch is listed in the team's
\* schedule under the shift of his cell and reads its code in his own, and the
\* shift of every attendance keeps its code (branchShiftConfigService.ts:151,
\* 601).
HistoryIsReadable ==
  /\ \A w \in Crew \ movers, m \in Months :
       LET b == plan.shop[w]
           groups == Upcoming(plan, b, m)
       IN  plan.cell[w][m] # Nil =>
             /\ plan.cell[w][m] \in DOMAIN groups /\ w \in groups[plan.cell[w][m]]
             /\ OwnCode(plan, w, m) # Nil
  /\ \A w \in Crew, m \in Months :
       plan.row[w][m] # Nil => HistoricalCode(plan, plan.row[w][m].shop, plan.row[w][m].shift) # Nil

\* An uploaded spreadsheet leaves the cells alone that nobody has changed,
\* neither in it nor on the server, since it was downloaded.
UploadKeepsOthers ==
  [][uploads' # uploads =>
       \A w \in DOMAIN sheet.cells \ sheet.edited :
         plan.cell[w][sheet.month] = sheet.seen[w] =>
           plan'.cell[w][sheet.month] = sheet.seen[w]]_scheduleVars

===============================================================================
