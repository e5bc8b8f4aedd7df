------------------------------- MODULE Approvals -------------------------------
(***************************************************************************)
(* Requests about one work date of a branch: leaving early or without a    *)
(* break, a forgotten check-out, overtime, a swap of shifts between two    *)
(* colleagues, and the excuse for being late.  Each is checked, then       *)
(* created, answered by the colleague, then decided by a manager; a swap   *)
(* that is decided rewrites two cells of the schedule grid and the day's   *)
(* rows behind them.                                                       *)
(*                                                                         *)
(* at[c] is the await at which call c stands.  What a call has read is in  *)
(* arg[c]; it does not read it again.                                      *)
(***************************************************************************)
EXTENDS Naturals, Sequences

CONSTANTS
  Calls,        \* concurrent HTTP requests
  Employees,
  Managers,     \* reviewers of the branch
  EmployeeOf,   \* EmployeeOf[m]: the manager's own employee row, or None
  Shifts,       \* the working shifts
  Planned,      \* Planned[e]: the shift of e on the day, as the grid was first saved
  Off,          \* OFF_SHIFT_ID
  None,         \* SQL NULL
  Ids,          \* request ids; bounds how many requests are made
  MaxCalls,     \* bound: calls that are made, by whether they may overlap
  MaxCrashes    \* bound: calls that die between two awaits, likewise

ASSUME ApprovalsAssumption ==
  /\ EmployeeOf \in [Managers -> Employees \cup {None}]
  /\ None \notin Employees \cup Shifts \cup {Off} \cup Ids
  /\ Planned \in [Employees -> Shifts] /\ Off \notin Shifts
  /\ MaxCalls \in [BOOLEAN -> Nat] /\ MaxCrashes \in [BOOLEAN -> Nat]

VARIABLES
  overlap,    \* may calls overlap?
  day,        \* where the work date lies
  grid,       \* grid[e]: the EmployeeShift row of e
  row,        \* row[e]: the AttendanceRecord of e
  request,    \* request[i]: a row of attendance_approval_requests, late_excuses
  at, arg,
  consented,  \* requests that the colleague has accepted at some time
  swapped,    \* requests whose swap has been written to the grid
  made, crashes

vars == <<overlap, day, grid, row, request, at, arg, consented, swapped,
          made, crashes>>

Cells == Shifts \cup {Off, None}

\* early_leave stands for no_break too: the two are treated alike.
Types == {"early_leave", "forgot_checkout", "overtime", "late_excuse", "shift_swap"}

Rows == [status : {"none", "absent", "in", "left", "forgot_checkout"},
         checkIn : BOOLEAN, checkOut : BOOLEAN, shift : Shifts \cup {Off}]

NoRow == [status |-> "none", checkIn |-> FALSE, checkOut |-> FALSE, shift |-> Off]

\* by asks, other is the colleague of a swap; from and to are the shifts of
\* the two as they were when the request was made (of a swap; the shifts of
\* an overtime are not used again).
Requests == [by : Employees, type : Types, other : Employees \cup {None},
             from : Cells, to : Cells,
             peer : {"none", "pending", "accepted", "rejected"},
             status : {"pending", "approved", "rejected"}]

\* No row is NULL.
ASSUME RequestsAssumption == None \notin Requests

NoArg == [id |-> None, ask |-> None, yes |-> FALSE, todo |-> <<>>]

Made == {i \in Ids : request[i] # None}
Pending(i) == request[i] # None /\ request[i].status = "pending"
IsSwap(i) == request[i].type = "shift_swap"

Init ==
  /\ overlap \in BOOLEAN /\ day \in {"future", "today"}
  /\ grid = Planned
  /\ row = [e \in Employees |-> NoRow]
  /\ request = [i \in Ids |-> None]
  /\ at = [c \in Calls |-> "idle"] /\ arg = [c \in Calls |-> NoArg]
  /\ consented = {} /\ swapped = {}
  /\ made = 0 /\ crashes = 0
------------------------------------------------------------------------------
\* Without overlap a call starts only when no other one is running.
MayStart == overlap \/ \A c \in Calls : at[c] = "idle"

Start(c, next, args) ==
  /\ at[c] = "idle" /\ MayStart /\ made < MaxCalls[overlap]
  /\ at' = [at EXCEPT ![c] = next] /\ arg' = [arg EXCEPT ![c] = args]
  /\ made' = made + 1
  /\ UNCHANGED <<overlap, day, crashes>>

GoOn(c, next) ==
  /\ at' = [at EXCEPT ![c] = next]
  /\ UNCHANGED <<overlap, day, made, crashes>>

Return(c) == GoOn(c, "idle") /\ arg' = [arg EXCEPT ![c] = NoArg]

\* A request of this type that is not rejected.
Active(e, type) ==
  \E i \in Made : /\ request[i].by = e /\ request[i].type = type
                  /\ request[i].status # "rejected"

SwapPending(e) ==
  \E i \in Made : Pending(i) /\ IsSwap(i) /\ e \in {request[i].by, request[i].other}
------------------------------------------------------------------------------
(* The views: what the employee may ask for on the day, with whom to swap,  *)
(* which shifts to work overtime in; and the inboxes.                      *)
ActiveTypes(e) == {type \in Types : Active(e, type)}

CanSubmit(e) ==
  {type \in {"early_leave", "shift_swap", "overtime"} : type \notin ActiveTypes(e)}
  \cup {type \in {"forgot_checkout"} : row[e].status = type /\ type \notin ActiveTypes(e)}

CanSwap(e, other) ==
  other # e /\ {grid[e], grid[other]} \subseteq Shifts /\ grid[e] # grid[other]

OvertimeTargets(e) == IF grid[e] = None THEN {} ELSE Shifts \ {grid[e]}

\* listIncomingShiftSwapRequests
Incoming(e) ==
  {i \in Made : Pending(i) /\ IsSwap(i) /\ request[i].other = e /\ request[i].peer = "pending"}

\* listBranchApprovalRequests
BranchInbox ==
  {i \in Made : /\ Pending(i) /\ request[i].type # "late_excuse"
                /\ ~(IsSwap(i) /\ request[i].peer = "pending")}

\* listBranchLateExcuses
ExcuseInbox == {i \in Made : Pending(i) /\ request[i].type = "late_excuse"}

\* manager_actionable of mapApprovalRow
Actionable(i) == IsSwap(i) /\ Pending(i) /\ request[i].peer = "accepted"
------------------------------------------------------------------------------
\* A new request.
Asked(e, type, other) ==
  [by |-> e, type |-> type, other |-> other, from |-> None, to |-> None,
   peer |-> IF other = None THEN "none" ELSE "pending", status |-> "pending"]

\* Mutant: only requests that are still pending are looked for.
SubmitPendingOnly(c, e, type, other) ==
  /\ ~\E i \in Made : Pending(i) /\ request[i].by = e /\ request[i].type = type
  /\ type = "shift_swap" <=> other # None
  /\ other # e
  /\ Start(c, "ensure", [NoArg EXCEPT !.ask = Asked(e, type, other)])
  /\ UNCHANGED <<grid, row, request, consented, swapped>>

(* createApprovalRequest: look for an active request, make sure there is a *)
(* row and check it, look for a pending swap of either colleague, read     *)
(* their cells, create.                                                    *)
Submit(c, e, type, other) ==
  /\ ~Active(e, type)
  /\ type = "shift_swap" <=> other # None
  /\ other # e
  /\ Start(c, "ensure", [NoArg EXCEPT !.ask = Asked(e, type, other)])
  /\ UNCHANGED <<grid, row, request, consented, swapped>>

\* resolveEffectiveShiftId: a day that is not in the grid counts as OFF.
EffectiveShift(e) == IF grid[e] = None THEN Off ELSE grid[e]

Ensured(e) ==
  IF row[e].status # "none" THEN row[e]
  ELSE [row[e] EXCEPT !.status = "absent", !.shift = EffectiveShift(e)]

\* An overtime names a working shift of the branch, another than one's own.
OvertimeAllowed(e) == grid[e] \in Shifts /\ \E target \in Shifts : target # grid[e]

\* May a request of this type be made of the day as it is?
Allowed(ask) ==
  LET r == Ensured(ask.by) IN
  /\ ask.type = "forgot_checkout" => r.status = "forgot_checkout"
  /\ ask.type = "early_leave" => ~r.checkOut /\ (r.checkIn \/ day = "future")
  /\ ask.type = "overtime" => OvertimeAllowed(ask.by)

Ensure(c) ==
  LET ask == arg[c].ask IN
  /\ at[c] = "ensure"
  /\ row' = [row EXCEPT ![ask.by] = Ensured(ask.by)]
  /\ IF ~Allowed(ask) THEN Return(c)
     ELSE IF ask.type = "shift_swap" THEN GoOn(c, "conflict") /\ UNCHANGED arg
     ELSE GoOn(c, "create") /\ UNCHANGED arg
  /\ UNCHANGED <<grid, request, consented, swapped>>

\* assertNoConflictingShiftSwap
Conflict(c) ==
  LET ask == arg[c].ask IN
  /\ at[c] = "conflict"
  /\ IF SwapPending(ask.by) \/ SwapPending(ask.other)
       THEN Return(c) ELSE GoOn(c, "shifts") /\ UNCHANGED arg
  /\ UNCHANGED <<grid, row, request, consented, swapped>>

\* Mutant: a day off can be swapped, too.
ReadShiftsOff(c) ==
  LET ask == arg[c].ask IN
  /\ at[c] = "shifts"
  /\ IF None \notin {grid[ask.by], grid[ask.other]} /\ grid[ask.by] # grid[ask.other]
       THEN /\ GoOn(c, "create")
            /\ arg' = [arg EXCEPT ![c].ask.from = grid[ask.by],
                                  ![c].ask.to = grid[ask.other]]
       ELSE Return(c)
  /\ UNCHANGED <<grid, row, request, consented, swapped>>

\* resolveGridShiftForDate of both: they work, on different shifts.
ReadShifts(c) ==
  LET ask == arg[c].ask IN
  /\ at[c] = "shifts"
  /\ IF {grid[ask.by], grid[ask.other]} \subseteq Shifts /\ grid[ask.by] # grid[ask.other]
       THEN /\ GoOn(c, "create")
            /\ arg' = [arg EXCEPT ![c].ask.from = grid[ask.by],
                                  ![c].ask.to = grid[ask.other]]
       ELSE Return(c)
  /\ UNCHANGED <<grid, row, request, consented, swapped>>

Create(c) ==
  /\ at[c] = "create"
  /\ \E i \in Ids \ Made : request' = [request EXCEPT ![i] = arg[c].ask]
  /\ Return(c)
  /\ UNCHANGED <<grid, row, consented, swapped>>
------------------------------------------------------------------------------
(* createLateExcuse: the day must be one to excuse and have no active      *)
(* excuse; the file is uploaded, then the excuse is created.  How late a   *)
(* day has begun is left out: any that has begun may be excused.           *)
Excusable(e) == row[e].checkIn /\ row[e].status # "absent"

SubmitExcuse(c, e) ==
  /\ Excusable(e) /\ ~Active(e, "late_excuse")
  /\ Start(c, "excuse", [NoArg EXCEPT !.ask = Asked(e, "late_excuse", None)])
  /\ UNCHANGED <<grid, row, request, consented, swapped>>

CreateExcuse(c) ==
  /\ at[c] = "excuse"
  /\ \E i \in Ids \ Made : request' = [request EXCEPT ![i] = arg[c].ask]
  /\ Return(c)
  /\ UNCHANGED <<grid, row, consented, swapped>>
------------------------------------------------------------------------------
(* respondToShiftSwapPeer                                                  *)
RespondRead(c, i, yes) ==
  /\ Pending(i) /\ IsSwap(i) /\ request[i].peer = "pending"
  /\ Start(c, "respond", [NoArg EXCEPT !.id = i, !.yes = yes])
  /\ UNCHANGED <<grid, row, request, consented, swapped>>

\* Mutant: a colleague who declines leaves the request pending.
RespondOnly(c) ==
  LET i == arg[c].id IN
  /\ at[c] = "respond"
  /\ request' = [request EXCEPT ![i].peer = IF arg[c].yes THEN "accepted" ELSE "rejected"]
  /\ consented' = IF arg[c].yes THEN consented \cup {i} ELSE consented
  /\ Return(c)
  /\ UNCHANGED <<grid, row, swapped>>

RespondWrite(c) ==
  LET i == arg[c].id IN
  /\ at[c] = "respond"
  /\ IF arg[c].yes
       THEN /\ request' = [request EXCEPT ![i].peer = "accepted"]
            /\ consented' = consented \cup {i}
       ELSE /\ request' = [request EXCEPT ![i].peer = "rejected", ![i].status = "rejected"]
            /\ UNCHANGED consented
  /\ Return(c)
  /\ UNCHANGED <<grid, row, swapped>>
------------------------------------------------------------------------------
\* Mutant: a request that was decided can be decided again.
ReviewAny(c, m, i, yes) ==
  /\ i \in Made /\ EmployeeOf[m] # request[i].by
  /\ IsSwap(i) => ~yes /\ request[i].peer # "pending"
  /\ Start(c, "review", [NoArg EXCEPT !.id = i, !.yes = yes])
  /\ UNCHANGED <<grid, row, request, consented, swapped>>

(* reviewApprovalRequest: read and check; write the decision; for a        *)
(* forgotten check-out, close the day.                                     *)
ReviewRead(c, m, i, yes) ==
  /\ Pending(i) /\ request[i].type # "late_excuse" /\ EmployeeOf[m] # request[i].by
  /\ IsSwap(i) => ~yes /\ request[i].peer # "pending"
  /\ Start(c, "review", [NoArg EXCEPT !.id = i, !.yes = yes])
  /\ UNCHANGED <<grid, row, request, consented, swapped>>

\* reviewLateExcuse; its second half is that of reviewApprovalRequest.
ReviewExcuse(c, m, i, yes) ==
  /\ Pending(i) /\ request[i].type = "late_excuse" /\ EmployeeOf[m] # request[i].by
  /\ Start(c, "review", [NoArg EXCEPT !.id = i, !.yes = yes])
  /\ UNCHANGED <<grid, row, request, consented, swapped>>

ReviewWrite(c) ==
  LET i == arg[c].id IN
  /\ at[c] = "review"
  /\ request' = [request EXCEPT ![i].status = IF arg[c].yes THEN "approved" ELSE "rejected"]
  /\ IF arg[c].yes /\ request[i].type = "forgot_checkout"
       THEN GoOn(c, "effect") /\ UNCHANGED arg ELSE Return(c)
  /\ UNCHANGED <<grid, row, consented, swapped>>

Effect(c) ==
  /\ at[c] = "effect"
  /\ row' = [row EXCEPT ![request[arg[c].id].by].status = "left"]
  /\ Return(c)
  /\ UNCHANGED <<grid, request, consented, swapped>>
------------------------------------------------------------------------------
\* Mutant: the colleague's answer is not asked for.
ApplyUnasked(c, m, i) ==
  /\ Pending(i) /\ IsSwap(i)
  /\ EmployeeOf[m] \notin {request[i].by, request[i].other}
  /\ Start(c, "swap", [NoArg EXCEPT !.id = i, !.yes = TRUE])
  /\ UNCHANGED <<grid, row, request, consented, swapped>>

(* applyShiftSwapApproval (and confirmShiftSwapApproval of an accepted     *)
(* swap): write both cells in one transaction, then bring the day of each  *)
(* into line, then mark the request.                                       *)
ApplyRead(c, m, i) ==
  /\ Pending(i) /\ IsSwap(i) /\ request[i].peer = "accepted"
  /\ EmployeeOf[m] \notin {request[i].by, request[i].other}
  /\ Start(c, "swap", [NoArg EXCEPT !.id = i, !.yes = TRUE])
  /\ UNCHANGED <<grid, row, request, consented, swapped>>

\* The transaction of executeShiftSwap writes the shifts of the request.
Swap(c) ==
  LET r == request[arg[c].id] IN
  /\ at[c] = "swap"
  /\ grid' = [grid EXCEPT ![r.by] = r.to, ![r.other] = r.from]
  /\ swapped' = swapped \cup {arg[c].id}
  /\ arg' = [arg EXCEPT ![c].todo = <<[who |-> r.by, shift |-> r.to],
                                      [who |-> r.other, shift |-> r.from]>>]
  /\ GoOn(c, "sync")
  /\ UNCHANGED <<row, request, consented>>

\* syncAttendanceShiftFromSchedule and recalculateAttendanceKpiForShiftChange
Synced(r, s) ==
  IF ~r.checkIn THEN r
  ELSE IF s = Off THEN [r EXCEPT !.shift = Off]
  ELSE [r EXCEPT !.shift = s,
                 !.status = IF ~r.checkOut THEN "in"
                            ELSE IF r.status = "forgot_checkout" THEN r.status ELSE "left"]

\* Mutant: of the two days only the first is brought into line.
SyncFirst(c) ==
  LET do == Head(arg[c].todo) IN
  /\ at[c] = "sync"
  /\ row' = [row EXCEPT ![do.who] = Synced(@, do.shift)]
  /\ IF arg[c].yes THEN GoOn(c, "mark") /\ UNCHANGED arg
     ELSE Return(c)
  /\ UNCHANGED <<grid, request, consented, swapped>>

Sync(c) ==
  LET do   == Head(arg[c].todo)
      rest == Tail(arg[c].todo) IN
  /\ at[c] = "sync"
  /\ row' = [row EXCEPT ![do.who] = Synced(@, do.shift)]
  /\ IF rest # <<>>
       THEN GoOn(c, "sync") /\ arg' = [arg EXCEPT ![c].todo = rest]
     ELSE IF arg[c].yes THEN GoOn(c, "mark") /\ UNCHANGED arg
     ELSE Return(c)
  /\ UNCHANGED <<grid, request, consented, swapped>>

\* Mutant: the request is left pending.
MarkNothing(c) ==
  /\ at[c] = "mark"
  /\ Return(c)
  /\ UNCHANGED <<grid, row, request, consented, swapped>>

Mark(c) ==
  /\ at[c] = "mark"
  /\ request' = [request EXCEPT ![arg[c].id].status = "approved"]
  /\ Return(c)
  /\ UNCHANGED <<grid, row, consented, swapped>>
------------------------------------------------------------------------------
(* confirmShiftSwapApproval of a swap that is not accepted: the manager    *)
(* has changed the requester's cell by hand, and the request is approved.  *)
ConfirmRead(c, m, i) ==
  /\ Pending(i) /\ IsSwap(i) /\ request[i].peer # "accepted"
  /\ EmployeeOf[m] # request[i].by
  /\ grid[request[i].by] # None /\ grid[request[i].by] = request[i].to
  /\ Start(c, "confirm", [NoArg EXCEPT !.id = i,
        !.todo = <<[who |-> request[i].by, shift |-> request[i].to]>>])
  /\ UNCHANGED <<grid, row, request, consented, swapped>>

ConfirmWrite(c) ==
  /\ at[c] = "confirm"
  /\ request' = [request EXCEPT ![arg[c].id].status = "approved"]
  /\ GoOn(c, "sync") /\ UNCHANGED arg
  /\ UNCHANGED <<grid, row, consented, swapped>>
------------------------------------------------------------------------------
(* The surroundings: a manager's grid save, the scans of the day, the      *)
(* nightly job, midnight, and the death of a call.                         *)
SaveGrid(c, e, cell) ==
  /\ Start(c, IF cell = None THEN "idle" ELSE "sync",
           [NoArg EXCEPT !.todo = IF cell = None THEN <<>>
                                  ELSE <<[who |-> e, shift |-> cell]>>])
  /\ grid' = [grid EXCEPT ![e] = cell]
  /\ UNCHANGED <<row, request, consented, swapped>>

Others == <<overlap, grid, request, at, arg, consented, swapped, made, crashes>>

CheckIn(e) ==
  /\ MayStart /\ day = "today" /\ ~row[e].checkIn /\ grid[e] \in Shifts
  /\ row' = [row EXCEPT ![e] = [status |-> "in", checkIn |-> TRUE, checkOut |-> FALSE,
                                shift |-> grid[e]]]
  /\ UNCHANGED <<Others, day>>

CheckOut(e) ==
  /\ MayStart /\ day = "today" /\ row[e].checkIn /\ ~row[e].checkOut
  /\ row' = [row EXCEPT ![e].checkOut = TRUE, ![e].status = "left"]
  /\ UNCHANGED <<Others, day>>

Forgotten(e) ==
  /\ MayStart /\ day = "past" /\ row[e].status = "in" /\ ~row[e].checkOut
  /\ row' = [row EXCEPT ![e].status = "forgot_checkout"]
  /\ UNCHANGED <<Others, day>>

Midnight ==
  /\ day # "past" /\ MayStart
  /\ day' = IF day = "future" THEN "today" ELSE "past"
  /\ UNCHANGED <<Others, row>>

\* A call dies; bounded so that another call can still follow.
Crash(c) ==
  /\ at[c] # "idle" /\ crashes < MaxCrashes[overlap] /\ made < MaxCalls[overlap]
  /\ crashes' = crashes + 1
  /\ at' = [at EXCEPT ![c] = "idle"] /\ arg' = [arg EXCEPT ![c] = NoArg]
  /\ UNCHANGED <<overlap, day, grid, row, request, consented, swapped, made>>
------------------------------------------------------------------------------
Begin(c) ==
  \/ \E e \in Employees, type \in Types \ {"late_excuse"}, other \in Employees \cup {None} :
       Submit(c, e, type, other)
  \/ \E e \in Employees : SubmitExcuse(c, e)
  \/ \E i \in Ids, yes \in BOOLEAN :
       \/ RespondRead(c, i, yes)
       \/ \E m \in Managers : ReviewRead(c, m, i, yes) \/ ReviewExcuse(c, m, i, yes)
  \/ \E i \in Ids, m \in Managers : ApplyRead(c, m, i) \/ ConfirmRead(c, m, i)
  \/ \E e \in Employees, cell \in Cells : SaveGrid(c, e, cell)

Step(c) ==
  \/ Ensure(c) \/ Conflict(c) \/ ReadShifts(c) \/ Create(c) \/ CreateExcuse(c) \/ RespondWrite(c)
  \/ ReviewWrite(c) \/ Effect(c) \/ Swap(c) \/ Sync(c) \/ Mark(c) \/ ConfirmWrite(c)

Next ==
  \/ \E c \in Calls : Begin(c) \/ Step(c) \/ Crash(c)
  \/ \E e \in Employees : CheckIn(e) \/ CheckOut(e) \/ Forgotten(e)
  \/ Midnight

Spec == Init /\ [][Next]_vars
------------------------------------------------------------------------------
(* Every variable has its type.                                            *)
TypeOK ==
  /\ overlap \in BOOLEAN /\ day \in {"future", "today", "past"}
  /\ grid \in [Employees -> Cells] /\ row \in [Employees -> Rows]
  /\ request \in [Ids -> Requests \cup {None}]
  /\ at \in [Calls -> {"idle", "ensure", "conflict", "shifts", "create", "excuse", "respond",
                       "review", "effect", "swap", "sync", "mark", "confirm"}]
  /\ consented \cup swapped \subseteq Made
  /\ made \in 0..MaxCalls[overlap] /\ crashes \in 0..MaxCrashes[overlap]

Idle == \A c \in Calls : at[c] = "idle"

(* However requests, answers and reviews overlap, no two shifts are        *)
(* swapped without the colleague having accepted it                        *)
(* (applyShiftSwapApproval: "Rekan belum menyetujui tukar shift").         *)
ConsentBeforeSwap == swapped \subseteq consented

(* One at a time: an employee has at most one request of a type that is    *)
(* pending or approved, and takes part in one pending swap at most, as the *)
(* one who asks or as the colleague (createApprovalRequest: "Sudah ada     *)
(* pengajuan aktif", assertNoConflictingShiftSwap, createLateExcuse).      *)
OneActiveRequest ==
  ~overlap => \A i, j \in Made :
    \/ /\ request[i].by = request[j].by /\ request[i].type = request[j].type
       /\ "rejected" \notin {request[i].status, request[j].status}
    \/ /\ Pending(i) /\ Pending(j) /\ IsSwap(i) /\ IsSwap(j)
       /\ {request[i].by, request[i].other} \cap {request[j].by, request[j].other} # {}
    => i = j

(* One at a time: nothing is created that the views did not offer: the     *)
(* type on the day, the colleague for a swap, a target for an overtime     *)
(* (listEligibleApprovalDates, listShiftSwapCounterparties,                *)
(* listOvertimeShiftTargets against createApprovalRequest).                *)
OnlyOfferedIsCreated ==
  [][\A c \in Calls :
       LET ask == arg[c].ask IN
       Create(c) /\ ~overlap =>
         /\ ask.type \in CanSubmit(ask.by)
         /\ ask.type = "shift_swap" => CanSwap(ask.by, ask.other)
         /\ ask.type = "overtime" => OvertimeTargets(ask.by) # {}]_vars

(* However calls overlap, no pending request is lost between the inboxes:  *)
(* the colleague has it to answer, or a reviewer sees it and may decide    *)
(* (listIncomingShiftSwapRequests, listBranchApprovalRequests).            *)
PendingHasOwner ==
  \A i \in Made : Pending(i) =>
    \/ \E e \in Employees : i \in Incoming(e)
    \/ i \in BranchInbox /\ (IsSwap(i) => Actionable(i))
    \/ i \in ExcuseInbox

(* One at a time: what was decided is not decided again, by the colleague  *)
(* or by any reviewer ("Permintaan sudah diproses").                       *)
DecisionIsFinal ==
  [][~overlap => \A i \in Made : ~Pending(i) => request'[i].status = request[i].status]_vars

(* One at a time and without a crash: a swap that is written to the grid   *)
(* is approved in the end, and no rejected one is.                         *)
SwapIsApproved ==
  ~overlap /\ crashes = 0 /\ Idle => \A i \in swapped : request[i].status = "approved"

(* One at a time and without a crash: a day that has begun stands under    *)
(* the shift of the grid, after saves, swaps and confirmations alike.      *)
RowsFollowGrid ==
  ~overlap /\ crashes = 0 /\ Idle =>
    \A e \in Employees : row[e].checkIn /\ grid[e] # None => row[e].shift = grid[e]

=============================================================================
