------------------------- MODULE TelegramIngestProofs -------------------------
(***************************************************************************)
(* Proofs about TelegramIngest: what the pipeline makes of a day, for any  *)
(* number of messages, employees, workers, deliveries, failures, crashes   *)
(* and grid saves, as long as the advisory lock excludes.                  *)
(*                                                                         *)
(* First, that no recorded time is overwritten.  processCheckIn updates    *)
(* the row by its id, with no condition on check_in_at: what it read is    *)
(* still true only because no other call is in the locked section of the   *)
(* day.  The invariant PInv says so, and names what else the argument      *)
(* needs: a day with a check-in has a row, so that it is not created       *)
(* again, and a grid save never writes a status that would mean "no row".  *)
(***************************************************************************)
EXTENDS TelegramIngest, FiniteSetTheorems, TLAPS

Shape ==
  /\ DOMAIN pc = Procs /\ DOMAIN msg = Procs /\ DOMAIN fresh = Procs
  /\ DOMAIN checkIn = Employees /\ DOMAIN checkOut = Employees
  /\ DOMAIN status = Employees

\* No two calls are in the locked section of one employee's day.
OneCallPerDay ==
  \A p, q \in Procs :
    p # q /\ pc[p] \in Locked /\ pc[q] \in Locked => Emp(p) # Emp(q)

\* A day with a check-in has a row.
HasRow == \A e \in Employees : checkIn[e] # 0 => status[e] # "none"

\* A grid save writes the status of a row.
FreshIsStatus == \A p \in Procs : pc[p] = "syncwrite" => fresh[p] # "none"

\* What TxRead saw still holds when TxUpdate writes.
StillBlank ==
  \A p \in Procs :
    pc[p] = "txupdate" /\ Emp(p) \in Employees => checkIn[Emp(p)] = 0

PInv == Shape /\ HasRow /\ FreshIsStatus /\ OneCallPerDay /\ StillBlank
------------------------------------------------------------------------------
(* What a step of process p does, seen from the invariant.                 *)

\* No other process moves.
Moves(p) ==
  /\ DOMAIN pc' = Procs /\ DOMAIN msg' = Procs /\ DOMAIN fresh' = Procs
  /\ \A q \in Procs \ {p} : pc'[q] = pc[q] /\ msg'[q] = msg[q] /\ fresh'[q] = fresh[q]

\* p does not enter a locked section.
Stays(p) == pc'[p] \in Locked => pc[p] \in Locked /\ msg'[p] = msg[p]

\* p writes no time that is there already, and only to the day it has locked.
KeepsDay(p) ==
  /\ DOMAIN checkIn' = Employees /\ DOMAIN checkOut' = Employees
  /\ DOMAIN status' = Employees
  /\ \A e \in Employees :
       /\ checkIn[e] # 0 => checkIn'[e] = checkIn[e]
       /\ checkOut[e] # 0 => checkOut'[e] = checkOut[e]
       /\ status[e] # "none" => status'[e] # "none"
       /\ checkIn'[e] # checkIn[e] =>
            status'[e] # "none" /\ pc[p] \in Locked /\ e = Emp(p)

Kept ==
  \A e \in Employees :
    /\ checkIn[e] # 0 => checkIn'[e] = checkIn[e]
    /\ checkOut[e] # 0 => checkOut'[e] = checkOut[e]

\* A step that respects all of this, and leaves p where the invariant asks
\* for something only if it is so, keeps the invariant.
LEMMA CarefulStep ==
  ASSUME PInv, NEW p \in Procs, Moves(p), Stays(p), KeepsDay(p),
         pc'[p] = "syncwrite" => fresh'[p] # "none",
         pc'[p] = "txupdate" /\ Emp(p)' \in Employees => checkIn'[Emp(p)'] = 0
  PROVE  PInv' /\ Kept
<1>1. Shape' /\ Kept
  BY DEF Moves, KeepsDay, Shape, Kept
<1>2. HasRow'
  BY DEF PInv, HasRow, KeepsDay
<1>3. FreshIsStatus'
  BY DEF PInv, FreshIsStatus, Moves
<1>4. OneCallPerDay'
  BY DEF PInv, OneCallPerDay, Moves, Stays, Emp
<1>5. StillBlank'
  <2> SUFFICES ASSUME NEW q \in Procs, pc'[q] = "txupdate", Emp(q)' \in Employees
               PROVE  checkIn'[Emp(q)'] = 0
    BY DEF StillBlank, Emp
  <2>1. CASE q = p
    BY <2>1
  <2>2. CASE q # p
    <3>1. pc[q] \in Locked /\ Emp(q)' = Emp(q) /\ checkIn[Emp(q)] = 0
      BY <2>2 DEF Moves, Emp, PInv, StillBlank, Locked
    <3>2. pc[p] \in Locked => Emp(p) # Emp(q)
      BY <2>2, <3>1 DEF PInv, OneCallPerDay
    <3> QED BY <3>1, <3>2 DEF KeepsDay
  <2> QED BY <2>1, <2>2
<1> QED BY <1>1, <1>2, <1>3, <1>4, <1>5 DEF PInv

\* Most steps touch no time and no status.
Quiet(p) ==
  /\ Moves(p) /\ Stays(p)
  /\ UNCHANGED <<checkIn, checkOut, status>>
  /\ pc'[p] \notin {"syncwrite", "txupdate"}

LEMMA QuietStep ==
  ASSUME PInv, NEW p \in Procs, Quiet(p)
  PROVE  PInv' /\ Kept
<1>1. KeepsDay(p)
  BY DEF KeepsDay, Quiet, PInv, Shape
<1> QED BY <1>1, CarefulStep DEF Quiet

LEMMA QuietSteps ==
  ASSUME PInv, NEW p \in Procs,
         \/ \E m \in Messages : Deliver(p, m) \/ TakeJob(p, m)
         \/ EnqueueJob(p) \/ ProcessInline(p) \/ Fetch(p) \/ CheckSchedule(p)
         \/ CrossCheck(p) \/ Reconcile(p) \/ CheckIn(p) \/ BreakStep(p) \/ Unlock(p)
         \/ LinkCheck(p) \/ Mark(p) \/ Catch(p) \/ Settle(p) \/ ScanParked(p)
         \/ \E e \in Employees, cell \in {"none", "off", "work"} : SaveGrid(p, e, cell)
         \/ Fault(p)
  PROVE  PInv' /\ Kept
<1> USE DEF callVars, dayVars, Quiet, Moves, Stays, Locked, Goto, PInv, Shape
<1>1. ASSUME NEW m \in Messages, Deliver(p, m) \/ TakeJob(p, m) PROVE Quiet(p)
  BY <1>1 DEF Deliver, TakeJob, StartProcessing
<1>2. CASE EnqueueJob(p) \/ ProcessInline(p)
  <2>1. Quiet(p)
    BY <1>2 DEF EnqueueJob, ProcessInline, Forget, StartProcessing
  <2> QED BY <2>1, QuietStep
<1>3. CASE Fetch(p) \/ CheckSchedule(p) \/ CrossCheck(p)
  <2>1. Quiet(p)
    BY <1>3 DEF Fetch, CheckSchedule, CrossCheck, Throw
  <2> QED BY <2>1, QuietStep
<1>4. CASE Reconcile(p)
  <2>1. Quiet(p)
    BY <1>4 DEF Reconcile, Throw
  <2> QED BY <2>1, QuietStep
<1>5. CASE CheckIn(p)
  <2>1. Quiet(p)
    BY <1>5 DEF CheckIn, Throw
  <2> QED BY <2>1, QuietStep
<1>6. CASE BreakStep(p)
  <2>1. UNCHANGED <<msg, fresh, checkIn, checkOut, status>> /\ pc[p] = "break"
        /\ pc' = [pc EXCEPT ![p] = "unlock"]
    BY <1>6 DEF BreakStep, CloseOpenBreakSession, Throw
  <2>2. Quiet(p)
    BY <2>1
  <2> QED BY <2>2, QuietStep
<1>7. CASE Unlock(p) \/ LinkCheck(p) \/ Mark(p) \/ Catch(p)
  <2>1. Quiet(p)
    BY <1>7 DEF Unlock, LinkCheck, Mark, Catch
  <2> QED BY <2>1, QuietStep
<1>8. CASE Settle(p) \/ ScanParked(p)
  <2>1. Quiet(p)
    BY <1>8 DEF Settle, ScanParked, GoOn, Forget, StartProcessing
  <2> QED BY <2>1, QuietStep
<1>9. ASSUME NEW e \in Employees, NEW cell \in {"none", "off", "work"},
             SaveGrid(p, e, cell)
      PROVE  Quiet(p)
  BY <1>9 DEF SaveGrid
<1>10. CASE Fault(p)
  <2>1. Quiet(p)
    BY <1>10 DEF Fault, Throw, Forget
  <2> QED BY <2>1, QuietStep
<1> QED BY <1>1, <1>2, <1>3, <1>4, <1>5, <1>6, <1>7, <1>8, <1>9, <1>10, QuietStep
------------------------------------------------------------------------------
(* The steps that the invariant is about.                                  *)

LEMMA LockStep ==
  ASSUME Serialised, PInv, NEW p \in Procs, Lock(p)
  PROVE  PInv' /\ Kept
<1>1. /\ pc' = [pc EXCEPT ![p] = "check"]
      /\ UNCHANGED <<msg, fresh, checkIn, checkOut, status>>
  BY DEF Lock, Goto, callVars, dayVars
<1>2. OneCallPerDay'
  <2>1. \A q \in Procs \ {p} : pc[q] \in Locked => Emp(q) # Emp(p)
    BY DEF Lock
  <2> QED BY <1>1, <2>1 DEF PInv, Shape, OneCallPerDay, Emp
<1>3. Shape' /\ HasRow' /\ FreshIsStatus' /\ StillBlank' /\ Kept
  BY <1>1 DEF PInv, Shape, HasRow, FreshIsStatus, StillBlank, Emp, Kept
<1> QED BY <1>2, <1>3 DEF PInv

LEMMA DaySteps ==
  ASSUME PInv, NEW p \in Procs,
         \/ TxRead(p) \/ TxCreate(p) \/ TxUpdate(p) \/ Ensure(p) \/ Update(p)
         \/ SyncRead(p) \/ SyncWrite(p)
  PROVE  PInv' /\ Kept
<1> USE DEF callVars, dayVars, Moves, Stays, Locked, Goto, PInv, Shape, KeepsDay
<1>1. CASE TxRead(p)
  <2>1. Moves(p) /\ Stays(p) /\ KeepsDay(p)
    BY <1>1 DEF TxRead, Throw
  <2>2. pc'[p] # "syncwrite" /\ (pc'[p] = "txupdate" => checkIn'[Emp(p)'] = 0)
    BY <1>1 DEF TxRead, Throw, Emp
  <2> QED BY <2>1, <2>2, CarefulStep
<1>2. CASE TxCreate(p)
  <2>1. Moves(p) /\ Stays(p) /\ pc'[p] \notin {"syncwrite", "txupdate"}
    BY <1>2 DEF TxCreate, Throw
  <2>2. KeepsDay(p)
    BY <1>2 DEF TxCreate, Throw, HasRow
  <2> QED BY <2>1, <2>2, CarefulStep
<1>3. CASE TxUpdate(p)
  <2>1. Moves(p) /\ Stays(p) /\ pc'[p] \notin {"syncwrite", "txupdate"}
    BY <1>3 DEF TxUpdate
  <2>2. Emp(p) \in Employees => checkIn[Emp(p)] = 0
    BY <1>3 DEF TxUpdate, StillBlank
  <2>3. KeepsDay(p)
    BY <1>3, <2>2 DEF TxUpdate
  <2> QED BY <2>1, <2>3, CarefulStep
<1>4. CASE Ensure(p)
  <2>1. Moves(p) /\ Stays(p) /\ pc'[p] \notin {"syncwrite", "txupdate"}
    BY <1>4 DEF Ensure
  <2>2. KeepsDay(p)
    BY <1>4 DEF Ensure
  <2> QED BY <2>1, <2>2, CarefulStep
<1>5. CASE Update(p)
  <2>1. Moves(p) /\ Stays(p) /\ pc'[p] \notin {"syncwrite", "txupdate"}
    BY <1>5 DEF Update, Throw
  <2>2. KeepsDay(p)
    BY <1>5 DEF Update, Throw
  <2> QED BY <2>1, <2>2, CarefulStep
<1>6. CASE SyncRead(p)
  <2>1. Moves(p) /\ Stays(p) /\ KeepsDay(p) /\ pc'[p] # "txupdate"
    BY <1>6 DEF SyncRead
  <2>2. pc'[p] = "syncwrite" => fresh'[p] # "none"
    BY <1>6 DEF SyncRead
  <2> QED BY <2>1, <2>2, CarefulStep
<1>7. CASE SyncWrite(p)
  <2>1. Moves(p) /\ Stays(p) /\ pc'[p] \notin {"syncwrite", "txupdate"}
    BY <1>7 DEF SyncWrite
  <2>2. KeepsDay(p)
    BY <1>7 DEF SyncWrite, FreshIsStatus
  <2> QED BY <2>1, <2>2, CarefulStep
<1> QED BY <1>1, <1>2, <1>3, <1>4, <1>5, <1>6, <1>7

LEMMA SurroundingSteps ==
  ASSUME PInv,
         \/ \E e \in Employees : SubmitTwoScan(e) \/ ReviewTwoScan(e)
         \/ CloseWindow \/ Crash(Workers) \/ Crash(Apis) \/ UNCHANGED vars
  PROVE  PInv' /\ Kept
<1> USE DEF PInv, Shape, HasRow, FreshIsStatus, OneCallPerDay, StillBlank, Emp, Kept
<1>1. ASSUME NEW e \in Employees, SubmitTwoScan(e) PROVE PInv' /\ Kept
  BY <1>1 DEF SubmitTwoScan, procVars, callVars
<1>2. ASSUME NEW e \in Employees, ReviewTwoScan(e) PROVE PInv' /\ Kept
  BY <1>2 DEF ReviewTwoScan, procVars, callVars, dayVars
<1>3. CASE CloseWindow
  BY <1>3 DEF CloseWindow, procVars, callVars, dayVars
<1>4. ASSUME NEW group, Crash(group) PROVE PInv' /\ Kept
  <2>1. /\ UNCHANGED <<checkIn, checkOut, status>>
        /\ pc' = [p \in Procs |-> IF p \in group THEN "idle" ELSE pc[p]]
        /\ msg' = [p \in Procs |-> IF p \in group THEN Nobody ELSE msg[p]]
        /\ fresh' = [p \in Procs |-> IF p \in group THEN "none" ELSE fresh[p]]
    BY <1>4 DEF Crash, Without, dayVars
  <2> QED BY <2>1 DEF Locked
<1>5. CASE UNCHANGED vars
  BY <1>5 DEF vars, procVars, callVars, dayVars
<1> QED BY <1>1, <1>2, <1>3, <1>4, <1>5

LEMMA NextPInv ==
  ASSUME Serialised, PInv, [Next]_vars
  PROVE  PInv' /\ Kept
<1>1. ASSUME NEW p \in Procs, Step(p) \/ Fault(p) PROVE PInv' /\ Kept
  BY <1>1, QuietSteps, DaySteps, LockStep DEF Step
<1>2. ASSUME NEW a \in Apis, NEW m \in Messages, Deliver(a, m) PROVE PInv' /\ Kept
  BY <1>2, QuietSteps DEF Procs
<1>3. ASSUME NEW a \in Apis, NEW e \in Employees, NEW cell \in {"none", "off", "work"},
             SaveGrid(a, e, cell)
      PROVE  PInv' /\ Kept
  BY <1>3, QuietSteps DEF Procs
<1>4. ASSUME NEW w \in Workers, NEW m \in Messages, TakeJob(w, m) PROVE PInv' /\ Kept
  BY <1>4, QuietSteps DEF Procs
<1> QED BY <1>1, <1>2, <1>3, <1>4, SurroundingSteps DEF Next

LEMMA InitPInv == Init => PInv
BY DEF Init, PInv, Shape, HasRow, FreshIsStatus, OneCallPerDay, StillBlank, Locked

(* An advisory lock that excludes makes the recorded times of a day final: *)
(* whatever messages, retries, crashes, grid saves and approvals do in     *)
(* whatever order, no check-in and no check-out is overwritten (TC-022e).  *)
THEOREM TimesAreFinal == Serialised /\ Spec => RecordedTimesStay
<1>1. ASSUME Serialised, PInv, [Next]_vars PROVE PInv'
  BY <1>1, NextPInv
<1>2. ASSUME Serialised, PInv, [Next]_vars PROVE [Kept]_vars
  BY <1>2, NextPInv
<1>3. ASSUME Serialised PROVE Spec => RecordedTimesStay
  BY <1>1, <1>2, <1>3, InitPInv, PTL DEF Spec, RecordedTimesStay, Kept
<1> QED BY <1>3
------------------------------------------------------------------------------
(***************************************************************************)
(* What becomes of the scans.  The argument is one inductive invariant,    *)
(* IInv.  It follows the plan of a scan from the moment it is reconciled   *)
(* with the day to the moment the outcome is written: what was true of the *)
(* day when the slot was chosen is still true when it is filled, because   *)
(* only the call that holds the lock writes the times and the sessions of  *)
(* the day (PInv), and because what others may do meanwhile (a grid save,  *)
(* an approval, a crash) takes nothing away (Grows).  LInv adds, for days  *)
(* of bare scans, that their four slots are filled in order; from it       *)
(* follows that the pipeline implements DayLedger.  Two more invariants    *)
(* are about calls that come one at a time: AInv (one account, one day)    *)
(* and WInv (nothing stays parked on a day that has a shift).              *)
(***************************************************************************)

\* The steps of a grid save.
GridSteps == {"syncread", "syncwrite", "scan"}

\* The types that the argument needs.
Types ==
  /\ sync \in [Messages -> SyncStatuses] /\ skipped \in [Messages -> {"no", "duplicate", "off_day"}]
  /\ checkIn \in [Employees -> Nat] /\ checkOut \in [Employees -> Nat]
  /\ status \in [Employees -> DayStatuses]
  /\ breaks \in [Employees -> SUBSET BreakSession]
  /\ grid \in [Employees -> {"none", "off", "work"}]
  /\ twoScan \in [Employees -> {"none", "pending", "approved"}]
  /\ pc \in [Procs -> Steps] /\ msg \in [Procs -> Messages \cup {Nobody}]
  /\ parsed \in [Procs -> ParsedTimes] /\ result \in [Procs -> Results]
  /\ todo \in [Procs -> SUBSET Messages] /\ fresh \in [Procs -> DayStatuses]
  /\ saved \in [Procs -> Employees \cup {Nobody}] /\ saves \in Nat

\* A call that processes a message has one, a grid save an employee.
Aware ==
  \A p \in Procs :
    /\ pc[p] \notin GridSteps \cup {"idle"} => msg[p] \in Messages
    /\ pc[p] \in GridSteps => saved[p] \in Employees

\* No two sessions of a day are open.
OneOpenBreak ==
  \A e \in Employees : \A b, c \in OpenBreaks(breaks[e]) : b = c

\* A day that is left has its check-out, also when a grid save, which read
\* the row some steps ago, writes that status.
LeftHasOut ==
  /\ \A e \in Employees : status[e] = "left" => checkOut[e] # 0
  /\ \A p \in Procs :
       pc[p] = "syncwrite" /\ fresh[p] = "left" => checkOut[saved[p]] # 0

\* The steps between the planning of a check-in and the writing of the row,
\* those of any planned call, and those reached without an error.
BeforeRow == {"checkin", "txread", "txcreate", "txupdate"}
Planned == BeforeRow \cup {"ensure", "update", "break"}
Healthy == {"fetch", "lock"} \cup (Locked \ {"unlock"})

\* The instant i is somewhere in e's day.
Placed(e, i) ==
  \/ checkIn[e] = i \/ checkOut[e] = i
  \/ \E b \in breaks[e] : b.from = i \/ b.to = i

\* The check-out is the next slot of e's day.
RoomForOut(e) ==
  /\ checkOut[e] = 0
  /\ \/ twoScan[e] = "approved" /\ breaks[e] = {}
     \/ OpenBreaks(breaks[e]) = {} /\ breaks[e] # {}

\* A call at the given step with the plan t for the instant i: each time of
\* the plan is in the day already, or its slot is the next one and i is not
\* in the day.
Fits(e, i, t, step) ==
  /\ t.masuk # 0 =>
       \/ checkIn[e] = i
       \/ step \in BeforeRow /\ checkIn[e] = 0 /\ ~Placed(e, i)
  /\ t.pulang # 0 =>
       \/ checkOut[e] = i
       \/ step # "break" /\ checkIn[e] # 0 /\ RoomForOut(e) /\ ~Placed(e, i)
  /\ t.mulai # 0 =>
       \/ \E b \in breaks[e] : b.from = i
       \/ checkIn[e] # 0 /\ breaks[e] = {} /\ ~Placed(e, i)
  /\ t.selesai # 0 =>
       \/ \E b \in breaks[e] : b.to = i
       \/ checkIn[e] # 0 /\ OpenBreaks(breaks[e]) # {} /\ ~Placed(e, i)

\* The plan of a bare scan names one slot (or none, where break times are
\* dropped), and still fits the day.
ScanPlan(p) ==
  LET e == Emp(p)
      i == Text[msg[p]].masuk
      t == parsed[p]
  IN  /\ \/ t = NoTimes /\ ~BreakEnabled[e]
         \/ \E s \in Slots : t = RemapParsedByScanSlot(s, i)
      /\ pc[p] \in BeforeRow => t.masuk # 0
      /\ Fits(e, i, t, pc[p])

\* The scan m has left its instant in the day.
Recorded(m) == Placed(EmployeeOf[m], Text[m].masuk)

\* The day of e has no slot for a scan.
Full(e) ==
  \/ CheckedInElsewhere(e)
  \/ checkIn[e] # 0 /\ checkOut[e] # 0 /\ ClosedBreaks(breaks[e]) # {}

\* What p refuses its scan for is so.
SkipOK(p) == result[p] = "duplicate" => Full(Emp(p))

\* A call on a bare scan, step by step.
CallOK(p) ==
  msg[p] \in Scans =>
    /\ pc[p] \in Healthy => result[p] = "ok"
    /\ pc[p] \in Planned => ScanPlan(p)
    /\ pc[p] \in {"unlock", "catch"} => SkipOK(p)
    /\ pc[p] \in {"link", "mark", "marklink"} \/ (pc[p] = "unlock" /\ result[p] = "ok") =>
         (BreakEnabled[Emp(p)] => Recorded(msg[p]))

CallsOK == \A p \in Procs : CallOK(p)

\* What the rows of telegram_messages say about scans is so.
OutcomeOK ==
  \A m \in Scans :
    /\ skipped[m] = "duplicate" => Full(EmployeeOf[m])
    /\ sync[m] = "processed" /\ skipped[m] = "no" /\ BreakEnabled[EmployeeOf[m]] => Recorded(m)

IInv == PInv /\ Types /\ Aware /\ OneOpenBreak /\ LeftHasOut /\ CallsOK /\ OutcomeOK

\* All messages carry one bare time, as the machine's do.
OnlyScans == Scans = Messages

\* The slots of e's day are filled in order, each with another instant.
InOrder(e) ==
  /\ \A b, c \in breaks[e] : b = c
  /\ checkIn[e] = 0 => checkOut[e] = 0 /\ breaks[e] = {}
  /\ checkIn[e] # 0 => checkIn[e] # checkOut[e]
  /\ \A b \in breaks[e] :
       /\ b.from \notin {checkIn[e], checkOut[e], b.to}
       /\ b.to # 0 => b.to \notin {checkIn[e], checkOut[e]}

LInv == OnlyScans => \A e \in Employees : InOrder(e)
------------------------------------------------------------------------------
(* The operators of the model.                                             *)

\* A scan that is given a slot carries its instant there and nowhere else.
LEMMA RemapFields ==
  ASSUME NEW s, NEW i \in Nat
  PROVE  LET t == RemapParsedByScanSlot(s, i)
         IN  /\ t \in ParsedTimes
             /\ t.masuk   = (IF s = "check_in" THEN i ELSE 0)
             /\ t.pulang  = (IF s = "check_out" THEN i ELSE 0)
             /\ t.mulai   = (IF s = "break_start" THEN i ELSE 0)
             /\ t.selesai = (IF s = "break_end" THEN i ELSE 0)
BY DEF RemapParsedByScanSlot, ParsedTimes

LEMMA DropFields ==
  ASSUME NEW r \in ParsedTimes
  PROVE  DropBreakTimes(r) = [masuk |-> r.masuk, pulang |-> r.pulang,
                              mulai |-> 0, selesai |-> 0]
BY DEF DropBreakTimes

LEMMA ScanText ==
  ASSUME IngestAssumption, NEW m \in Scans
  PROVE  /\ m \in Messages /\ Text[m] \in ParsedTimes
         /\ EmployeeOf[m] \in Employees
         /\ Text[m].masuk \in Nat \ {0} /\ Text[m].pulang = 0
         /\ NeedsScanResolution(Text[m])
BY DEF IngestAssumption, Scans, NeedsScanResolution, ParsedTimes

\* The slot a bare scan gets has room for it, or has it already.
LEMMA SlotFits ==
  ASSUME NEW m, NEW i, i = Text[m].masuk, NEW e, e = EmployeeOf[m], NEW s, s = ScanSlotOf(m)
  PROVE  \/ s = "full" /\ checkIn[e] # 0 /\ checkOut[e] # 0 /\ ClosedBreaks(breaks[e]) # {}
         \/ s = "check_in" /\ (checkIn[e] = i \/ (checkIn[e] = 0 /\ ~Placed(e, i)))
         \/ s = "check_out" /\ (checkOut[e] = i \/ (checkIn[e] # 0 /\ RoomForOut(e) /\ ~Placed(e, i)))
         \/ s = "break_start" /\ \/ \E b \in breaks[e] : b.from = i
                                 \/ checkIn[e] # 0 /\ breaks[e] = {} /\ ~Placed(e, i)
         \/ s = "break_end" /\ \/ \E b \in breaks[e] : b.to = i
                               \/ checkIn[e] # 0 /\ OpenBreaks(breaks[e]) # {} /\ ~Placed(e, i)
<1>1. CASE ExistingScanSlot(checkIn[e], checkOut[e], breaks[e], i) # "none"
  <2>1. s = ExistingScanSlot(checkIn[e], checkOut[e], breaks[e], i)
    BY <1>1 DEF ScanSlotOf, ReconciledSlot
  <2>2. CASE checkIn[e] = i
    <3>1. s = "check_in"
      BY <2>1, <2>2 DEF ExistingScanSlot
    <3> QED BY <3>1, <2>2
  <2>3. CASE checkIn[e] # i /\ \E b \in breaks[e] : b.from = i
    <3>1. s = "break_start"
      BY <2>1, <2>3 DEF ExistingScanSlot
    <3> QED BY <3>1, <2>3
  <2>4. CASE checkIn[e] # i /\ ~(\E b \in breaks[e] : b.from = i) /\ \E b \in breaks[e] : b.to = i
    <3>1. s = "break_end"
      BY <2>1, <2>4 DEF ExistingScanSlot
    <3> QED BY <3>1, <2>4
  <2>5. CASE checkIn[e] # i /\ ~(\E b \in breaks[e] : b.from = i) /\ ~(\E b \in breaks[e] : b.to = i)
    <3>1. s = (IF checkOut[e] = i THEN "check_out" ELSE "none")
      BY <2>1, <2>5 DEF ExistingScanSlot
    <3>2. s = "check_out" /\ checkOut[e] = i
      BY <3>1, <1>1, <2>1
    <3> QED BY <3>2
  <2> QED BY <2>2, <2>3, <2>4, <2>5
<1>2. CASE ExistingScanSlot(checkIn[e], checkOut[e], breaks[e], i) = "none"
  <2>1. ~Placed(e, i)
    BY <1>2 DEF ExistingScanSlot, Placed
  <2>2. s = ResolveDailyScanSlot(checkIn[e], checkOut[e], breaks[e], twoScan[e] = "approved")
    BY <1>2 DEF ScanSlotOf, ReconciledSlot
  <2>3. ClosedBreaks(breaks[e]) = {} /\ OpenBreaks(breaks[e]) = {} => breaks[e] = {}
    BY DEF ClosedBreaks
  <2>4. ClosedBreaks(breaks[e]) # {} => breaks[e] # {}
    BY DEF ClosedBreaks
  <2> QED BY <2>1, <2>2, <2>3, <2>4 DEF ResolveDailyScanSlot, RoomForOut
<1> QED BY <1>1, <1>2
------------------------------------------------------------------------------
(* What a step keeps.                                                      *)

\* Only the locals of process p change.
Alone(p) ==
  \A q \in Procs \ {p} :
    /\ pc'[q] = pc[q] /\ msg'[q] = msg[q] /\ parsed'[q] = parsed[q]
    /\ result'[q] = result[q] /\ fresh'[q] = fresh[q] /\ saved'[q] = saved[q]

\* Recorded times stay, and so does what lets a scan be skipped.
Grows ==
  /\ \A e \in Employees :
       /\ checkIn[e] # 0 => checkIn'[e] = checkIn[e]
       /\ checkOut[e] # 0 => checkOut'[e] = checkOut[e]
       /\ \A b \in breaks[e] :
            \E c \in breaks'[e] : c.from = b.from /\ (b.to # 0 => c.to = b.to)
       /\ twoScan[e] = "approved" => twoScan'[e] = "approved"

\* Only the day that p has locked changes.
OwnDay(p) ==
  \A e \in Employees :
    \/ e = Emp(p) /\ pc[p] \in Locked
    \/ checkIn'[e] = checkIn[e] /\ checkOut'[e] = checkOut[e] /\ breaks'[e] = breaks[e]

\* An instant that is in the day stays there.
LEMMA PlacedStays ==
  ASSUME Grows, NEW e \in Employees, NEW i \in Nat \ {0}, Placed(e, i)
  PROVE  Placed(e, i)'
BY DEF Grows, Placed

\* A day that is full stays so.
LEMMA FullStays ==
  ASSUME Grows, NEW e \in Employees, Full(e)
  PROVE  Full(e)'
<1>1. CheckedInElsewhere(e) => CheckedInElsewhere(e)'
  BY DEF Grows, CheckedInElsewhere
<1>2. ASSUME checkIn[e] # 0, checkOut[e] # 0, ClosedBreaks(breaks[e]) # {}
      PROVE  checkIn'[e] # 0 /\ checkOut'[e] # 0 /\ ClosedBreaks(breaks'[e]) # {}
  <2>1. PICK b \in breaks[e] : b.to # 0
    BY <1>2 DEF ClosedBreaks, OpenBreaks
  <2>2. PICK c \in breaks'[e] : c.to = b.to
    BY <2>1 DEF Grows
  <2> QED BY <1>2, <2>1, <2>2 DEF Grows, ClosedBreaks, OpenBreaks
<1> QED BY <1>1, <1>2 DEF Full

\* So the outcomes stay right ...
LEMMA OutcomeKeeps ==
  ASSUME IngestAssumption, Grows, OutcomeOK, UNCHANGED <<sync, skipped>>
  PROVE  OutcomeOK'
<1> SUFFICES ASSUME NEW m \in Scans
             PROVE  /\ skipped[m] = "duplicate" => Full(EmployeeOf[m])'
                    /\ sync[m] = "processed" /\ skipped[m] = "no" /\ BreakEnabled[EmployeeOf[m]]
                         => Recorded(m)'
  BY DEF OutcomeOK
<1> EmployeeOf[m] \in Employees /\ Text[m].masuk \in Nat \ {0}
  BY ScanText
<1>1. skipped[m] = "duplicate" => Full(EmployeeOf[m])'
  BY FullStays DEF OutcomeOK
<1>2. sync[m] = "processed" /\ skipped[m] = "no" /\ BreakEnabled[EmployeeOf[m]] => Recorded(m)'
  BY PlacedStays DEF OutcomeOK, Recorded
<1> QED BY <1>1, <1>2

\* The day of a call that holds a plan rests.
PlanRests(q) ==
  pc[q] \in Planned =>
    LET e == Emp(q)
    IN  checkIn'[e] = checkIn[e] /\ checkOut'[e] = checkOut[e] /\ breaks'[e] = breaks[e]

\* ... and so do the plans of the calls that do not move.
LEMMA CallKeeps ==
  ASSUME IngestAssumption, NEW q \in Procs, CallOK(q), Grows, PlanRests(q),
         UNCHANGED <<pc[q], msg[q], parsed[q], result[q]>>
  PROVE  CallOK(q)'
<1> SUFFICES ASSUME msg[q] \in Scans
             PROVE  /\ pc[q] \in Healthy => result[q] = "ok"
                    /\ pc[q] \in Planned => ScanPlan(q)'
                    /\ pc[q] \in {"unlock", "catch"} => SkipOK(q)'
                    /\ \/ pc[q] \in {"link", "mark", "marklink"}
                       \/ pc[q] = "unlock" /\ result[q] = "ok"
                       => (BreakEnabled[Emp(q)] => Recorded(msg[q])')
  BY DEF CallOK, Emp
<1> DEFINE e == Emp(q)
           i == Text[msg[q]].masuk
<1> e \in Employees /\ i \in Nat \ {0} /\ Emp(q)' = e
  BY ScanText DEF Emp
<1>1. ASSUME pc[q] \in Planned PROVE ScanPlan(q)'
  <2>1. UNCHANGED <<checkIn[e], checkOut[e], breaks[e]>>
    BY <1>1 DEF PlanRests
  <2>2. RoomForOut(e) => RoomForOut(e)'
    BY <2>1 DEF RoomForOut, Grows
  <2>3. Placed(e, i)' <=> Placed(e, i)
    BY <2>1 DEF Placed
  <2>4. ScanPlan(q)
    BY <1>1 DEF CallOK
  <2>5. Fits(e, i, parsed[q], pc[q])
    BY <2>4 DEF ScanPlan
  <2>6. Fits(e, i, parsed[q], pc[q])'
    BY <2>1, <2>2, <2>3, <2>5 DEF Fits
  <2> QED BY <2>4, <2>6 DEF ScanPlan
<1>2. ASSUME pc[q] \in {"unlock", "catch"} PROVE SkipOK(q)'
  BY <1>2, FullStays DEF CallOK, SkipOK, Grows
<1>3. ASSUME Recorded(msg[q]) PROVE Recorded(msg[q])'
  BY <1>3, PlacedStays DEF Recorded, Emp
<1> QED BY <1>1, <1>2, <1>3 DEF CallOK

LEMMA OthersKeep ==
  ASSUME IngestAssumption, PInv, Types, CallsOK,
         NEW p \in Procs, Alone(p), Grows, OwnDay(p), NEW q \in Procs \ {p}
  PROVE  CallOK(q)'
<1>1. UNCHANGED <<pc[q], msg[q], parsed[q], result[q]>> /\ CallOK(q)
  BY DEF Alone, CallsOK
<1>2. CASE msg[q] \in Scans
  <2>1. Emp(q) \in Employees
    BY <1>2, ScanText DEF Emp
  <2>2. pc[q] \in Planned /\ pc[p] \in Locked => Emp(p) # Emp(q)
    BY DEF PInv, OneCallPerDay, Planned, BeforeRow, Locked
  <2>3. PlanRests(q)
    BY <2>1, <2>2 DEF OwnDay, PlanRests
  <2> QED BY <1>1, <2>3, CallKeeps
<1>3. CASE msg[q] \notin Scans
  BY <1>1, <1>3 DEF CallOK
<1> QED BY <1>2, <1>3

LEMMA CallsKeep ==
  ASSUME IngestAssumption, PInv, Types, CallsOK,
         NEW p \in Procs, Alone(p), Grows, OwnDay(p), CallOK(p)'
  PROVE  CallsOK'
BY OthersKeep DEF CallsOK
------------------------------------------------------------------------------
(* Types, and what else every step of a call respects.                     *)

\* What every step of the call p respects.
Frame(p) ==
  /\ Types' /\ Aware' /\ OneOpenBreak' /\ LeftHasOut'
  /\ Alone(p) /\ Grows /\ OwnDay(p)

\* The day's times, breaks and status rest.
DayRests ==
  /\ UNCHANGED <<checkIn, checkOut, breaks, status, twoScan>>
  /\ UNCHANGED <<grid, saves>> \/ saves' > 0

LEMMA RestFrame ==
  ASSUME Types, Aware, OneOpenBreak, LeftHasOut, NEW p \in Procs,
         Types', Aware', Alone(p), DayRests,
         pc'[p] = "syncwrite" /\ fresh'[p] = "left" => checkOut[saved'[p]] # 0
  PROVE  Frame(p)
<1>1. Grows /\ OwnDay(p)
  BY DEF DayRests, Grows, OwnDay, Types
<1>2. OneOpenBreak'
  BY DEF DayRests, OneOpenBreak
<1>3. LeftHasOut'
  BY DEF DayRests, LeftHasOut, Alone
<1> QED BY <1>1, <1>2, <1>3 DEF Frame

LEMMA PlanTyped ==
  ASSUME IngestAssumption, NEW m \in Messages
  PROVE  /\ ReconcileParsedScan(m) \in ParsedTimes
         /\ DropBreakTimes(ReconcileParsedScan(m)) \in ParsedTimes
<1>1. Text[m] \in ParsedTimes /\ Text[m].masuk \in Nat
  BY DEF IngestAssumption, ParsedTimes
<1>2. ReconcileParsedScan(m) \in ParsedTimes
  BY <1>1, RemapFields DEF ReconcileParsedScan
<1>3. DropBreakTimes(ReconcileParsedScan(m)) \in ParsedTimes
  BY <1>2 DEF DropBreakTimes, ParsedTimes
<1> QED BY <1>2, <1>3

LEMMA CallTypes ==
  ASSUME IngestAssumption, Types, Aware, NEW p \in Procs, NEW m \in Messages
  PROVE  /\ StartProcessing(p, m, TRUE) \/ StartProcessing(p, m, FALSE) =>
              /\ pc' \in [Procs -> Steps] /\ msg' \in [Procs -> Messages \cup {Nobody}]
              /\ parsed' \in [Procs -> ParsedTimes] /\ result' \in [Procs -> Results]
         /\ Forget(p) =>
              /\ pc' \in [Procs -> Steps] /\ msg' \in [Procs -> Messages \cup {Nobody}]
              /\ parsed' \in [Procs -> ParsedTimes] /\ result' \in [Procs -> Results]
              /\ fresh' \in [Procs -> DayStatuses]
              /\ saved' \in [Procs -> Employees \cup {Nobody}]
<1> NoTimes \in ParsedTimes
  BY DEF NoTimes, ParsedTimes
<1>1. StartProcessing(p, m, TRUE) \/ StartProcessing(p, m, FALSE) =>
        /\ pc' \in [Procs -> Steps] /\ msg' \in [Procs -> Messages \cup {Nobody}]
        /\ parsed' \in [Procs -> ParsedTimes] /\ result' \in [Procs -> Results]
  BY DEF StartProcessing, Goto, Types, Steps, Results
<1>2. Forget(p) =>
        /\ pc' \in [Procs -> Steps] /\ msg' \in [Procs -> Messages \cup {Nobody}]
        /\ parsed' \in [Procs -> ParsedTimes] /\ result' \in [Procs -> Results]
        /\ fresh' \in [Procs -> DayStatuses]
        /\ saved' \in [Procs -> Employees \cup {Nobody}]
  BY DEF Forget, Goto, Types, Steps, Results, DayStatuses
<1> QED BY <1>1, <1>2

LEMMA ArrivalFrame ==
  ASSUME IngestAssumption, Types, Aware, OneOpenBreak, LeftHasOut, NEW p \in Procs,
         \/ \E m \in Messages : Deliver(p, m) \/ TakeJob(p, m)
         \/ EnqueueJob(p) \/ ProcessInline(p)
  PROVE  Frame(p) /\ DayRests
<1> USE DEF callVars, dayVars, planVars, envVars, msgVars
<1>1. ASSUME NEW m \in Messages, Deliver(p, m) PROVE Frame(p) /\ DayRests
  <2>1. DayRests /\ Alone(p)
    BY <1>1 DEF Deliver, DayRests, Alone, Goto, Types
  <2>2. Types'
    <3>1. sync' \in [Messages -> SyncStatuses]
      BY <1>1 DEF Deliver, Types, SyncStatuses
    <3>2. pc' \in [Procs -> Steps] /\ msg' \in [Procs -> Messages \cup {Nobody}]
      BY <1>1 DEF Deliver, Types, Goto, Steps
    <3> QED BY <1>1, <3>1, <3>2 DEF Deliver, Types
  <2>3. Aware'
    BY <1>1 DEF Deliver, Aware, Types, Goto, GridSteps
  <2>4. pc'[p] # "syncwrite"
    BY <1>1 DEF Deliver, Types, Goto
  <2> QED BY <2>1, <2>2, <2>3, <2>4, RestFrame
<1>2. ASSUME NEW m \in Messages, TakeJob(p, m) PROVE Frame(p) /\ DayRests
  <2>1. DayRests /\ Alone(p)
    BY <1>2 DEF TakeJob, StartProcessing, DayRests, Alone, Goto, Types
  <2>2. Types'
    BY <1>2, CallTypes DEF TakeJob, Types
  <2>3. Aware' /\ pc'[p] # "syncwrite"
    BY <1>2 DEF TakeJob, StartProcessing, Aware, Types, Goto, GridSteps
  <2> QED BY <2>1, <2>2, <2>3, RestFrame
<1>3. CASE EnqueueJob(p)
  <2>1. DayRests /\ Alone(p)
    BY <1>3 DEF EnqueueJob, Forget, DayRests, Alone, Goto, Types
  <2>2. Types'
    <3>1. msg[p] \in Messages
      BY <1>3 DEF EnqueueJob, Aware, GridSteps
    <3> QED BY <1>3, <3>1, CallTypes DEF EnqueueJob, Types
  <2>3. Aware' /\ pc'[p] # "syncwrite"
    BY <1>3 DEF EnqueueJob, Forget, Aware, Types, Goto, GridSteps
  <2> QED BY <2>1, <2>2, <2>3, RestFrame
<1>4. CASE ProcessInline(p)
  <2>1. DayRests /\ Alone(p)
    BY <1>4 DEF ProcessInline, StartProcessing, DayRests, Alone, Goto, Types
  <2>2. msg[p] \in Messages
    BY <1>4 DEF ProcessInline, Aware, GridSteps
  <2>3. Types'
    BY <1>4, <2>2, CallTypes DEF ProcessInline, Types
  <2>4. Aware' /\ pc'[p] # "syncwrite"
    BY <1>4, <2>2 DEF ProcessInline, StartProcessing, Aware, Types, Goto, GridSteps
  <2> QED BY <2>1, <2>3, <2>4, RestFrame
<1> QED BY <1>1, <1>2, <1>3, <1>4

LEMMA SectionFrame ==
  ASSUME IngestAssumption, Types, Aware, OneOpenBreak, LeftHasOut, NEW p \in Procs,
         \/ Fetch(p) \/ Lock(p) \/ CheckSchedule(p) \/ CrossCheck(p) \/ Reconcile(p)
         \/ CheckIn(p) \/ TxRead(p) \/ Unlock(p)
  PROVE  Frame(p) /\ DayRests
<1> USE DEF callVars, dayVars, planVars, envVars, msgVars, Goto
<1>1. CASE Fetch(p) \/ Lock(p) \/ Unlock(p)
  <2>1. DayRests /\ Alone(p)
    BY <1>1 DEF Fetch, Lock, Unlock, DayRests, Alone, Types
  <2>2. Types'
    BY <1>1 DEF Fetch, Lock, Unlock, Types, Steps, Locked
  <2>3. Aware' /\ pc'[p] # "syncwrite"
    BY <1>1 DEF Fetch, Lock, Unlock, Aware, Types, GridSteps
  <2> QED BY <2>1, <2>2, <2>3, RestFrame
<1>2. CASE CheckSchedule(p) \/ CrossCheck(p) \/ CheckIn(p)
  <2>1. DayRests /\ Alone(p)
    BY <1>2 DEF CheckSchedule, CrossCheck, CheckIn, Throw, DayRests, Alone, Types
  <2>2. \E step \in {"unlock", "cross", "reconcile", "update", "txread"},
           r \in {"out_of_range", "pending_schedule", "duplicate", "off_day"} :
          /\ pc' = [pc EXCEPT ![p] = step]
          /\ result' \in {result, [result EXCEPT ![p] = r]}
    BY <1>2 DEF CheckSchedule, CrossCheck, CheckIn, Throw
  <2>3. /\ UNCHANGED <<msgVars, dayVars, planVars, msg, parsed, todo, fresh, saved, saves>>
        /\ pc[p] \in {"check", "cross", "checkin"}
    BY <1>2 DEF CheckSchedule, CrossCheck, CheckIn
  <2>4. pc' \in [Procs -> Steps] /\ result' \in [Procs -> Results]
    BY <2>2 DEF Types, Steps, Locked, Results
  <2>5. Types'
    BY <2>3, <2>4 DEF Types
  <2>6. Aware' /\ pc'[p] # "syncwrite"
    BY <2>2, <2>3 DEF Aware, Types, GridSteps
  <2> QED BY <2>1, <2>5, <2>6, RestFrame
<1>3. CASE Reconcile(p)
  <2>1. DayRests /\ Alone(p)
    BY <1>3 DEF Reconcile, Throw, DayRests, Alone, Types
  <2>2. msg[p] \in Messages
    BY <1>3 DEF Reconcile, Aware, GridSteps
  <2>3. Types'
    BY <1>3, <2>2, PlanTyped DEF Reconcile, Throw, Types, Steps, Locked, Results
  <2>4. Aware' /\ pc'[p] # "syncwrite"
    BY <1>3 DEF Reconcile, Throw, Aware, Types, GridSteps
  <2> QED BY <2>1, <2>3, <2>4, RestFrame
<1>4. CASE TxRead(p)
  <2>1. DayRests /\ Alone(p)
    BY <1>4 DEF TxRead, Throw, DayRests, Alone, Types
  <2>2. msg[p] \in Messages
    BY <1>4 DEF TxRead, Aware, GridSteps
  <2>3. Types'
    BY <1>4, <2>2, PlanTyped DEF TxRead, Throw, Types, Steps, Locked, Results
  <2>4. Aware' /\ pc'[p] # "syncwrite"
    BY <1>4 DEF TxRead, Throw, Aware, Types, GridSteps
  <2> QED BY <2>1, <2>3, <2>4, RestFrame
<1> QED BY <1>1, <1>2, <1>3, <1>4

LEMMA GoOnKeeps ==
  ASSUME IngestAssumption, Types, Aware, NEW p \in Procs, NEW rest \in SUBSET Messages,
         GoOn(p, rest), UNCHANGED <<dayVars, planVars, saves>>,
         UNCHANGED <<sync, skipped>>
  PROVE  Types' /\ Aware' /\ Alone(p) /\ DayRests /\ pc'[p] # "syncwrite"
<1> USE DEF dayVars, planVars
<1>1. CASE rest = {} /\ Forget(p) /\ UNCHANGED todo
  <2>1. Types'
    <3>1. CASE Messages = {}
      <4> NoTimes \in ParsedTimes
        BY DEF NoTimes, ParsedTimes
      <4> QED BY <1>1 DEF Types, Forget, Goto, Steps, Results, DayStatuses
    <3>2. ASSUME NEW m \in Messages PROVE Types'
      BY <1>1, <3>2, CallTypes DEF Types
    <3> QED BY <3>1, <3>2
  <2>2. Aware' /\ Alone(p) /\ DayRests /\ pc'[p] # "syncwrite"
    BY <1>1 DEF Forget, Goto, Types, Aware, GridSteps, Alone, DayRests
  <2> QED BY <2>1, <2>2
<1>2. ASSUME NEW m \in Earliest(rest), StartProcessing(p, m, TRUE),
             todo' = [todo EXCEPT ![p] = rest \ {m}], UNCHANGED <<fresh, saved>>
      PROVE  Types' /\ Aware' /\ Alone(p) /\ DayRests /\ pc'[p] # "syncwrite"
  <2>0. m \in Messages
    BY DEF Earliest
  <2>1. Types'
    BY <1>2, <2>0, CallTypes DEF Types
  <2>2. Aware' /\ Alone(p) /\ DayRests /\ pc'[p] # "syncwrite"
    BY <1>2, <2>0 DEF StartProcessing, Goto, Types, Aware, GridSteps, Alone, DayRests
  <2> QED BY <2>1, <2>2
<1> QED BY <1>1, <1>2 DEF GoOn

LEMMA OutcomeFrame ==
  ASSUME IngestAssumption, Types, Aware, OneOpenBreak, LeftHasOut, NEW p \in Procs,
         \/ LinkCheck(p) \/ Mark(p) \/ Catch(p) \/ Settle(p) \/ ScanParked(p)
         \/ \E e \in Employees, cell \in {"none", "off", "work"} : SaveGrid(p, e, cell)
         \/ SyncRead(p) \/ Fault(p)
  PROVE  Frame(p) /\ DayRests
<1> USE DEF callVars, dayVars, planVars, envVars, msgVars, Goto
<1>1. CASE LinkCheck(p) \/ Mark(p) \/ Catch(p)
  <2>1. DayRests /\ Alone(p)
    BY <1>1 DEF LinkCheck, Mark, Catch, DayRests, Alone, Types
  <2>2. Types'
    <3>1. CASE LinkCheck(p)
      BY <3>1 DEF LinkCheck, Types, Steps
    <3>2. CASE Mark(p)
      <4>1. sync' \in [Messages -> SyncStatuses]
        BY <3>2 DEF Mark, Types, SyncStatuses
      <4>2. skipped' \in [Messages -> {"no", "duplicate", "off_day"}]
        BY <3>2 DEF Mark, Types
      <4>3. pc' \in [Procs -> Steps] /\ result' \in [Procs -> Results]
        BY <3>2 DEF Mark, Types, Steps, Results
      <4> QED BY <3>2, <4>1, <4>2, <4>3 DEF Mark, Types
    <3>3. CASE Catch(p)
      <4>1. sync' \in [Messages -> SyncStatuses]
        BY <3>3 DEF Catch, Types, SyncStatuses
      <4>2. skipped' \in [Messages -> {"no", "duplicate", "off_day"}]
        <5>1. PICK why : why = IF result[p] \in {"duplicate", "off_day"} THEN result[p] ELSE "no"
          OBVIOUS
        <5>2. skipped' = [skipped EXCEPT ![msg[p]] = why]
          BY <3>3, <5>1 DEF Catch
        <5> QED BY <5>1, <5>2 DEF Types
      <4>3. pc' \in [Procs -> Steps] /\ result' \in [Procs -> Results]
        BY <3>3 DEF Catch, Types, Steps, Results
      <4> QED BY <3>3, <4>1, <4>2, <4>3 DEF Catch, Types
    <3> QED BY <1>1, <3>1, <3>2, <3>3
  <2>3. Aware' /\ pc'[p] # "syncwrite"
    BY <1>1 DEF LinkCheck, Mark, Catch, Aware, Types, GridSteps
  <2> QED BY <2>1, <2>2, <2>3, RestFrame
<1>2. CASE Settle(p) \/ ScanParked(p)
  <2>1. /\ GoOn(p, todo[p]) \/ GoOn(p, Parked(saved[p]))
        /\ UNCHANGED <<dayVars, planVars, saves, sync, skipped>>
    BY <1>2 DEF Settle, ScanParked
  <2>2. todo[p] \in SUBSET Messages /\ Parked(saved[p]) \in SUBSET Messages
    BY DEF Types, Parked
  <2>3. Types' /\ Aware' /\ Alone(p) /\ DayRests /\ pc'[p] # "syncwrite"
    BY <2>1, <2>2, GoOnKeeps
  <2> QED BY <2>3, RestFrame
<1>3. ASSUME NEW e \in Employees, NEW cell \in {"none", "off", "work"}, SaveGrid(p, e, cell)
      PROVE  Frame(p) /\ DayRests
  <2>1. DayRests /\ Alone(p)
    BY <1>3 DEF SaveGrid, DayRests, Alone, Types
  <2>2. Types'
    BY <1>3 DEF SaveGrid, Types, Steps
  <2>3. Aware' /\ pc'[p] # "syncwrite"
    BY <1>3 DEF SaveGrid, Aware, Types, GridSteps
  <2> QED BY <2>1, <2>2, <2>3, RestFrame
<1>4. CASE SyncRead(p)
  <2>1. DayRests /\ Alone(p)
    BY <1>4 DEF SyncRead, DayRests, Alone, Types
  <2>2. Types'
    BY <1>4 DEF SyncRead, Types, Steps, DayStatuses
  <2>3. Aware'
    BY <1>4 DEF SyncRead, Aware, Types, GridSteps
  <2>4. pc'[p] = "syncwrite" /\ fresh'[p] = "left" => checkOut[saved'[p]] # 0
    BY <1>4 DEF SyncRead, Types
  <2> QED BY <2>1, <2>2, <2>3, <2>4, RestFrame
<1>5. CASE Fault(p)
  <2>1. DayRests /\ Alone(p)
    BY <1>5 DEF Fault, Throw, Forget, DayRests, Alone, Types
  <2>2. Types'
    <3>1. pc' \in [Procs -> Steps]
      BY <1>5 DEF Fault, Throw, Forget, Types, Steps, Locked
    <3>2. result' \in [Procs -> Results]
      BY <1>5 DEF Fault, Throw, Forget, Types, Results
    <3>3. NoTimes \in ParsedTimes
      BY DEF NoTimes, ParsedTimes
    <3>4. /\ msg' \in [Procs -> Messages \cup {Nobody}] /\ parsed' \in [Procs -> ParsedTimes]
          /\ fresh' \in [Procs -> DayStatuses] /\ saved' \in [Procs -> Employees \cup {Nobody}]
      BY <1>5, <3>3 DEF Fault, Throw, Forget, Types, DayStatuses
    <3>5. UNCHANGED <<msgVars, dayVars, planVars, todo, saves>>
      BY <1>5 DEF Fault
    <3> QED BY <3>1, <3>2, <3>4, <3>5 DEF Types
  <2>3. Aware' /\ pc'[p] # "syncwrite"
    BY <1>5 DEF Fault, Throw, Forget, Aware, Types, GridSteps, Locked
  <2> QED BY <2>1, <2>2, <2>3, RestFrame
<1> QED BY <1>1, <1>2, <1>3, <1>4, <1>5
------------------------------------------------------------------------------
(* The steps that write the day.                                           *)

LEMMA LatestIsOpen ==
  ASSUME Types, OneOpenBreak, NEW e \in Employees, OpenBreaks(breaks[e]) # {}
  PROVE  LatestOpenBreak(e) \in OpenBreaks(breaks[e])
<1>1. PICK b \in OpenBreaks(breaks[e]) : TRUE
  OBVIOUS
<1>2. \A c \in OpenBreaks(breaks[e]) : c.from <= b.from
  BY DEF OneOpenBreak, OpenBreaks, Types, BreakSession
<1> QED BY <1>1, <1>2 DEF LatestOpenBreak

\* The open session of e's day ends at t.
Closes(e, b, t) ==
  breaks' = [breaks EXCEPT ![e] = (@ \ {b}) \cup {[from |-> b.from, to |-> t]}]

LEMMA CloseBreakCloses ==
  ASSUME Types, OneOpenBreak, NEW e \in Employees, OpenBreaks(breaks[e]) # {},
         NEW t \in Nat \ {0}, CloseBreak(e, t)
  PROVE  \E b \in OpenBreaks(breaks[e]) : Closes(e, b, t)
<1> DEFINE b == LatestOpenBreak(e)
<1>1. b \in OpenBreaks(breaks[e]) /\ b \in BreakSession
  BY LatestIsOpen DEF OpenBreaks, Types
<1>2. [b EXCEPT !.to = t] = [from |-> b.from, to |-> t]
  BY <1>1 DEF BreakSession
<1>3. Closes(e, b, t)
  BY <1>2 DEF CloseBreak, Closes
<1> QED BY <1>1, <1>3

BreakStarts(p) == BreakEnabled[Emp(p)] /\ parsed[p].mulai # 0
BreakEnds(p) == BreakEnabled[Emp(p)] /\ parsed[p].mulai = 0 /\ parsed[p].selesai # 0

\* The break step, branch by branch.
LEMMA BreakBranches ==
  ASSUME IngestAssumption, Types, Aware, OneOpenBreak, NEW p \in Procs, BreakStep(p)
  PROVE  LET e == Emp(p)
             t == parsed[p]
         IN  \/ /\ UNCHANGED <<breaks, result>>
                /\ \/ ~BreakStarts(p) /\ ~BreakEnds(p)
                   \/ BreakStarts(p) /\ \E b \in breaks[e] : b.from = t.mulai
                   \/ BreakEnds(p) /\ \E b \in breaks[e] : b.to = t.selesai
             \/ /\ BreakStarts(p) /\ OpenBreaks(breaks[e]) # {} /\ t.selesai = 0
                /\ UNCHANGED <<breaks, result>>
             \/ /\ BreakStarts(p) \/ BreakEnds(p)
                /\ t.selesai # 0 /\ UNCHANGED result
                /\ \E b \in OpenBreaks(breaks[e]) : Closes(e, b, t.selesai)
             \/ /\ BreakStarts(p) /\ OpenBreaks(breaks[e]) = {} /\ UNCHANGED result
                /\ breaks' = [breaks EXCEPT ![e] =
                     @ \cup {[from |-> t.mulai, to |-> t.selesai]}]
             \/ /\ BreakEnds(p) /\ OpenBreaks(breaks[e]) = {}
                /\ UNCHANGED breaks /\ result' = [result EXCEPT ![p] = "break_not_open"]
<1> DEFINE e == Emp(p)
           t == parsed[p]
<1> e \in Employees /\ t \in ParsedTimes
  BY DEF BreakStep, Aware, GridSteps, Types, Emp, IngestAssumption
<1> HIDE DEF e, t
<1>1. ASSUME NEW s \in {t.selesai}, s # 0, OpenBreaks(breaks[e]) # {}, CloseBreak(e, s)
      PROVE  \E b \in OpenBreaks(breaks[e]) : Closes(e, b, s)
  <2> s \in Nat \ {0}
    BY <1>1 DEF ParsedTimes
  <2> QED BY <1>1, CloseBreakCloses
<1>2. CASE UNCHANGED <<breaks, result>>
           /\ \/ ~BreakStarts(p) /\ ~BreakEnds(p)
              \/ BreakStarts(p) /\ \E b \in breaks[e] : b.from = t.mulai
              \/ BreakEnds(p) /\ \E b \in breaks[e] : b.to = t.selesai
  BY <1>2 DEF e, t
<1>3. CASE BreakStarts(p) /\ UpsertBreakSession(e, t.mulai, t.selesai) /\ UNCHANGED result
  <2>1. \/ OpenBreaks(breaks[e]) # {} /\ t.selesai = 0 /\ UNCHANGED breaks
        \/ t.selesai # 0 /\ \E b \in OpenBreaks(breaks[e]) : Closes(e, b, t.selesai)
        \/ /\ OpenBreaks(breaks[e]) = {}
           /\ breaks' = [breaks EXCEPT ![e] = @ \cup {[from |-> t.mulai, to |-> t.selesai]}]
    BY <1>1, <1>3 DEF UpsertBreakSession
  <2> QED BY <1>3, <2>1 DEF e, t
<1>4. CASE BreakEnds(p) /\ CloseOpenBreakSession(p, e, t.selesai)
  <2>1. \/ UNCHANGED result /\ \E b \in OpenBreaks(breaks[e]) : Closes(e, b, t.selesai)
        \/ /\ OpenBreaks(breaks[e]) = {} /\ UNCHANGED breaks
           /\ result' = [result EXCEPT ![p] = "break_not_open"]
    BY <1>1, <1>4 DEF CloseOpenBreakSession, Throw, BreakEnds, t
  <2> QED BY <1>4, <2>1 DEF e, t, BreakEnds
<1> QED BY <1>2, <1>3, <1>4 DEF BreakStep, BreakStarts, BreakEnds, e, t

\* One session is closed, or one is added to a day without an open one.
LEMMA SessionsFrame ==
  ASSUME Types, OneOpenBreak, NEW e \in Employees,
         \/ UNCHANGED breaks
         \/ \E b \in OpenBreaks(breaks[e]), t \in Nat \ {0} : Closes(e, b, t)
         \/ /\ OpenBreaks(breaks[e]) = {}
            /\ \E from \in Nat \ {0}, to \in Nat :
                 breaks' = [breaks EXCEPT ![e] = @ \cup {[from |-> from, to |-> to]}]
  PROVE  /\ breaks' \in [Employees -> SUBSET BreakSession]
         /\ OneOpenBreak'
         /\ \A d \in Employees : d # e => breaks'[d] = breaks[d]
         /\ \A d \in Employees : \A b \in breaks[d] :
              \E c \in breaks'[d] : c.from = b.from /\ (b.to # 0 => c.to = b.to)
<1>1. CASE UNCHANGED breaks
  BY <1>1 DEF OneOpenBreak, Types
<1>2. ASSUME NEW b \in OpenBreaks(breaks[e]), NEW t \in Nat \ {0}, Closes(e, b, t)
      PROVE  /\ breaks' \in [Employees -> SUBSET BreakSession]
             /\ OneOpenBreak'
             /\ \A d \in Employees : d # e => breaks'[d] = breaks[d]
             /\ \A d \in Employees : \A s \in breaks[d] :
                  \E c \in breaks'[d] : c.from = s.from /\ (s.to # 0 => c.to = s.to)
  <2> DEFINE n == [from |-> b.from, to |-> t]
  <2>1. n \in BreakSession /\ n.from = b.from /\ n.to = t /\ b.to = 0
    BY DEF BreakSession, OpenBreaks, Types
  <2> HIDE DEF n
  <2>2. /\ breaks'[e] = (breaks[e] \ {b}) \cup {n}
        /\ \A d \in Employees : d # e => breaks'[d] = breaks[d]
        /\ breaks' \in [Employees -> SUBSET BreakSession]
    BY <1>2, <2>1 DEF Closes, Types, n
  <2>3. OneOpenBreak'
    BY <2>1, <2>2 DEF OneOpenBreak, OpenBreaks
  <2>4. ASSUME NEW d \in Employees, NEW s \in breaks[d]
        PROVE  \E c \in breaks'[d] : c.from = s.from /\ (s.to # 0 => c.to = s.to)
    BY <2>1, <2>2
  <2> QED BY <2>2, <2>3, <2>4
<1>3. ASSUME OpenBreaks(breaks[e]) = {}, NEW from \in Nat \ {0}, NEW to \in Nat,
             breaks' = [breaks EXCEPT ![e] = @ \cup {[from |-> from, to |-> to]}]
      PROVE  /\ breaks' \in [Employees -> SUBSET BreakSession]
             /\ OneOpenBreak'
             /\ \A d \in Employees : d # e => breaks'[d] = breaks[d]
             /\ \A d \in Employees : \A s \in breaks[d] :
                  \E c \in breaks'[d] : c.from = s.from /\ (s.to # 0 => c.to = s.to)
  <2>1. [from |-> from, to |-> to] \in BreakSession
    BY DEF BreakSession
  <2>2. /\ breaks'[e] = breaks[e] \cup {[from |-> from, to |-> to]}
        /\ \A d \in Employees : d # e => breaks'[d] = breaks[d]
        /\ breaks' \in [Employees -> SUBSET BreakSession]
    BY <1>3, <2>1 DEF Types
  <2>3. OneOpenBreak'
    BY <1>3, <2>2 DEF OneOpenBreak, OpenBreaks
  <2>4. ASSUME NEW d \in Employees, NEW s \in breaks[d]
        PROVE  \E c \in breaks'[d] : c.from = s.from /\ (s.to # 0 => c.to = s.to)
    BY <2>2
  <2> QED BY <2>2, <2>3, <2>4
<1> QED BY <1>1, <1>2, <1>3

LEMMA BreakFrame ==
  ASSUME IngestAssumption, Types, Aware, OneOpenBreak, LeftHasOut, NEW p \in Procs, BreakStep(p)
  PROVE  Frame(p)
<1> USE DEF callVars, planVars, envVars, msgVars, Goto
<1>1. msg[p] \in Messages /\ Emp(p) \in Employees /\ parsed[p] \in ParsedTimes /\ pc[p] = "break"
  BY DEF BreakStep, Aware, GridSteps, Emp, IngestAssumption, Types
<1>2. /\ pc' = [pc EXCEPT ![p] = "unlock"]
      /\ result' \in {result, [result EXCEPT ![p] = "break_not_open"]}
      /\ UNCHANGED <<msgVars, checkIn, checkOut, status, planVars, msg, todo, fresh, saved, parsed, saves>>
  BY DEF BreakStep, CloseOpenBreakSession, Throw
<1>3. \/ UNCHANGED breaks
      \/ \E b \in OpenBreaks(breaks[Emp(p)]), t \in Nat \ {0} : Closes(Emp(p), b, t)
      \/ /\ OpenBreaks(breaks[Emp(p)]) = {}
         /\ \E from \in Nat \ {0}, to \in Nat :
              breaks' = [breaks EXCEPT ![Emp(p)] = @ \cup {[from |-> from, to |-> to]}]
  <2>1. parsed[p].mulai \in Nat /\ parsed[p].selesai \in Nat
    BY <1>1 DEF ParsedTimes
  <2> QED BY <2>1, BreakBranches DEF BreakStarts
<1>4. /\ breaks' \in [Employees -> SUBSET BreakSession]
      /\ OneOpenBreak'
      /\ \A d \in Employees : d # Emp(p) => breaks'[d] = breaks[d]
      /\ \A d \in Employees : \A b \in breaks[d] :
           \E c \in breaks'[d] : c.from = b.from /\ (b.to # 0 => c.to = b.to)
  BY <1>1, <1>3, SessionsFrame
<1>5. Types'
  BY <1>2, <1>4 DEF Types, Steps, Locked, Results
<1>6. Aware' /\ LeftHasOut' /\ Alone(p)
  BY <1>1, <1>2 DEF Aware, GridSteps, LeftHasOut, Alone, Types
<1>7. Grows /\ OwnDay(p)
  BY <1>1, <1>2, <1>4 DEF Grows, OwnDay, Locked
<1> QED BY <1>4, <1>5, <1>6, <1>7 DEF Frame

LEMMA RowFrame ==
  ASSUME IngestAssumption, PInv, Types, Aware, OneOpenBreak, LeftHasOut, NEW p \in Procs,
         TxCreate(p) \/ TxUpdate(p) \/ Ensure(p) \/ Update(p) \/ SyncWrite(p)
  PROVE  Frame(p)
<1> USE DEF callVars, planVars, envVars, msgVars, Goto
<1>0. parsed[p] \in ParsedTimes /\ parsed[p].masuk \in Nat /\ parsed[p].pulang \in Nat
  BY DEF Types, ParsedTimes
<1>1. CASE TxCreate(p)
  <2>1. Emp(p) \in Employees
    BY <1>1 DEF TxCreate, Aware, GridSteps, Emp, IngestAssumption
  <2>2. status[Emp(p)] = "none" => checkIn[Emp(p)] = 0
    BY <2>1 DEF PInv, HasRow
  <2>3. Types'
    BY <1>0, <1>1 DEF TxCreate, Throw, Types, Steps, Locked, Results, DayStatuses
  <2>4. Aware' /\ LeftHasOut' /\ Alone(p) /\ OneOpenBreak'
    BY <1>1 DEF TxCreate, Throw, Aware, GridSteps, LeftHasOut, Alone, OneOpenBreak, Types
  <2>5. Grows /\ OwnDay(p)
    BY <1>1, <2>1, <2>2 DEF TxCreate, Grows, OwnDay, Locked, Types
  <2> QED BY <2>3, <2>4, <2>5 DEF Frame
<1>2. CASE TxUpdate(p)
  <2>1. Emp(p) \in Employees
    BY <1>2 DEF TxUpdate, Aware, GridSteps, Emp, IngestAssumption
  <2>2. checkIn[Emp(p)] = 0
    BY <1>2, <2>1 DEF TxUpdate, PInv, StillBlank
  <2>3. Types'
    BY <1>0, <1>2 DEF TxUpdate, Types, Steps, Locked, DayStatuses
  <2>4. Aware' /\ LeftHasOut' /\ Alone(p) /\ OneOpenBreak'
    BY <1>2 DEF TxUpdate, Aware, GridSteps, LeftHasOut, Alone, OneOpenBreak, Types
  <2>5. Grows /\ OwnDay(p)
    BY <1>2, <2>1, <2>2 DEF TxUpdate, Grows, OwnDay, Locked, Types
  <2> QED BY <2>3, <2>4, <2>5 DEF Frame
<1>3. CASE Ensure(p)
  <2>1. Types'
    BY <1>3 DEF Ensure, Types, Steps, Locked, DayStatuses
  <2>2. Aware' /\ LeftHasOut' /\ Alone(p) /\ OneOpenBreak'
    BY <1>3 DEF Ensure, Aware, GridSteps, LeftHasOut, Alone, OneOpenBreak, Types
  <2>3. Grows /\ OwnDay(p)
    BY <1>3 DEF Ensure, Grows, OwnDay
  <2> QED BY <2>1, <2>2, <2>3 DEF Frame
<1>4. CASE Update(p)
  <2> DEFINE e == Emp(p)
             t == parsed[p]
  <2>1. e \in Employees /\ pc[p] = "update"
    BY <1>4 DEF Update, Aware, GridSteps, Emp, IngestAssumption
  <2>2. \/ /\ pc' = [pc EXCEPT ![p] = "unlock"] /\ result' = [result EXCEPT ![p] = "duplicate"]
           /\ UNCHANGED <<checkOut, status>>
        \/ /\ pc' = [pc EXCEPT ![p] = "break"] /\ UNCHANGED result
           /\ t.pulang # 0 => checkOut[e] \in {0, t.pulang}
           /\ checkOut' = [checkOut EXCEPT ![e] = IF t.pulang # 0 THEN t.pulang ELSE @]
           /\ \E s \in {"left", "present", "on_break", status[e]} :
                /\ status' = [status EXCEPT ![e] = s]
                /\ s = "left" => t.pulang # 0 \/ status[e] = "left"
    BY <1>4, <2>1 DEF Update, Throw, Types
  <2>3. UNCHANGED <<msgVars, checkIn, breaks, planVars, msg, todo, fresh, saved, parsed, saves>>
    BY <1>4 DEF Update
  <2> HIDE DEF e, t
  <2>4. t \in ParsedTimes /\ t.pulang \in Nat
    BY <1>0 DEF t
  <2>5. Types'
    <3>1. pc' \in [Procs -> Steps] /\ result' \in [Procs -> Results]
      BY <2>2 DEF Types, Steps, Locked, Results
    <3>2. checkOut' \in [Employees -> Nat] /\ status' \in [Employees -> DayStatuses]
      BY <2>1, <2>2, <2>4 DEF Types, DayStatuses
    <3> QED BY <2>3, <3>1, <3>2 DEF Types
  <2>6. Alone(p) /\ OneOpenBreak'
    BY <2>2, <2>3 DEF Alone, OneOpenBreak, Types
  <2>7. Aware'
    BY <2>1, <2>2, <2>3 DEF Aware, GridSteps, Types
  <2>8. \A d \in Employees : /\ checkOut[d] # 0 => checkOut'[d] = checkOut[d]
                             /\ d # e => checkOut'[d] = checkOut[d]
                             /\ status'[d] = "left" => checkOut'[d] # 0
    BY <2>1, <2>2 DEF LeftHasOut, Types
  <2>9. LeftHasOut'
    <3> SUFFICES ASSUME NEW q \in Procs, pc'[q] = "syncwrite", fresh'[q] = "left"
                 PROVE  checkOut'[saved'[q]] # 0
      BY <2>8 DEF LeftHasOut
    <3>1. pc[q] = "syncwrite"
      BY <2>2 DEF Types
    <3>2. saved[q] \in Employees
      BY <3>1 DEF Aware, GridSteps
    <3>3. checkOut[saved[q]] # 0
      BY <2>3, <3>1 DEF LeftHasOut
    <3> QED BY <2>3, <2>8, <3>2, <3>3
  <2>10. Grows /\ OwnDay(p)
    BY <2>1, <2>3, <2>8 DEF Grows, OwnDay, Locked, e
  <2> QED BY <2>5, <2>6, <2>7, <2>9, <2>10 DEF Frame
<1>5. CASE SyncWrite(p)
  <2>1. Types'
    BY <1>5 DEF SyncWrite, Types, Steps
  <2>2. Aware' /\ Alone(p) /\ OneOpenBreak'
    BY <1>5 DEF SyncWrite, Aware, GridSteps, Alone, OneOpenBreak, Types
  <2>3. LeftHasOut'
    BY <1>5 DEF SyncWrite, LeftHasOut, Types
  <2>4. Grows /\ OwnDay(p)
    BY <1>5 DEF SyncWrite, Grows, OwnDay
  <2> QED BY <2>1, <2>2, <2>3, <2>4 DEF Frame
<1> QED BY <1>1, <1>2, <1>3, <1>4, <1>5

\* The surroundings: no call moves, except that a crash ends some.
LEMMA SurroundingFrame ==
  ASSUME IngestAssumption, Types, Aware, OneOpenBreak, LeftHasOut, CallsOK, OutcomeOK,
         \/ \E e \in Employees : SubmitTwoScan(e) \/ ReviewTwoScan(e)
         \/ CloseWindow \/ Crash(Workers) \/ Crash(Apis) \/ UNCHANGED vars
  PROVE  Types' /\ Aware' /\ OneOpenBreak' /\ LeftHasOut' /\ CallsOK' /\ OutcomeOK'
<1> USE DEF msgVars, planVars, envVars
<1>1. ASSUME UNCHANGED <<sync, skipped, checkIn, checkOut, breaks, grid, saves, todo, pc, msg,
                         parsed, result, fresh, saved>>,
             twoScan' \in [Employees -> {"none", "pending", "approved"}],
             \A e \in Employees : twoScan[e] = "approved" => twoScan'[e] = "approved",
             status' \in [Employees -> DayStatuses],
             \A e \in Employees : status'[e] = "left" => status[e] = "left"
      PROVE  Types' /\ Aware' /\ OneOpenBreak' /\ LeftHasOut' /\ CallsOK' /\ OutcomeOK'
  <2>1. Types' /\ Aware' /\ OneOpenBreak' /\ LeftHasOut'
    BY <1>1 DEF Types, Aware, OneOpenBreak, LeftHasOut
  <2>2. Grows
    BY <1>1 DEF Grows
  <2>3. OutcomeOK'
    BY <1>1, <2>2, OutcomeKeeps
  <2>4. ASSUME NEW q \in Procs PROVE CallOK(q)'
    <3>1. PlanRests(q) /\ CallOK(q)
      BY <1>1 DEF PlanRests, CallsOK
    <3> QED BY <1>1, <2>2, <3>1, CallKeeps
  <2> QED BY <2>1, <2>3, <2>4 DEF CallsOK
<1>2. ASSUME NEW e \in Employees, SubmitTwoScan(e)
      PROVE  Types' /\ Aware' /\ OneOpenBreak' /\ LeftHasOut' /\ CallsOK' /\ OutcomeOK'
  <2>1. UNCHANGED <<sync, skipped, checkIn, checkOut, breaks, grid, saves, todo, pc, msg,
                    parsed, result, fresh, saved>>
    BY <1>2 DEF SubmitTwoScan, procVars, callVars
  <2>2. /\ twoScan' \in [Employees -> {"none", "pending", "approved"}]
        /\ \A d \in Employees : twoScan[d] = "approved" => twoScan'[d] = "approved"
        /\ status' \in [Employees -> DayStatuses]
        /\ \A d \in Employees : status'[d] = "left" => status[d] = "left"
    BY <1>2 DEF SubmitTwoScan, Types, DayStatuses
  <2> QED BY <1>1, <2>1, <2>2
<1>3. ASSUME NEW e \in Employees, ReviewTwoScan(e)
      PROVE  Types' /\ Aware' /\ OneOpenBreak' /\ LeftHasOut' /\ CallsOK' /\ OutcomeOK'
  <2>1. UNCHANGED <<sync, skipped, checkIn, checkOut, breaks, grid, saves, todo, pc, msg,
                    parsed, result, fresh, saved, status>>
    BY <1>3 DEF ReviewTwoScan, procVars, callVars, dayVars
  <2>2. /\ twoScan' \in [Employees -> {"none", "pending", "approved"}]
        /\ \A d \in Employees : twoScan[d] = "approved" => twoScan'[d] = "approved"
    BY <1>3 DEF ReviewTwoScan, Types
  <2> QED BY <1>1, <2>1, <2>2 DEF Types
<1>4. CASE CloseWindow \/ UNCHANGED vars
  <2>1. UNCHANGED <<sync, skipped, checkIn, checkOut, breaks, grid, saves, todo, pc, msg,
                    parsed, result, fresh, saved, status, twoScan>>
    BY <1>4 DEF CloseWindow, vars, procVars, callVars, dayVars
  <2> QED BY <1>1, <2>1 DEF Types
<1>5. ASSUME NEW group, Crash(group)
      PROVE  Types' /\ Aware' /\ OneOpenBreak' /\ LeftHasOut' /\ CallsOK' /\ OutcomeOK'
  <2>1. /\ UNCHANGED <<sync, skipped, checkIn, checkOut, breaks, grid, saves, status, twoScan>>
        /\ pc' = [p \in Procs |-> IF p \in group THEN "idle" ELSE pc[p]]
        /\ msg' = [p \in Procs |-> IF p \in group THEN Nobody ELSE msg[p]]
        /\ parsed' = [p \in Procs |-> IF p \in group THEN NoTimes ELSE parsed[p]]
        /\ result' = [p \in Procs |-> IF p \in group THEN "ok" ELSE result[p]]
        /\ todo' = [p \in Procs |-> IF p \in group THEN {} ELSE todo[p]]
        /\ fresh' = [p \in Procs |-> IF p \in group THEN "none" ELSE fresh[p]]
        /\ saved' = [p \in Procs |-> IF p \in group THEN Nobody ELSE saved[p]]
    BY <1>5 DEF Crash, Without, dayVars
  <2>2. NoTimes \in ParsedTimes
    BY DEF NoTimes, ParsedTimes
  <2>3. Types'
    BY <2>1, <2>2 DEF Types, Steps, Results, DayStatuses
  <2>4. Aware' /\ OneOpenBreak' /\ LeftHasOut'
    BY <2>1 DEF Aware, GridSteps, OneOpenBreak, LeftHasOut
  <2>5. Grows
    BY <2>1 DEF Grows
  <2>6. OutcomeOK'
    BY <2>1, <2>5, OutcomeKeeps
  <2>7. ASSUME NEW q \in Procs PROVE CallOK(q)'
    <3>1. CASE q \in group
      <4>1. pc'[q] = "idle"
        BY <2>1, <3>1
      <4> QED BY <4>1 DEF CallOK, Healthy, Planned, BeforeRow, Locked
    <3>2. CASE q \notin group
      <4>1. UNCHANGED <<pc[q], msg[q], parsed[q], result[q]>>
        BY <2>1, <3>2
      <4>2. PlanRests(q) /\ CallOK(q)
        BY <2>1 DEF PlanRests, CallsOK
      <4> QED BY <2>5, <4>1, <4>2, CallKeeps
    <3> QED BY <3>1, <3>2
  <2> QED BY <2>3, <2>4, <2>6, <2>7 DEF CallsOK
<1> QED BY <1>2, <1>3, <1>4, <1>5
------------------------------------------------------------------------------
(* What a step leaves its own call with.                                   *)

Refusals == Results \ {"ok", "duplicate", "off_day"}

\* p is where CallOK asks for nothing.
AtRest(p) ==
  \/ pc[p] \in {"idle", "enqueue", "settle"} \cup GridSteps
  \/ pc[p] \in {"fetch", "lock", "check", "cross", "reconcile"} /\ result[p] = "ok"
  \/ pc[p] \in {"unlock", "catch"} /\ result[p] \in Refusals

LEMMA RestIsOK ==
  ASSUME NEW p \in Procs, AtRest(p)'
  PROVE  CallOK(p)'
BY DEF AtRest, CallOK, Healthy, Planned, BeforeRow, Locked, GridSteps, SkipOK, Refusals

LEMMA RestingSteps ==
  ASSUME IngestAssumption, Types, Aware, CallsOK, NEW p \in Procs, msg[p] \in Scans,
         \/ EnqueueJob(p) \/ ProcessInline(p) \/ Fetch(p) \/ Lock(p) \/ CheckSchedule(p)
         \/ Mark(p) \/ Catch(p) \/ Settle(p) \/ ScanParked(p)
         \/ SyncRead(p) \/ SyncWrite(p) \/ Fault(p)
  PROVE  CallOK(p)'
<1> USE DEF Goto, AtRest, GridSteps, Types
<1>0. CallOK(p)
  BY DEF CallsOK
<1>1. CASE EnqueueJob(p) \/ ProcessInline(p)
  <2>1. AtRest(p)'
    BY <1>1 DEF EnqueueJob, ProcessInline, Forget, StartProcessing
  <2> QED BY <2>1, RestIsOK
<1>2. CASE Fetch(p) \/ Lock(p) \/ CheckSchedule(p)
  <2>1. result[p] = "ok"
    BY <1>0, <1>2 DEF Fetch, Lock, CheckSchedule, CallOK, Healthy, Locked
  <2>2. AtRest(p)'
    <3>1. CASE Fetch(p) \/ Lock(p)
      BY <2>1, <3>1 DEF Fetch, Lock
    <3>2. CASE CheckSchedule(p)
      <4>1. \/ pc'[p] = "unlock" /\ result'[p] \in {"out_of_range", "pending_schedule"}
            \/ pc'[p] = "cross" /\ UNCHANGED result
        BY <3>2 DEF CheckSchedule, Throw
      <4> QED BY <2>1, <4>1 DEF Refusals, Results
    <3> QED BY <1>2, <3>1, <3>2
  <2> QED BY <2>2, RestIsOK
<1>3. CASE Mark(p) \/ Catch(p)
  <2>1. AtRest(p)'
    BY <1>3 DEF Mark, Catch, Refusals, Results
  <2> QED BY <2>1, RestIsOK
<1>4. CASE Settle(p) \/ ScanParked(p)
  <2>1. AtRest(p)'
    BY <1>4 DEF Settle, ScanParked, GoOn, Forget, StartProcessing
  <2> QED BY <2>1, RestIsOK
<1>5. CASE SyncRead(p) \/ SyncWrite(p)
  <2>1. AtRest(p)'
    BY <1>5 DEF SyncRead, SyncWrite
  <2> QED BY <2>1, RestIsOK
<1>6. CASE Fault(p)
  <2>1. AtRest(p)'
    BY <1>6 DEF Fault, Throw, Forget, Refusals, Results
  <2> QED BY <2>1, RestIsOK
<1> QED BY <1>1, <1>2, <1>3, <1>4, <1>5, <1>6

\* Steps that start from no scan.
LEMMA StartingSteps ==
  ASSUME IngestAssumption, Types, Aware, CallsOK, NEW p \in Procs,
         \/ \E m \in Messages : Deliver(p, m) \/ TakeJob(p, m)
         \/ \E e \in Employees, cell \in {"none", "off", "work"} : SaveGrid(p, e, cell)
         \/ msg[p] \notin Scans /\ (Settle(p) \/ ScanParked(p))
  PROVE  CallOK(p)'
<1> USE DEF Goto, AtRest, GridSteps, Types
<1>1. ASSUME NEW m \in Messages, Deliver(p, m) \/ TakeJob(p, m) PROVE CallOK(p)'
  <2>1. AtRest(p)'
    BY <1>1 DEF Deliver, TakeJob, StartProcessing
  <2> QED BY <2>1, RestIsOK
<1>2. ASSUME NEW e \in Employees, NEW cell \in {"none", "off", "work"}, SaveGrid(p, e, cell)
      PROVE  CallOK(p)'
  <2>1. AtRest(p)'
    BY <1>2 DEF SaveGrid
  <2> QED BY <2>1, RestIsOK
<1>3. CASE Settle(p) \/ ScanParked(p)
  <2>1. AtRest(p)'
    BY <1>3 DEF Settle, ScanParked, GoOn, Forget, StartProcessing
  <2> QED BY <2>1, RestIsOK
<1> QED BY <1>1, <1>2, <1>3

\* A step that keeps p's message, or forgets it, is of no concern unless
\* that is a scan.
LEMMA OtherText ==
  ASSUME IngestAssumption, NEW p \in Procs, msg[p] \notin Scans, msg'[p] \in {msg[p], Nobody}
  PROVE  CallOK(p)'
BY DEF CallOK, IngestAssumption, Scans

\* The plan of a scan before the row: a check-in at its instant.
LEMMA PlansCheckIn ==
  ASSUME IngestAssumption, NEW p \in Procs, msg[p] \in Scans, ScanPlan(p), pc[p] \in BeforeRow
  PROVE  /\ parsed[p] = RemapParsedByScanSlot("check_in", Text[msg[p]].masuk)
         /\ parsed[p].masuk = Text[msg[p]].masuk /\ parsed[p].pulang = 0
         /\ parsed[p].mulai = 0 /\ parsed[p].selesai = 0
<1>1. Text[msg[p]].masuk \in Nat \ {0}
  BY ScanText
<1>2. parsed[p].masuk # 0
  BY DEF ScanPlan
<1>3. PICK s \in Slots : parsed[p] = RemapParsedByScanSlot(s, Text[msg[p]].masuk)
  BY <1>2 DEF ScanPlan, NoTimes
<1>4. s = "check_in"
  BY <1>1, <1>2, <1>3, RemapFields
<1> QED BY <1>1, <1>3, <1>4, RemapFields

\* Once the check-in is recorded nothing else is asked of such a plan.
LEMMA CheckedIn ==
  ASSUME IngestAssumption, NEW p \in Procs, msg[p] \in Scans, ScanPlan(p), pc[p] \in BeforeRow,
         UNCHANGED <<msg, parsed>>, pc'[p] = "update", result'[p] = "ok",
         checkIn'[Emp(p)] = parsed[p].masuk
  PROVE  CallOK(p)'
<1> DEFINE e == Emp(p)
           i == Text[msg[p]].masuk
<1>1. /\ parsed[p] = RemapParsedByScanSlot("check_in", i)
      /\ parsed[p].masuk = i /\ parsed[p].pulang = 0
      /\ parsed[p].mulai = 0 /\ parsed[p].selesai = 0
  BY PlansCheckIn
<1>2. Emp(p)' = e /\ Text[msg'[p]].masuk = i
  BY DEF Emp
<1>3. Fits(e, i, parsed[p], pc[p])'
  BY <1>1, <1>2 DEF Fits
<1>4. ScanPlan(p)'
  BY <1>1, <1>2, <1>3 DEF ScanPlan, Slots, BeforeRow
<1> QED BY <1>4 DEF CallOK, Healthy, Planned, BeforeRow, Locked

LEMMA PlanningSteps ==
  ASSUME IngestAssumption, Types, Aware, CallsOK, NEW p \in Procs, msg[p] \in Scans,
         CrossCheck(p) \/ Reconcile(p)
  PROVE  CallOK(p)'
<1> DEFINE e == Emp(p)
           i == Text[msg[p]].masuk
<1>0. CallOK(p) /\ e \in Employees /\ i \in Nat \ {0} /\ msg[p] \in Messages
  BY ScanText DEF CallsOK, Emp
<1>1. CASE CrossCheck(p)
  <2>1. /\ pc[p] = "cross" /\ result[p] = "ok"
        /\ UNCHANGED <<msg, parsed, checkIn, checkOut, breaks, grid, saves>>
    BY <1>0, <1>1 DEF CrossCheck, CallOK, Healthy, Locked, callVars, dayVars, planVars, envVars
  <2>2. CASE CheckedInElsewhere(e)
    <3>1. pc'[p] = "unlock" /\ result'[p] = "duplicate"
      BY <1>1, <2>2 DEF CrossCheck, Throw, Goto, Types
    <3>2. CheckedInElsewhere(e)' /\ Emp(p)' = e
      BY <2>1, <2>2 DEF CheckedInElsewhere, Emp
    <3>3. SkipOK(p)'
      BY <3>1, <3>2 DEF SkipOK, Full
    <3> QED BY <3>1, <3>3 DEF CallOK, Healthy, Planned, BeforeRow
  <2>3. CASE ~CheckedInElsewhere(e)
    <3>1. AtRest(p)'
      BY <1>1, <2>1, <2>3 DEF CrossCheck, Goto, Types, AtRest
    <3> QED BY <3>1, RestIsOK
  <2> QED BY <2>2, <2>3
<1>2. CASE Reconcile(p)
  <2> DEFINE s == ScanSlotOf(msg[p])
             r == RemapParsedByScanSlot(s, i)
  <2>1. /\ pc[p] = "reconcile" /\ result[p] = "ok"
        /\ UNCHANGED <<msg, checkIn, checkOut, breaks, twoScan, grid, saves>>
    BY <1>0, <1>2 DEF Reconcile, CallOK, Healthy, Locked, callVars, dayVars, planVars, envVars
  <2>2. ReconcileParsedScan(msg[p]) = r /\ (AllSlotsFilled(msg[p]) <=> s = "full")
    BY <1>0, ScanText DEF ReconcileParsedScan, AllSlotsFilled
  <2>3. \/ s = "full" /\ checkIn[e] # 0 /\ checkOut[e] # 0 /\ ClosedBreaks(breaks[e]) # {}
        \/ s = "check_in" /\ (checkIn[e] = i \/ (checkIn[e] = 0 /\ ~Placed(e, i)))
        \/ s = "check_out" /\ (checkOut[e] = i \/ (checkIn[e] # 0 /\ RoomForOut(e) /\ ~Placed(e, i)))
        \/ s = "break_start" /\ \/ \E b \in breaks[e] : b.from = i
                                \/ checkIn[e] # 0 /\ breaks[e] = {} /\ ~Placed(e, i)
        \/ s = "break_end" /\ \/ \E b \in breaks[e] : b.to = i
                              \/ checkIn[e] # 0 /\ OpenBreaks(breaks[e]) # {} /\ ~Placed(e, i)
    BY SlotFits DEF Emp
  <2>4. Emp(p)' = e /\ (Placed(e, i)' <=> Placed(e, i)) /\ (RoomForOut(e)' <=> RoomForOut(e))
    BY <2>1 DEF Emp, Placed, RoomForOut
  <2> HIDE DEF s
  <2>5. CASE s = "full"
    <3>1. pc'[p] = "unlock" /\ result'[p] = "duplicate"
      BY <1>2, <2>2, <2>5 DEF Reconcile, Throw, Goto, Types
    <3>2. Full(e)'
      BY <2>1, <2>3, <2>4, <2>5 DEF Full
    <3>3. SkipOK(p)'
      BY <3>1, <3>2, <2>4 DEF SkipOK
    <3> QED BY <3>1, <3>3 DEF CallOK, Healthy, Planned, BeforeRow
  <2>6. CASE s # "full"
    <3> DEFINE t == IF BreakEnabled[e] THEN r ELSE DropBreakTimes(r)
    <3>1. s \in Slots
      BY <2>3, <2>6 DEF Slots
    <3>2. /\ r \in ParsedTimes
          /\ r.masuk   = (IF s = "check_in" THEN i ELSE 0)
          /\ r.pulang  = (IF s = "check_out" THEN i ELSE 0)
          /\ r.mulai   = (IF s = "break_start" THEN i ELSE 0)
          /\ r.selesai = (IF s = "break_end" THEN i ELSE 0)
      BY <1>0, RemapFields
    <3>3. parsed'[p] = t /\ result'[p] = "ok"
          /\ pc'[p] = (IF t.masuk # 0 THEN "checkin" ELSE "ensure")
      BY <1>2, <2>1, <2>2, <2>6 DEF Reconcile, Goto, Types
    <3> HIDE DEF r
    <3>4. \/ t = r
          \/ t = NoTimes /\ ~BreakEnabled[e]
      <4>1. CASE BreakEnabled[e]
        BY <4>1
      <4>2. ASSUME ~BreakEnabled[e] PROVE t = r \/ t = NoTimes
        <5>1. t = [masuk |-> r.masuk, pulang |-> r.pulang, mulai |-> 0, selesai |-> 0]
          BY <3>2, <4>2, DropFields
        <5>2. CASE s \in {"break_start", "break_end"}
          BY <3>2, <5>1, <5>2 DEF NoTimes
        <5>3. CASE s \in {"check_in", "check_out"}
          BY <3>2, <5>1, <5>3 DEF ParsedTimes
        <5> QED BY <3>1, <5>2, <5>3 DEF Slots
      <4> QED BY <4>1, <4>2
    <3>5. CASE t = NoTimes /\ ~BreakEnabled[e]
      <4>1. pc'[p] = "ensure" /\ parsed'[p] = NoTimes
        BY <3>3, <3>5 DEF NoTimes
      <4>2. ScanPlan(p)'
        BY <2>4, <3>5, <4>1 DEF ScanPlan, NoTimes, Fits, BeforeRow
      <4> QED BY <3>3, <4>1, <4>2 DEF CallOK, Healthy, Planned, BeforeRow, Locked
    <3>6. CASE t = r
      <4>1. /\ pc'[p] = (IF s = "check_in" THEN "checkin" ELSE "ensure")
            /\ parsed'[p] = r
        BY <1>0, <3>2, <3>3, <3>6
      <4>2. Fits(e, i, parsed[p], pc[p])'
        BY <1>0, <2>1, <2>3, <2>4, <3>2, <4>1 DEF Fits, BeforeRow
      <4>3. parsed'[p] = RemapParsedByScanSlot(s, Text[msg'[p]].masuk)
        BY <2>1, <4>1 DEF r
      <4>4. ScanPlan(p)'
        BY <1>0, <2>1, <2>4, <3>1, <3>2, <4>1, <4>2, <4>3 DEF ScanPlan, BeforeRow
      <4> QED BY <3>3, <4>1, <4>4 DEF CallOK, Healthy, Planned, BeforeRow, Locked
    <3> QED BY <3>4, <3>5, <3>6
  <2> QED BY <2>5, <2>6
<1> QED BY <1>1, <1>2

LEMMA SectionSteps ==
  ASSUME IngestAssumption, Types, Aware, CallsOK, NEW p \in Procs, msg[p] \in Scans,
         CheckIn(p) \/ TxRead(p) \/ TxCreate(p) \/ TxUpdate(p) \/ Ensure(p)
  PROVE  CallOK(p)'
<1> DEFINE e == Emp(p)
           i == Text[msg[p]].masuk
<1> USE DEF Goto, callVars
<1>0. CallOK(p) /\ e \in Employees /\ i \in Nat \ {0} /\ msg[p] \in Messages
  BY ScanText DEF CallsOK, Emp
<1>1. /\ pc[p] \in BeforeRow \cup {"ensure"} /\ result[p] = "ok" /\ ScanPlan(p)
      /\ UNCHANGED <<msg, checkOut, breaks, twoScan, grid, saves>>
  BY <1>0 DEF CheckIn, TxRead, TxCreate, TxUpdate, Ensure, CallOK, Healthy, Planned, BeforeRow,
              Locked, dayVars, planVars, envVars
<1>2. pc[p] \in BeforeRow => /\ parsed[p] = RemapParsedByScanSlot("check_in", i)
                             /\ parsed[p].masuk = i
  BY <1>1, PlansCheckIn
<1>3. Fits(e, i, parsed[p], pc[p]) /\ Emp(p)' = e
  BY <1>1 DEF ScanPlan, Emp
<1>4. ASSUME UNCHANGED <<parsed, checkIn>>, result'[p] = "ok",
             \/ pc[p] \in BeforeRow /\ pc'[p] \in BeforeRow
             \/ pc[p] = "ensure" /\ pc'[p] = "update"
      PROVE  CallOK(p)'
  <2>1. (Placed(e, i)' <=> Placed(e, i)) /\ (RoomForOut(e)' <=> RoomForOut(e))
    BY <1>1, <1>3, <1>4 DEF Placed, RoomForOut
  <2>2. Fits(e, i, parsed[p], pc[p])'
    BY <1>1, <1>3, <1>4, <2>1 DEF Fits, BeforeRow
  <2>3. ScanPlan(p)'
    BY <1>1, <1>3, <1>4, <2>2 DEF ScanPlan, BeforeRow
  <2> QED BY <1>4, <2>3 DEF CallOK, Healthy, Planned, BeforeRow, Locked
<1>5. CASE CheckIn(p)
  <2>1. pc[p] = "checkin" /\ UNCHANGED <<parsed, checkIn>>
    BY <1>5 DEF CheckIn, dayVars
  <2>2. CASE pc'[p] = "update" /\ UNCHANGED result /\ checkIn[e] = parsed[p].masuk
    BY <1>1, <1>3, <2>1, <2>2, CheckedIn DEF BeforeRow
  <2>3. CASE pc'[p] = "unlock" /\ result'[p] = "off_day" /\ grid[e] = "off"
    <3>1. SkipOK(p)'
      BY <1>1, <1>3, <2>3 DEF SkipOK
    <3> QED BY <2>3, <3>1 DEF CallOK, Healthy, Planned, BeforeRow
  <2>4. CASE pc'[p] = "unlock" /\ result'[p] = "pending_schedule"
    <3>1. AtRest(p)'
      BY <2>4 DEF AtRest, Refusals, Results
    <3> QED BY <3>1, RestIsOK
  <2>5. CASE pc'[p] = "txread" /\ UNCHANGED result
    BY <1>1, <1>4, <2>1, <2>5 DEF BeforeRow
  <2> QED BY <1>5, <2>2, <2>3, <2>4, <2>5 DEF CheckIn, IsDuplicateCheckIn, Throw, Types
<1>6. CASE TxRead(p)
  <2>1. pc[p] = "txread" /\ UNCHANGED checkIn
    BY <1>6 DEF TxRead, dayVars
  <2>2. checkIn[e] \in {0, parsed[p].masuk}
    BY <1>0, <1>2, <1>3, <2>1 DEF Fits, BeforeRow
  <2>3. UNCHANGED <<parsed, result>>
        /\ \/ checkIn[e] = 0 /\ pc'[p] \in {"txcreate", "txupdate"}
           \/ checkIn[e] = parsed[p].masuk /\ pc'[p] = "update"
    BY <1>6, <2>2 DEF TxRead, Types
  <2>4. CASE pc'[p] \in {"txcreate", "txupdate"}
    BY <1>1, <1>4, <2>1, <2>3, <2>4 DEF BeforeRow
  <2>5. CASE checkIn[e] = parsed[p].masuk /\ pc'[p] = "update"
    BY <1>1, <1>3, <2>1, <2>3, <2>5, CheckedIn DEF BeforeRow
  <2> QED BY <2>3, <2>4, <2>5
<1>7. CASE TxCreate(p)
  <2>1. UNCHANGED parsed /\ pc[p] = "txcreate"
        /\ \/ checkIn'[e] = parsed[p].masuk /\ pc'[p] = "update" /\ UNCHANGED result
           \/ pc'[p] = "unlock" /\ result'[p] = "db_error"
    BY <1>0, <1>7 DEF TxCreate, Throw, Types
  <2>2. CASE pc'[p] = "unlock" /\ result'[p] = "db_error"
    <3>1. AtRest(p)'
      BY <2>2 DEF AtRest, Refusals, Results
    <3> QED BY <3>1, RestIsOK
  <2> QED BY <1>1, <2>1, <2>2, CheckedIn DEF BeforeRow
<1>8. CASE TxUpdate(p)
  <2>1. UNCHANGED <<parsed, result>> /\ pc[p] = "txupdate"
        /\ checkIn'[e] = parsed[p].masuk /\ pc'[p] = "update"
    BY <1>0, <1>8 DEF TxUpdate, Types
  <2> QED BY <1>1, <2>1, CheckedIn DEF BeforeRow
<1>9. CASE Ensure(p)
  <2>1. UNCHANGED <<parsed, checkIn, result>> /\ pc[p] = "ensure" /\ pc'[p] = "update"
    BY <1>9 DEF Ensure, Types
  <2> QED BY <1>1, <1>4, <2>1
<1> QED BY <1>5, <1>6, <1>7, <1>8, <1>9

LEMMA UpdateStep ==
  ASSUME IngestAssumption, Types, Aware, CallsOK, NEW p \in Procs, msg[p] \in Scans, Update(p)
  PROVE  CallOK(p)'
<1> DEFINE e == Emp(p)
           i == Text[msg[p]].masuk
           t == parsed[p]
<1>0. CallOK(p) /\ e \in Employees /\ i \in Nat \ {0} /\ msg[p] \in Messages
  BY ScanText DEF CallsOK, Emp
<1>1. /\ pc[p] = "update" /\ result[p] = "ok" /\ ScanPlan(p)
      /\ UNCHANGED <<msg, parsed, checkIn, breaks, twoScan, grid, saves>>
  BY <1>0 DEF Update, CallOK, Healthy, Planned, BeforeRow, Locked, planVars, envVars, callVars
<1>2. Fits(e, i, t, "update") /\ Emp(p)' = e
  BY <1>1 DEF ScanPlan, Emp
<1>3. \/ t = NoTimes
      \/ \E s \in Slots :
           /\ t.masuk   = (IF s = "check_in" THEN i ELSE 0)
           /\ t.pulang  = (IF s = "check_out" THEN i ELSE 0)
           /\ t.mulai   = (IF s = "break_start" THEN i ELSE 0)
           /\ t.selesai = (IF s = "break_end" THEN i ELSE 0)
  BY <1>0, <1>1, RemapFields DEF ScanPlan
<1>4. t.pulang \in {0, i} /\ (t.pulang # 0 => checkOut[e] \in {0, i})
  BY <1>2, <1>3 DEF Fits, RoomForOut, NoTimes
<1>5. /\ pc' = [pc EXCEPT ![p] = "break"] /\ UNCHANGED result
      /\ checkOut' = [checkOut EXCEPT ![e] = IF t.pulang # 0 THEN i ELSE @]
  BY <1>0, <1>4 DEF Update, Goto, Types
<1>6. pc'[p] = "break" /\ result'[p] = "ok" /\ checkOut'[e] = (IF t.pulang # 0 THEN i ELSE checkOut[e])
  BY <1>0, <1>1, <1>5 DEF Types
<1>7. Fits(e, i, t, "break")'
  <2>1. t.pulang = 0 => (Placed(e, i)' <=> Placed(e, i))
    BY <1>1, <1>2, <1>6 DEF Placed
  <2>2. t.pulang # 0 => t.masuk = 0 /\ t.mulai = 0 /\ t.selesai = 0
    BY <1>0, <1>3 DEF NoTimes
  <2> QED BY <1>1, <1>2, <1>6, <2>1, <2>2 DEF Fits, BeforeRow
<1>8. ScanPlan(p)'
  BY <1>1, <1>2, <1>6, <1>7 DEF ScanPlan, BeforeRow
<1> QED BY <1>6, <1>8 DEF CallOK, Healthy, Planned, BeforeRow, Locked

LEMMA BreakLeaves ==
  ASSUME IngestAssumption, Types, Aware, OneOpenBreak, CallsOK, NEW p \in Procs,
         msg[p] \in Scans, BreakStep(p)
  PROVE  CallOK(p)'
<1> DEFINE e == Emp(p)
           i == Text[msg[p]].masuk
           t == parsed[p]
<1>0. CallOK(p) /\ e \in Employees /\ i \in Nat \ {0} /\ msg[p] \in Messages
  BY ScanText DEF CallsOK, Emp
<1>1. /\ pc[p] = "break" /\ result[p] = "ok" /\ ScanPlan(p)
      /\ UNCHANGED <<msg, checkIn, checkOut>>
  BY <1>0 DEF BreakStep, CallOK, Healthy, Planned, BeforeRow, Locked, callVars
<1>2. Fits(e, i, t, "break") /\ Emp(p)' = e
  BY <1>1 DEF ScanPlan, Emp
<1>3. ASSUME BreakEnabled[e]
      PROVE  \E s \in Slots :
               /\ t.masuk   = (IF s = "check_in" THEN i ELSE 0)
               /\ t.pulang  = (IF s = "check_out" THEN i ELSE 0)
               /\ t.mulai   = (IF s = "break_start" THEN i ELSE 0)
               /\ t.selesai = (IF s = "break_end" THEN i ELSE 0)
  BY <1>0, <1>1, <1>3, RemapFields DEF ScanPlan
<1>4. pc'[p] = "unlock" /\ result'[p] \in {"ok", "break_not_open"}
  BY <1>1 DEF BreakStep, CloseOpenBreakSession, Throw, Goto, Types
<1>5. ASSUME BreakEnabled[e], result'[p] = "ok" PROVE Placed(e, i)'
  <2>1. CASE checkIn[e] = i \/ checkOut[e] = i
    BY <1>1, <1>2, <2>1 DEF Placed
  <2>2. ASSUME checkIn[e] # i, checkOut[e] # i
        PROVE  \E b \in breaks'[e] : b.from = i \/ b.to = i
    <3>1. /\ t.mulai \in {0, i} /\ t.selesai \in {0, i} /\ t.mulai + t.selesai = i
          /\ BreakStarts(p) <=> t.mulai = i
          /\ BreakEnds(p) <=> t.selesai = i
      BY <1>0, <1>2, <1>3, <1>5, <2>2 DEF Fits, BeforeRow, BreakStarts, BreakEnds, Slots
    <3>2. CASE UNCHANGED breaks
               /\ \/ ~BreakStarts(p) /\ ~BreakEnds(p)
                  \/ BreakStarts(p) /\ \E b \in breaks[e] : b.from = t.mulai
                  \/ BreakEnds(p) /\ \E b \in breaks[e] : b.to = t.selesai
      BY <1>0, <3>1, <3>2
    <3>3. CASE BreakStarts(p) /\ OpenBreaks(breaks[e]) # {} /\ UNCHANGED breaks
      <4>1. \E b \in breaks[e] : b.from = i
        BY <1>0, <1>2, <3>1, <3>3 DEF Fits, OpenBreaks
      <4> QED BY <3>3, <4>1
    <3>4. ASSUME t.selesai # 0, NEW b \in OpenBreaks(breaks[e]), Closes(e, b, t.selesai)
          PROVE  \E c \in breaks'[e] : c.from = i \/ c.to = i
      <4>1. [from |-> b.from, to |-> t.selesai] \in breaks'[e]
        BY <1>0, <3>4 DEF Closes, Types
      <4> QED BY <3>1, <3>4, <4>1
    <3>5. CASE BreakStarts(p)
               /\ breaks' = [breaks EXCEPT ![e] = @ \cup {[from |-> t.mulai, to |-> t.selesai]}]
      <4>1. [from |-> t.mulai, to |-> t.selesai] \in breaks'[e]
        BY <1>0, <3>5 DEF Types
      <4> QED BY <3>1, <3>5, <4>1
    <3>6. result' # [result EXCEPT ![p] = "break_not_open"]
      BY <1>5 DEF Types
    <3>7. \/ /\ UNCHANGED breaks
             /\ \/ ~BreakStarts(p) /\ ~BreakEnds(p)
                \/ BreakStarts(p) /\ \E b \in breaks[e] : b.from = t.mulai
                \/ BreakEnds(p) /\ \E b \in breaks[e] : b.to = t.selesai
          \/ BreakStarts(p) /\ OpenBreaks(breaks[e]) # {} /\ UNCHANGED breaks
          \/ t.selesai # 0 /\ \E b \in OpenBreaks(breaks[e]) : Closes(e, b, t.selesai)
          \/ /\ BreakStarts(p)
             /\ breaks' = [breaks EXCEPT ![e] = @ \cup {[from |-> t.mulai, to |-> t.selesai]}]
      BY <3>6, BreakBranches
    <3> HIDE DEF e, t
    <3> QED BY <3>2, <3>3, <3>4, <3>5, <3>7
  <2> QED BY <1>1, <1>2, <2>1, <2>2 DEF Placed
<1>6. BreakEnabled[e] /\ result'[p] = "ok" => Recorded(msg[p])'
  BY <1>1, <1>2, <1>5 DEF Recorded, Emp
<1> QED BY <1>1, <1>2, <1>4, <1>6 DEF CallOK, SkipOK, Healthy, Planned, BeforeRow

LEMMA LeavingSteps ==
  ASSUME IngestAssumption, Types, Aware, CallsOK, NEW p \in Procs, msg[p] \in Scans,
         DayRests, Unlock(p) \/ LinkCheck(p)
  PROVE  CallOK(p)'
<1>0. CallOK(p) /\ Emp(p) \in Employees /\ UNCHANGED <<msg, result, grid, saves>>
  BY ScanText DEF CallsOK, Emp, Unlock, LinkCheck, callVars, planVars, envVars
<1>1. Emp(p)' = Emp(p) /\ (Recorded(msg[p]) => Recorded(msg[p])')
  BY <1>0 DEF Emp, DayRests, Recorded, Placed
<1>2. CASE Unlock(p)
  <2>1. pc[p] = "unlock" /\ pc'[p] = (IF result[p] = "ok" THEN "link" ELSE "catch")
    BY <1>2 DEF Unlock, Goto, Types
  <2>2. SkipOK(p) => SkipOK(p)'
    BY <1>0, <1>1 DEF DayRests, SkipOK, Full, CheckedInElsewhere
  <2> QED BY <1>0, <1>1, <2>1, <2>2 DEF CallOK, Healthy, Planned, BeforeRow, Locked
<1>3. CASE LinkCheck(p)
  <2>1. pc[p] = "link" /\ pc'[p] \in {"mark", "marklink"}
    BY <1>3 DEF LinkCheck, Goto, Types
  <2> QED BY <1>0, <1>1, <2>1 DEF CallOK, Healthy, Planned, BeforeRow, Locked
<1> QED BY <1>2, <1>3

LEMMA OutcomeSteps ==
  ASSUME IngestAssumption, Types, Aware, CallsOK, OutcomeOK, NEW p \in Procs,
         Grows, DayRests,
         \/ Mark(p) \/ Catch(p) \/ \E m \in Messages : Deliver(p, m)
  PROVE  OutcomeOK'
<1> USE DEF Types
<1> SUFFICES ASSUME NEW m \in Scans
             PROVE  /\ skipped'[m] = "duplicate" => Full(EmployeeOf[m])'
                    /\ sync'[m] = "processed" /\ skipped'[m] = "no" /\ BreakEnabled[EmployeeOf[m]]
                         => Recorded(m)'
  BY DEF OutcomeOK
<1> m \in Messages /\ EmployeeOf[m] \in Employees /\ Text[m].masuk \in Nat \ {0}
  BY ScanText
<1>1. /\ Full(EmployeeOf[m]) => Full(EmployeeOf[m])'
      /\ Recorded(m) => Recorded(m)'
  BY FullStays, PlacedStays DEF Grows, Recorded
<1>2. CASE skipped'[m] = skipped[m] /\ (sync'[m] = "processed" => sync[m] = "processed")
  BY <1>1, <1>2 DEF OutcomeOK
<1>3. CASE Mark(p) /\ m = msg[p]
  <2>1. BreakEnabled[EmployeeOf[m]] => Recorded(m)
    BY <1>3 DEF Mark, CallsOK, CallOK, Emp
  <2>2. \/ sync' = sync /\ skipped' = skipped
        \/ sync'[m] = "processed" /\ skipped'[m] = "no"
    BY <1>3 DEF Mark
  <2> QED BY <1>1, <1>2, <2>1, <2>2
<1>4. CASE Catch(p) /\ m = msg[p]
  <2>1. /\ skipped'[m] = IF result[p] \in {"duplicate", "off_day"} THEN result[p] ELSE "no"
        /\ sync'[m] = "processed" => result[p] \in {"duplicate", "off_day"}
    BY <1>4 DEF Catch
  <2>2. SkipOK(p)
    BY <1>4 DEF Catch, CallsOK, CallOK
  <2>3. skipped'[m] = "duplicate" => Full(EmployeeOf[m])
    BY <1>4, <2>1, <2>2 DEF SkipOK, Emp
  <2> QED BY <1>1, <2>1, <2>3
<1>5. CASE m # msg[p] /\ (Mark(p) \/ Catch(p))
  BY <1>2, <1>5 DEF Mark, Catch
<1>6. ASSUME NEW n \in Messages, Deliver(p, n)
      PROVE  skipped'[m] = skipped[m] /\ (sync'[m] = "processed" => sync[m] = "processed")
  BY <1>6 DEF Deliver
<1> QED BY <1>2, <1>3, <1>4, <1>5, <1>6
------------------------------------------------------------------------------
(* The invariant holds in every state.                                     *)

LEMMA InitIInv == ASSUME IngestAssumption PROVE Init => IInv
<1> SUFFICES ASSUME Init PROVE IInv
  OBVIOUS
<1>1. PInv
  BY InitPInv
<1>2. NoTimes \in ParsedTimes
  BY DEF NoTimes, ParsedTimes
<1>3. Types
  BY <1>2 DEF Init, Types, SyncStatuses, DayStatuses, Steps, Results, IngestAssumption
<1>4. Aware /\ OneOpenBreak /\ LeftHasOut
  BY DEF Init, Aware, GridSteps, OneOpenBreak, OpenBreaks, LeftHasOut
<1>5. CallsOK
  BY DEF Init, CallsOK, CallOK, Healthy, Planned, BeforeRow, Locked
<1>6. OutcomeOK
  <2> SUFFICES ASSUME NEW m \in Scans PROVE skipped[m] = "no" /\ sync[m] = "absent"
    BY DEF OutcomeOK
  <2> QED BY DEF Init, Scans
<1> QED BY <1>1, <1>3, <1>4, <1>5, <1>6 DEF IInv

LEMMA CallStep ==
  ASSUME IngestAssumption, IInv, NEW p \in Procs, Step(p) \/ Fault(p)
  PROVE  Frame(p) /\ CallOK(p)' /\ OutcomeOK'
<1> USE DEF IInv
<1>1. Frame(p)
  <2>1. CASE TxCreate(p) \/ TxUpdate(p) \/ Ensure(p) \/ Update(p) \/ SyncWrite(p)
    BY <2>1, RowFrame
  <2>2. CASE BreakStep(p)
    BY <2>2, BreakFrame
  <2> QED BY <2>1, <2>2, ArrivalFrame, SectionFrame, OutcomeFrame DEF Step
<1>2. CallOK(p)'
  <2>1. CASE msg[p] \in Scans
    <3>1. CASE Unlock(p) \/ LinkCheck(p)
      <4>1. DayRests
        BY <3>1, SectionFrame, OutcomeFrame
      <4> QED BY <2>1, <3>1, <4>1, LeavingSteps
    <3> QED BY <2>1, <3>1, RestingSteps, PlanningSteps, SectionSteps, UpdateStep, BreakLeaves
            DEF Step
  <2>2. CASE msg[p] \notin Scans /\ (Settle(p) \/ ScanParked(p) \/ ProcessInline(p))
    <3>1. CASE Settle(p) \/ ScanParked(p)
      BY <2>2, <3>1, StartingSteps
    <3>2. CASE ProcessInline(p)
      <4>1. AtRest(p)'
        BY <3>2 DEF ProcessInline, StartProcessing, Goto, AtRest, Types
      <4> QED BY <4>1, RestIsOK
    <3> QED BY <2>2, <3>1, <3>2
  <2>3. CASE msg[p] \notin Scans /\ ~(Settle(p) \/ ScanParked(p) \/ ProcessInline(p))
    <3>1. msg'[p] \in {msg[p], Nobody}
      <4> USE DEF callVars, Types
      <4>1. CASE EnqueueJob(p) \/ Fault(p)
        BY <4>1 DEF EnqueueJob, Fault, Forget
      <4>2. CASE Fetch(p) \/ Lock(p) \/ CheckSchedule(p) \/ CrossCheck(p) \/ Reconcile(p)
                 \/ CheckIn(p) \/ TxRead(p) \/ TxCreate(p) \/ TxUpdate(p)
        BY <4>2 DEF Fetch, Lock, CheckSchedule, CrossCheck, Reconcile, CheckIn, TxRead,
                    TxCreate, TxUpdate
      <4>3. CASE Ensure(p) \/ Update(p) \/ BreakStep(p) \/ Unlock(p) \/ LinkCheck(p)
                 \/ Mark(p) \/ Catch(p) \/ SyncRead(p) \/ SyncWrite(p)
        BY <4>3 DEF Ensure, Update, BreakStep, Unlock, LinkCheck, Mark, Catch, SyncRead,
                    SyncWrite
      <4> QED BY <2>3, <4>1, <4>2, <4>3 DEF Step
    <3> QED BY <2>3, <3>1, OtherText
  <2> QED BY <2>1, <2>2, <2>3
<1>3. OutcomeOK'
  <2>1. CASE Mark(p) \/ Catch(p)
    <3>1. Grows /\ DayRests
      BY <1>1, <2>1, OutcomeFrame DEF Frame
    <3> QED BY <2>1, <3>1, OutcomeSteps
  <2>2. CASE ~(Mark(p) \/ Catch(p))
    <3>1. UNCHANGED <<sync, skipped>>
      BY <2>2 DEF Step, EnqueueJob, ProcessInline, Fetch, Lock, CheckSchedule, CrossCheck,
                  Reconcile, CheckIn, TxRead, TxCreate, TxUpdate, Ensure, Update, BreakStep,
                  Unlock, LinkCheck, Settle, SyncRead, SyncWrite, ScanParked, Fault, msgVars
    <3> QED BY <1>1, <3>1, OutcomeKeeps DEF Frame
  <2> QED BY <2>1, <2>2
<1> QED BY <1>1, <1>2, <1>3

LEMMA NextIInv ==
  ASSUME Serialised, IngestAssumption, IInv, [Next]_vars
  PROVE  IInv'
<1>0. PInv'
  BY NextPInv DEF IInv
<1>1. ASSUME NEW p \in Procs, Frame(p), CallOK(p)', OutcomeOK' PROVE IInv'
  BY <1>0, <1>1, CallsKeep DEF IInv, Frame
<1>2. ASSUME NEW p \in Procs, Step(p) \/ Fault(p) PROVE IInv'
  BY <1>1, <1>2, CallStep
<1>3. ASSUME NEW a \in Procs, NEW m \in Messages, Deliver(a, m) \/ TakeJob(a, m) PROVE IInv'
  <2>1. Frame(a) /\ DayRests /\ CallOK(a)'
    BY <1>3, ArrivalFrame, StartingSteps DEF IInv
  <2>2. CASE Deliver(a, m)
    BY <1>1, <2>1, <2>2, OutcomeSteps DEF IInv, Frame
  <2>3. CASE TakeJob(a, m)
    <3>1. UNCHANGED <<sync, skipped>>
      BY <2>3 DEF TakeJob, msgVars
    <3>2. OutcomeOK'
      BY <2>1, <3>1, OutcomeKeeps DEF IInv, Frame
    <3> QED BY <1>1, <2>1, <3>2
  <2> QED BY <1>3, <2>2, <2>3
<1>4. ASSUME NEW a \in Procs, NEW e \in Employees, NEW cell \in {"none", "off", "work"},
             SaveGrid(a, e, cell)
      PROVE  IInv'
  <2>1. Frame(a) /\ CallOK(a)'
    BY <1>4, OutcomeFrame, StartingSteps DEF IInv
  <2>2. UNCHANGED <<sync, skipped>>
    BY <1>4 DEF SaveGrid, msgVars
  <2>3. OutcomeOK'
    BY <2>1, <2>2, OutcomeKeeps DEF IInv, Frame
  <2> QED BY <1>1, <2>1, <2>3
<1>5. CASE \/ \E e \in Employees : SubmitTwoScan(e) \/ ReviewTwoScan(e)
           \/ CloseWindow \/ Crash(Workers) \/ Crash(Apis) \/ UNCHANGED vars
  BY <1>0, <1>5, SurroundingFrame DEF IInv
<1> QED BY <1>2, <1>3, <1>4, <1>5 DEF Next, Procs
------------------------------------------------------------------------------
(* A day of bare scans is a ledger.                                        *)

\* The instant i fills the next slot of e's day.
FillsIn(e, i) ==
  /\ checkIn[e] = 0 /\ ~Placed(e, i)
  /\ checkIn' = [checkIn EXCEPT ![e] = i] /\ UNCHANGED <<checkOut, breaks>>

FillsOut(e, i) ==
  /\ checkIn[e] # 0 /\ RoomForOut(e) /\ ~Placed(e, i)
  /\ checkOut' = [checkOut EXCEPT ![e] = i] /\ UNCHANGED <<checkIn, breaks>>

FillsStart(e, i) ==
  /\ checkIn[e] # 0 /\ breaks[e] = {} /\ ~Placed(e, i)
  /\ breaks' = [breaks EXCEPT ![e] = {[from |-> i, to |-> 0]}]
  /\ UNCHANGED <<checkIn, checkOut>>

FillsEnd(e, i) ==
  /\ checkIn[e] # 0 /\ ~Placed(e, i)
  /\ \E b \in OpenBreaks(breaks[e]) : Closes(e, b, i)
  /\ UNCHANGED <<checkIn, checkOut>>

Fills(e, i) == FillsIn(e, i) \/ FillsOut(e, i) \/ FillsStart(e, i) \/ FillsEnd(e, i)

\* A step of a call on a scan fills the next slot with it, or none.
LEMMA ScanFills ==
  ASSUME IngestAssumption, IInv, NEW p \in Procs, msg[p] \in Scans,
         \/ TxCreate(p) \/ TxUpdate(p) \/ Update(p) \/ BreakStep(p)
  PROVE  \/ UNCHANGED <<checkIn, checkOut, breaks>>
         \/ Fills(Emp(p), Text[msg[p]].masuk)
<1> DEFINE e == Emp(p)
           i == Text[msg[p]].masuk
           t == parsed[p]
<1> USE DEF IInv
<1>0. CallOK(p) /\ e \in Employees /\ i \in Nat \ {0} /\ t \in ParsedTimes
  BY ScanText DEF CallsOK, Emp, Types
<1>1. pc[p] \in Planned /\ ScanPlan(p)
  BY <1>0 DEF TxCreate, TxUpdate, Update, BreakStep, CallOK, Planned, BeforeRow
<1>2. Fits(e, i, t, pc[p])
  BY <1>1 DEF ScanPlan
<1>3. \/ t = NoTimes
      \/ \E s \in Slots :
           /\ t.masuk   = (IF s = "check_in" THEN i ELSE 0)
           /\ t.pulang  = (IF s = "check_out" THEN i ELSE 0)
           /\ t.mulai   = (IF s = "break_start" THEN i ELSE 0)
           /\ t.selesai = (IF s = "break_end" THEN i ELSE 0)
  BY <1>0, <1>1, RemapFields DEF ScanPlan
<1>4. CASE TxCreate(p) \/ TxUpdate(p)
  <2>1. t.masuk = i /\ pc[p] \in BeforeRow
    BY <1>1, <1>4, PlansCheckIn DEF TxCreate, TxUpdate, BeforeRow
  <2>2. TxUpdate(p) \/ status[e] = "none" => checkIn[e] = 0
    BY <1>0 DEF TxUpdate, PInv, StillBlank, HasRow
  <2>3. checkIn[e] = 0 => ~Placed(e, i)
    BY <1>0, <1>2, <2>1 DEF Fits
  <2>4. \/ UNCHANGED <<checkIn, checkOut, breaks>>
        \/ FillsIn(e, i)
    BY <1>4, <2>1, <2>2, <2>3 DEF TxCreate, TxUpdate, FillsIn
  <2> QED BY <2>4 DEF Fills
<1>5. CASE Update(p)
  <2>1. t.pulang \in {0, i}
    BY <1>3 DEF NoTimes
  <2>2. \/ UNCHANGED checkOut
        \/ t.pulang = i /\ checkOut[e] # i /\ checkOut' = [checkOut EXCEPT ![e] = i]
    BY <1>0, <1>5, <2>1 DEF Update, Types
  <2>3. UNCHANGED <<checkIn, breaks>> /\ pc[p] = "update"
    BY <1>5 DEF Update
  <2>4. t.pulang = i /\ checkOut[e] # i => checkIn[e] # 0 /\ RoomForOut(e) /\ ~Placed(e, i)
    BY <1>0, <1>2 DEF Fits
  <2> QED BY <2>2, <2>3, <2>4 DEF Fills, FillsOut
<1>6. CASE BreakStep(p)
  <2>1. UNCHANGED <<checkIn, checkOut>>
    BY <1>6 DEF BreakStep
  <2>2. \/ t.mulai = 0 /\ t.selesai = 0
        \/ t.mulai = i /\ t.selesai = 0
        \/ t.mulai = 0 /\ t.selesai = i
    BY <1>3 DEF NoTimes, Slots
  <2>3. \/ UNCHANGED breaks
        \/ t.selesai # 0 /\ \E b \in OpenBreaks(breaks[e]) : Closes(e, b, t.selesai)
        \/ /\ t.mulai # 0 /\ OpenBreaks(breaks[e]) = {}
           /\ breaks' = [breaks EXCEPT ![e] = @ \cup {[from |-> t.mulai, to |-> t.selesai]}]
    BY <1>6, BreakBranches DEF BreakStarts
  <2>4. ASSUME ~(UNCHANGED breaks) PROVE \/ t.selesai = 0
                                          \/ ~\E b \in breaks[e] : b.to = i
    <3>1. \/ ~BreakStarts(p) /\ ~BreakEnds(p)
          \/ BreakStarts(p) /\ ~\E b \in breaks[e] : b.from = t.mulai
          \/ BreakEnds(p) /\ ~\E b \in breaks[e] : b.to = t.selesai
      BY <1>6, <2>4 DEF BreakStep, BreakStarts, BreakEnds
    <3>2. BreakStarts(p) \/ BreakEnds(p)
      BY <1>6, <2>4, BreakBranches
    <3> QED BY <1>0, <2>2, <3>1, <3>2 DEF BreakStarts, BreakEnds
  <2>5. ASSUME ~(UNCHANGED breaks) PROVE \/ t.mulai = 0
                                          \/ ~\E b \in breaks[e] : b.from = i
    <3>1. \/ ~BreakStarts(p) /\ ~BreakEnds(p)
          \/ BreakStarts(p) /\ ~\E b \in breaks[e] : b.from = t.mulai
          \/ BreakEnds(p) /\ ~\E b \in breaks[e] : b.to = t.selesai
      BY <1>6, <2>5 DEF BreakStep, BreakStarts, BreakEnds
    <3>2. BreakStarts(p) \/ BreakEnds(p)
      BY <1>6, <2>5, BreakBranches
    <3> QED BY <1>0, <2>2, <3>1, <3>2 DEF BreakStarts, BreakEnds
  <2>6. CASE t.selesai # 0 /\ ~(UNCHANGED breaks)
    <3>1. checkIn[e] # 0 /\ ~Placed(e, i) /\ t.selesai = i /\ t.mulai = 0
      BY <1>0, <1>2, <2>2, <2>4, <2>6 DEF Fits
    <3> QED BY <2>1, <2>3, <2>6, <3>1 DEF Fills, FillsEnd
  <2>7. CASE t.mulai # 0 /\ ~(UNCHANGED breaks)
    <3>1. checkIn[e] # 0 /\ breaks[e] = {} /\ ~Placed(e, i) /\ t.selesai = 0 /\ t.mulai = i
      BY <1>0, <1>2, <2>2, <2>5, <2>7 DEF Fits
    <3>2. breaks' = [breaks EXCEPT ![e] = @ \cup {[from |-> i, to |-> 0]}]
      BY <2>3, <2>7, <3>1
    <3>3. breaks' = [breaks EXCEPT ![e] = {[from |-> i, to |-> 0]}]
      BY <3>1, <3>2
    <3> QED BY <2>1, <3>1, <3>3 DEF Fills, FillsStart
  <2> QED BY <2>1, <2>3, <2>6, <2>7
<1> QED BY <1>4, <1>5, <1>6

LEMMA InOrderStays ==
  ASSUME Types, NEW e \in Employees, NEW i \in Nat \ {0}, Fills(e, i),
         \A d \in Employees : InOrder(d)
  PROVE  \A d \in Employees : InOrder(d)'
<1> SUFFICES ASSUME NEW d \in Employees PROVE InOrder(d)'
  OBVIOUS
<1> USE DEF InOrder, Types
<1>1. CASE FillsIn(e, i)
  BY <1>1 DEF FillsIn, Placed
<1>2. CASE FillsOut(e, i)
  BY <1>2 DEF FillsOut, Placed, RoomForOut
<1>3. CASE FillsStart(e, i)
  BY <1>3 DEF FillsStart, Placed
<1>4. CASE FillsEnd(e, i)
  <2>1. PICK b \in OpenBreaks(breaks[e]) : Closes(e, b, i)
    BY <1>4 DEF FillsEnd
  <2>2. b \in breaks[e] /\ b.to = 0 /\ b.from \in Nat \ {0} /\ breaks[e] = {b}
    BY <2>1 DEF OpenBreaks, BreakSession
  <2>3. breaks'[e] = {[from |-> b.from, to |-> i]} /\ (d # e => breaks'[d] = breaks[d])
    BY <2>1, <2>2 DEF Closes
  <2> QED BY <1>4, <2>2, <2>3 DEF FillsEnd, Placed
<1> QED BY <1>1, <1>2, <1>3, <1>4 DEF Fills

\* Whatever the step, the day of one employee gains one scan's instant or
\* all days rest; an approval may come meanwhile, and is never taken back.
LEMMA DayGains ==
  ASSUME IngestAssumption, IInv, OnlyScans, [Next]_vars
  PROVE  \/ /\ UNCHANGED <<checkIn, checkOut, breaks>>
            /\ \/ UNCHANGED twoScan
               \/ \E e \in Employees, verdict \in {"pending", "approved", "none"} :
                    /\ twoScan[e] \in {"none", "pending"}
                    /\ twoScan' = [twoScan EXCEPT ![e] = verdict]
         \/ /\ \E m \in Messages : Fills(EmployeeOf[m], Text[m].masuk)
            /\ UNCHANGED twoScan
<1> USE DEF dayVars, planVars, IInv
<1>1. ASSUME NEW p \in Procs, Step(p) \/ Fault(p)
      PROVE  \/ UNCHANGED <<checkIn, checkOut, breaks, twoScan>>
             \/ /\ \E m \in Messages : Fills(EmployeeOf[m], Text[m].masuk)
                /\ UNCHANGED twoScan
  <2>1. CASE TxCreate(p) \/ TxUpdate(p) \/ Update(p) \/ BreakStep(p)
    <3>1. msg[p] \in Messages /\ msg[p] \in Scans
      BY <2>1 DEF TxCreate, TxUpdate, Update, BreakStep, Aware, GridSteps, OnlyScans
    <3>2. UNCHANGED twoScan
      BY <2>1 DEF TxCreate, TxUpdate, Update, BreakStep
    <3>3. UNCHANGED <<checkIn, checkOut, breaks>> \/ Fills(Emp(p), Text[msg[p]].masuk)
      BY <2>1, <3>1, ScanFills
    <3> QED BY <3>1, <3>2, <3>3 DEF Emp
  <2>2. CASE ~(TxCreate(p) \/ TxUpdate(p) \/ Update(p) \/ BreakStep(p))
    BY <1>1, <2>2 DEF Step, EnqueueJob, ProcessInline, Fetch, Lock, CheckSchedule, CrossCheck,
        Reconcile, CheckIn, TxRead, Ensure, Unlock, LinkCheck, Mark, Catch, Settle, SyncRead,
        SyncWrite, ScanParked, Fault
  <2> QED BY <2>1, <2>2
<1>2. ASSUME NEW a, NEW m, Deliver(a, m) \/ TakeJob(a, m)
      PROVE  UNCHANGED <<checkIn, checkOut, breaks, twoScan>>
  BY <1>2 DEF Deliver, TakeJob
<1>3. ASSUME NEW a, NEW e, NEW cell, SaveGrid(a, e, cell)
      PROVE  UNCHANGED <<checkIn, checkOut, breaks, twoScan>>
  BY <1>3 DEF SaveGrid
<1>4. ASSUME NEW e \in Employees, SubmitTwoScan(e) \/ ReviewTwoScan(e)
      PROVE  /\ UNCHANGED <<checkIn, checkOut, breaks>>
             /\ \/ UNCHANGED twoScan
                \/ \E verdict \in {"pending", "approved", "none"} :
                     /\ twoScan[e] \in {"none", "pending"}
                     /\ twoScan' = [twoScan EXCEPT ![e] = verdict]
  BY <1>4 DEF SubmitTwoScan, ReviewTwoScan
<1>5. CASE CloseWindow \/ Crash(Workers) \/ Crash(Apis) \/ UNCHANGED vars
  BY <1>5 DEF CloseWindow, Crash, vars
<1> QED BY <1>1, <1>2, <1>3, <1>4, <1>5 DEF Next

LEMMA NextLInv ==
  ASSUME IngestAssumption, IInv, LInv, [Next]_vars
  PROVE  LInv'
<1> SUFFICES ASSUME OnlyScans, \A e \in Employees : InOrder(e)
             PROVE  \A e \in Employees : InOrder(e)'
  BY DEF LInv, OnlyScans
<1>1. CASE UNCHANGED <<checkIn, checkOut, breaks>>
  BY <1>1 DEF InOrder
<1>2. ASSUME NEW m \in Messages, Fills(EmployeeOf[m], Text[m].masuk)
      PROVE  \A e \in Employees : InOrder(e)'
  <2>1. m \in Scans
    BY DEF OnlyScans
  <2>2. EmployeeOf[m] \in Employees /\ Text[m].masuk \in Nat \ {0}
    BY <2>1, ScanText
  <2> QED BY <1>2, <2>2, InOrderStays DEF IInv
<1> QED BY <1>1, <1>2, DayGains

LEMMA InitLInv == Init => LInv
BY DEF Init, LInv, InOrder
------------------------------------------------------------------------------
(* The theorems.                                                           *)

LEMMA UsesWhatIsPlaced ==
  ASSUME NEW e, NEW i, Placed(e, i)
  PROVE  Uses(e, i) # {}
<1>1. checkIn[e] = i => <<"check_in", 0>> \in Uses(e, i)
  BY DEF Uses
<1>2. checkOut[e] = i => <<"check_out", 0>> \in Uses(e, i)
  BY DEF Uses
<1>3. \A b \in breaks[e] : b.from = i => <<"break_start", b.from>> \in Uses(e, i)
  BY DEF Uses
<1>4. \A b \in breaks[e] : b.to = i => <<"break_end", b.from>> \in Uses(e, i)
  BY DEF Uses
<1> QED BY <1>1, <1>2, <1>3, <1>4 DEF Placed

LEMMA AtMostOne ==
  ASSUME NEW S, \A x, y \in S : x = y
  PROVE  Cardinality(S) <= 1
<1>1. CASE S = {}
  BY <1>1, FS_EmptySet
<1>2. ASSUME NEW x \in S PROVE Cardinality(S) <= 1
  <2>1. S = {x}
    OBVIOUS
  <2> QED BY <2>1, FS_Singleton
<1> QED BY <1>1, <1>2

LEMMA UsedOnce ==
  ASSUME Types, NEW e \in Employees, InOrder(e), NEW i \in Nat \ {0}
  PROVE  Cardinality(Uses(e, i)) <= 1
<1>1. \A u, v \in Uses(e, i) : u = v
  <2>1. \A u \in Uses(e, i) :
          \/ u = <<"check_in", 0>> /\ checkIn[e] = i
          \/ u = <<"check_out", 0>> /\ checkOut[e] = i
          \/ \E b \in breaks[e] : u = <<"break_start", b.from>> /\ b.from = i
          \/ \E b \in breaks[e] : u = <<"break_end", b.from>> /\ b.to = i
    BY DEF Uses
  <2>2. \A b, c \in breaks[e] : b = c
    BY DEF InOrder
  <2>3. \A b \in breaks[e] : b.from # checkIn[e] /\ b.from # checkOut[e] /\ b.from # b.to
    BY DEF InOrder
  <2>4. \A b \in breaks[e] : b.to = i => i # checkIn[e] /\ i # checkOut[e]
    BY DEF InOrder
  <2>5. checkIn[e] = i => checkOut[e] # i
    BY DEF InOrder
  <2> QED BY <2>1, <2>2, <2>3, <2>4, <2>5
<1> QED BY <1>1, AtMostOne

LEMMA AlwaysIInv == ASSUME IngestAssumption PROVE Serialised /\ Spec => [](IInv /\ LInv)
<1>1. ASSUME Serialised, IInv /\ LInv, [Next]_vars PROVE (IInv /\ LInv)'
  BY <1>1, NextIInv, NextLInv
<1>2. Init => IInv /\ LInv
  BY InitIInv, InitLInv
<1>3. ASSUME Serialised PROVE Spec => [](IInv /\ LInv)
  BY <1>1, <1>2, <1>3, PTL DEF Spec
<1> QED BY <1>3

(* At most one break of a day is open and a day is left only with its      *)
(* check-out time, whatever named events and bare scans, retries, crashes  *)
(* and grid saves arrive in whatever order.                                *)
THEOREM DayStaysConsistent == Serialised /\ Spec => []DayIsConsistent
<1>1. ASSUME IInv PROVE DayIsConsistent
  <2> SUFFICES ASSUME NEW e \in Employees
               PROVE  Cardinality(OpenBreaks(breaks[e])) <= 1 /\ (status[e] = "left" => checkOut[e] # 0)
    BY DEF DayIsConsistent
  <2>1. Cardinality(OpenBreaks(breaks[e])) <= 1
    BY <1>1, AtMostOne DEF IInv, OneOpenBreak
  <2> QED BY <1>1, <2>1 DEF IInv, LeftHasOut
<1> QED BY <1>1, AlwaysIInv, IngestAssumption, PTL

(* A scan is given up as a duplicate only when its account has checked in  *)
(* at another branch or its day has all four times: what was found under   *)
(* the lock is written when it is gone (processTelegramMessageById's catch *)
(* block), and no retry, crash or grid save makes it untrue.               *)
THEOREM SkipsAreRight == Serialised /\ Spec => []SkippedOnlyWhenFull
<1>1. ASSUME IInv PROVE SkippedOnlyWhenFull
  BY <1>1 DEF IInv, OutcomeOK, SkippedOnlyWhenFull, Full
<1> QED BY <1>1, AlwaysIInv, IngestAssumption, PTL

(* Where breaks are recorded, a scan that ends as processed has left its   *)
(* instant in the day: what was decided under the lock is what the row     *)
(* holds when the message is marked, many steps after the lock is gone.    *)
THEOREM NothingIsDropped ==
  Serialised /\ (\A e \in Employees : BreakEnabled[e]) /\ Spec => []ProcessedIsRecorded
<1>1. ASSUME \A e \in Employees : BreakEnabled[e], IInv PROVE ProcessedIsRecorded
  <2> SUFFICES ASSUME NEW m \in Scans, sync[m] = "processed", skipped[m] = "no"
               PROVE  Uses(EmployeeOf[m], Text[m].masuk) # {}
    BY DEF ProcessedIsRecorded
  <2>1. BreakEnabled[EmployeeOf[m]]
    BY <1>1, IngestAssumption, ScanText
  <2>2. Placed(EmployeeOf[m], Text[m].masuk)
    BY <1>1, <2>1 DEF IInv, OutcomeOK, Recorded
  <2> QED BY <2>2, UsesWhatIsPlaced
<1>2. ASSUME \A e \in Employees : BreakEnabled[e] PROVE Serialised /\ Spec => []ProcessedIsRecorded
  BY <1>1, <1>2, AlwaysIInv, IngestAssumption, PTL
<1> QED BY <1>2

(* A bare scan fills at most one slot of the day, however often it is      *)
(* delivered, retried after a failure between two writes, or reported by   *)
(* two channels as two messages.                                           *)
THEOREM OneSlotPerScan == Serialised /\ OnlyScans /\ Spec => []ScanFillsOneSlot
<1>1. ASSUME OnlyScans, IInv, LInv PROVE ScanFillsOneSlot
  <2> SUFFICES ASSUME NEW m \in Scans
               PROVE  Cardinality(Uses(EmployeeOf[m], Text[m].masuk)) <= 1
    BY DEF ScanFillsOneSlot
  <2>1. EmployeeOf[m] \in Employees /\ Text[m].masuk \in Nat \ {0}
    BY IngestAssumption, ScanText
  <2> QED BY <1>1, <2>1, UsedOnce DEF LInv, IInv
<1>2. ASSUME OnlyScans PROVE Serialised /\ Spec => []ScanFillsOneSlot
  BY <1>1, <1>2, AlwaysIInv, IngestAssumption, PTL
<1> QED BY <1>2

\* The slots of a day with the given times.
SlotValue(in, out, brks, s) ==
  LET first == CHOOSE b \in brks : TRUE
  IN  CASE s = "check_in"    -> in
        [] s = "break_start" -> IF brks = {} THEN 0 ELSE first.from
        [] s = "break_end"   -> IF brks = {} THEN 0 ELSE first.to
        [] s = "check_out"   -> out

SlotsFrom(in, out, brks) == [s \in Slots |-> SlotValue(in, out, brks, s)]

LEMMA SlotValues ==
  ASSUME NEW in, NEW out, NEW brks
  PROVE  LET d == SlotsFrom(in, out, brks)
         IN  /\ DOMAIN d = Slots
             /\ d["check_in"] = in /\ d["check_out"] = out
             /\ brks = {} => d["break_start"] = 0 /\ d["break_end"] = 0
             /\ \A b : brks = {b} => d["break_start"] = b.from /\ d["break_end"] = b.to
<1> DEFINE d == SlotsFrom(in, out, brks)
<1>1. /\ DOMAIN d = Slots
      /\ d["check_in"] = in /\ d["check_out"] = out
      /\ d["break_start"] = (IF brks = {} THEN 0 ELSE (CHOOSE b \in brks : TRUE).from)
      /\ d["break_end"] = (IF brks = {} THEN 0 ELSE (CHOOSE b \in brks : TRUE).to)
  BY DEF SlotsFrom, SlotValue, Slots
<1>2. ASSUME NEW b, brks = {b} PROVE (CHOOSE c \in brks : TRUE) = b
  BY <1>2
<1> QED BY <1>1, <1>2

LEMMA FillIsLedgerStep ==
  ASSUME IngestAssumption, Types, \A d \in Employees : InOrder(d), NEW m \in Scans,
         Fills(EmployeeOf[m], Text[m].masuk), UNCHANGED twoScan
  PROVE  Ledger!Next
<1> DEFINE e == EmployeeOf[m]
           i == Text[m].masuk
           day == SlotsFrom(checkIn[e], checkOut[e], breaks[e])
           next == SlotsFrom(checkIn'[e], checkOut'[e], breaks'[e])
<1>0. /\ e \in Employees /\ i \in Nat \ {0} /\ m \in Messages
      /\ checkIn[e] \in Nat /\ checkOut[e] \in Nat /\ breaks[e] \subseteq BreakSession
      /\ InOrder(e) /\ Fills(e, i)
  BY ScanText DEF Types
<1> HIDE DEF e, i
<1>1. /\ day["check_in"] = checkIn[e] /\ day["check_out"] = checkOut[e]
      /\ breaks[e] = {} => day["break_start"] = 0 /\ day["break_end"] = 0
      /\ \A b : breaks[e] = {b} => day["break_start"] = b.from /\ day["break_end"] = b.to
      /\ next["check_in"] = checkIn'[e] /\ next["check_out"] = checkOut'[e]
      /\ breaks'[e] = {} => next["break_start"] = 0 /\ next["break_end"] = 0
      /\ \A b : breaks'[e] = {b} => next["break_start"] = b.from /\ next["break_end"] = b.to
  BY SlotValues
<1> HIDE DEF day, next
<1>2. ~Placed(e, i)
  BY <1>0 DEF Fills, FillsIn, FillsOut, FillsStart, FillsEnd
<1>3. \A q \in Slots : day[q] # i
  <2>1. \/ breaks[e] = {}
        \/ \E b \in breaks[e] : breaks[e] = {b}
    BY <1>0 DEF InOrder
  <2> QED BY <1>0, <1>1, <1>2, <2>1 DEF Placed, Slots
<1>4. \A d \in Employees \ {e} :
        checkIn'[d] = checkIn[d] /\ checkOut'[d] = checkOut[d] /\ breaks'[d] = breaks[d]
  BY <1>0 DEF Fills, FillsIn, FillsOut, FillsStart, FillsEnd, Closes, Types
<1>5. \E s \in Slots :
        /\ day[s] = 0
        /\ \/ \A b \in Ledger!Before(s) : day[b] # 0
           \/ s = "check_out" /\ twoScan[e] = "approved" /\ day["check_in"] # 0
              /\ day["break_start"] = 0
        /\ \A q \in Slots : next[q] = IF q = s THEN i ELSE day[q]
  <2>1. CASE FillsIn(e, i)
    <3>1. day["check_in"] = 0 /\ checkIn'[e] = i /\ checkOut'[e] = checkOut[e]
          /\ breaks'[e] = breaks[e] /\ breaks[e] = {}
      BY <1>0, <1>1, <2>1 DEF FillsIn, Types, InOrder
    <3>2. Ledger!Before("check_in") = {}
      BY DEF Ledger!Before
    <3> QED BY <1>1, <3>1, <3>2 DEF Slots
  <2>2. CASE FillsOut(e, i)
    <3>1. day["check_out"] = 0 /\ checkIn'[e] = checkIn[e] /\ checkOut'[e] = i
          /\ breaks'[e] = breaks[e] /\ checkIn[e] # 0
      BY <1>0, <1>1, <2>2 DEF FillsOut, Types, RoomForOut
    <3>2. CASE breaks[e] = {} /\ twoScan[e] = "approved"
      BY <1>1, <3>1, <3>2 DEF Slots
    <3>3. ASSUME NEW b \in breaks[e], breaks[e] = {b}, b \notin OpenBreaks(breaks[e])
          PROVE  \E s \in Slots :
                   /\ day[s] = 0
                   /\ \A q \in Ledger!Before(s) : day[q] # 0
                   /\ \A q \in Slots : next[q] = IF q = s THEN i ELSE day[q]
      <4>1. b.from # 0 /\ b.to # 0
        BY <1>0, <3>3 DEF OpenBreaks, BreakSession
      <4>2. Ledger!Before("check_out") = {"check_in", "break_start", "break_end"}
        BY DEF Ledger!Before
      <4> QED BY <1>1, <3>1, <3>3, <4>1, <4>2 DEF Slots
    <3>4. \/ breaks[e] = {} /\ twoScan[e] = "approved"
          \/ \E b \in breaks[e] : breaks[e] = {b} /\ b \notin OpenBreaks(breaks[e])
      BY <1>0, <2>2 DEF FillsOut, RoomForOut, InOrder
    <3> QED BY <3>2, <3>3, <3>4
  <2>3. CASE FillsStart(e, i)
    <3>1. checkIn'[e] = checkIn[e] /\ checkOut'[e] = checkOut[e] /\ checkIn[e] # 0
          /\ breaks[e] = {} /\ breaks'[e] = {[from |-> i, to |-> 0]}
      BY <1>0, <2>3 DEF FillsStart, Types
    <3>2. Ledger!Before("break_start") = {"check_in"}
      BY DEF Ledger!Before
    <3>3. next["break_start"] = i /\ next["break_end"] = 0
      <4>1. PICK n : n = [from |-> i, to |-> 0]
        OBVIOUS
      <4>2. breaks'[e] = {n} /\ n.from = i /\ n.to = 0
        BY <3>1, <4>1
      <4> QED BY <1>1, <4>2
    <3> QED BY <1>1, <3>1, <3>2, <3>3 DEF Slots
  <2>4. CASE FillsEnd(e, i)
    <3>1. PICK b \in OpenBreaks(breaks[e]) : Closes(e, b, i)
      BY <2>4 DEF FillsEnd
    <3>2. b \in breaks[e] /\ b.to = 0 /\ b.from # 0 /\ breaks[e] = {b}
      BY <1>0, <3>1 DEF OpenBreaks, BreakSession, InOrder
    <3>3. checkIn'[e] = checkIn[e] /\ checkOut'[e] = checkOut[e] /\ checkIn[e] # 0
          /\ breaks'[e] = {[from |-> b.from, to |-> i]}
      BY <1>0, <2>4, <3>1, <3>2 DEF FillsEnd, Closes, Types
    <3>4. Ledger!Before("break_end") = {"check_in", "break_start"}
      BY DEF Ledger!Before
    <3>5. /\ next["break_start"] = b.from /\ next["break_end"] = i
          /\ day["break_start"] = b.from /\ day["break_end"] = 0
      <4>1. PICK n : n = [from |-> b.from, to |-> i]
        OBVIOUS
      <4>2. breaks'[e] = {n} /\ n.from = b.from /\ n.to = i
        BY <3>3, <4>1
      <4> QED BY <1>1, <3>2, <4>2
    <3> QED BY <1>1, <3>2, <3>3, <3>4, <3>5 DEF Slots
  <2> QED BY <1>0, <2>1, <2>2, <2>3, <2>4 DEF Fills
<1>6. PICK s \in Slots :
        /\ day[s] = 0
        /\ \/ \A b \in Ledger!Before(s) : day[b] # 0
           \/ s = "check_out" /\ twoScan[e] = "approved" /\ day["check_in"] # 0
              /\ day["break_start"] = 0
        /\ \A q \in Slots : next[q] = IF q = s THEN i ELSE day[q]
  BY <1>5
<1>7. next = [day EXCEPT ![s] = i]
  <2>1. next = [q \in Slots |-> next[q]] /\ day = [q \in Slots |-> day[q]]
    BY DEF SlotsFrom, day, next
  <2> QED BY <1>6, <2>1
<1> DEFINE slots == [d \in Employees |-> SlotsFrom(checkIn[d], checkOut[d], breaks[d])]
<1>8. slots[e] = day /\ slots' = [slots EXCEPT ![e] = next]
  BY <1>0, <1>4 DEF day, next
<1>9. slots = [d \in Employees |-> SlotsOf(d)]
  BY DEF SlotsFrom, SlotValue, SlotsOf
<1>10. slots' = [d \in Employees |-> SlotsOf(d)']
  BY DEF SlotsFrom, SlotValue, SlotsOf
<1> HIDE DEF slots
<1>11. slots' = [slots EXCEPT ![e][s] = i]
  BY <1>0, <1>7, <1>8
<1>12. i \in {Text[n].masuk : n \in {k \in Messages : EmployeeOf[k] = e}}
  BY <1>0 DEF e, i
<1>13. Ledger!IsNext(e, s)
  <2>1. [d \in Employees |-> SlotsOf(d)][e] = day
    BY <1>8, <1>9
  <2>2. [d \in Employees |-> twoScan[d] = "approved"][e] <=> twoScan[e] = "approved"
    BY <1>0
  <2> QED BY <1>6, <2>1, <2>2 DEF Ledger!IsNext
<1>14. \A q \in Ledger!Slots : [d \in Employees |-> SlotsOf(d)][e][q] # i
  BY <1>3, <1>8, <1>9 DEF Ledger!Slots, Slots
<1>15. [d \in Employees |-> SlotsOf(d)]' = [[d \in Employees |-> SlotsOf(d)] EXCEPT ![e][s] = i]
  <2>1. [d \in Employees |-> SlotsOf(d)]' = slots'
    BY <1>10
  <2> QED BY <1>9, <1>11, <2>1
<1>16. Ledger!Fill(e, s, i)
  BY <1>0, <1>12, <1>13, <1>14, <1>15 DEF Ledger!Fill
<1>17. s \in Ledger!Slots
  BY DEF Ledger!Slots, Slots
<1> QED BY <1>0, <1>12, <1>16, <1>17 DEF Ledger!Next

LEMMA LedgerInit == Init => Ledger!Init
<1> SUFFICES ASSUME Init PROVE Ledger!Init
  OBVIOUS
<1>1. ASSUME NEW e \in Employees PROVE SlotsOf(e) = Ledger!Empty /\ (twoScan[e] = "approved") = FALSE
  <2>1. checkIn[e] = 0 /\ checkOut[e] = 0 /\ breaks[e] = {} /\ twoScan[e] = "none"
    BY DEF Init
  <2> QED BY <2>1 DEF SlotsOf, Ledger!Empty, Ledger!Slots, Slots
<1> QED BY <1>1 DEF Ledger!Init

LEMMA LedgerStep ==
  ASSUME IngestAssumption, IInv, LInv, OnlyScans, [Next]_vars
  PROVE  \/ Ledger!Next
         \/ UNCHANGED <<[e \in Employees |-> SlotsOf(e)],
                        [e \in Employees |-> twoScan[e] = "approved"]>>
<1> USE DEF IInv
<1>1. CASE UNCHANGED <<checkIn, checkOut, breaks, twoScan>>
  BY <1>1 DEF SlotsOf
<1>2. ASSUME UNCHANGED <<checkIn, checkOut, breaks>>, NEW e \in Employees,
             NEW verdict \in {"pending", "approved", "none"},
             twoScan[e] \in {"none", "pending"},
             twoScan' = [twoScan EXCEPT ![e] = verdict]
      PROVE  \/ Ledger!Next
             \/ UNCHANGED <<[d \in Employees |-> SlotsOf(d)],
                            [d \in Employees |-> twoScan[d] = "approved"]>>
  <2>1. UNCHANGED [d \in Employees |-> SlotsOf(d)]
    BY <1>2 DEF SlotsOf
  <2>2. CASE verdict # "approved"
    <3>1. \A d \in Employees : (twoScan'[d] = "approved") = (twoScan[d] = "approved")
      BY <1>2, <2>2 DEF Types
    <3>2. UNCHANGED [d \in Employees |-> twoScan[d] = "approved"]
      BY <3>1
    <3> QED BY <2>1, <3>2
  <2>3. CASE verdict = "approved"
    <3>1. \A d \in Employees : (twoScan'[d] = "approved") = (IF d = e THEN TRUE ELSE twoScan[d] = "approved")
      BY <1>2, <2>3 DEF Types
    <3>2. [d \in Employees |-> twoScan[d] = "approved"]'
            = [[d \in Employees |-> twoScan[d] = "approved"] EXCEPT ![e] = TRUE]
      BY <3>1
    <3>3. ~[d \in Employees |-> twoScan[d] = "approved"][e]
      BY <1>2
    <3>4. Ledger!Shorten(e)
      BY <2>1, <3>2, <3>3 DEF Ledger!Shorten
    <3> QED BY <3>4 DEF Ledger!Next
  <2> QED BY <2>2, <2>3
<1>3. ASSUME NEW m \in Messages, Fills(EmployeeOf[m], Text[m].masuk), UNCHANGED twoScan
      PROVE  Ledger!Next
  <2>1. m \in Scans /\ \A d \in Employees : InOrder(d)
    BY DEF OnlyScans, LInv
  <2> QED BY <1>3, <2>1, FillIsLedgerStep
<1> QED BY <1>1, <1>2, <1>3, DayGains

(* The pipeline, with its queue, lock, retries and crashes, implements the *)
(* day ledger: a day of bare scans is four slots that are filled in order, *)
(* each with an instant that is in no other, and never rewritten.          *)
THEOREM LedgerIsImplemented == Serialised /\ OnlyScans /\ Spec => ImplementsLedger
<1>1. ASSUME OnlyScans, IInv /\ LInv, [Next]_vars
      PROVE  \/ Ledger!Next
             \/ UNCHANGED <<[e \in Employees |-> SlotsOf(e)],
                            [e \in Employees |-> twoScan[e] = "approved"]>>
  BY <1>1, IngestAssumption, LedgerStep
<1>2. ASSUME OnlyScans PROVE Serialised /\ Spec => ImplementsLedger
  BY <1>1, <1>2, LedgerInit, AlwaysIInv, IngestAssumption, PTL
     DEF Spec, ImplementsLedger, Ledger!Spec
<1> QED BY <1>2
------------------------------------------------------------------------------
(* One account, one day.                                                   *)

\* The check for another branch is behind the call, the check-in before it.
Cleared == {"reconcile"} \cup BeforeRow

Apart ==
  \A p, q \in Procs :
    p # q /\ pc[p] \in Locked /\ pc[q] \in Locked => Account[Emp(p)] # Account[Emp(q)]

StillClear ==
  \A p \in Procs :
    pc[p] \in Cleared /\ Emp(p) \in Employees => ~CheckedInElsewhere(Emp(p))

AInv == Shape /\ StillClear /\ OneCheckInPerAccount

\* Only the call p moves, and it is not among those that StillClear is about
\* unless it was.
Harmless(p) ==
  /\ DOMAIN pc' = Procs /\ DOMAIN msg' = Procs /\ DOMAIN fresh' = Procs
  /\ \A q \in Procs \ {p} : pc'[q] = pc[q] /\ msg'[q] = msg[q]
  /\ pc'[p] \in Cleared => pc[p] \in Cleared /\ msg'[p] = msg[p]
  /\ UNCHANGED <<checkIn, checkOut>> /\ DOMAIN status' = Employees

LEMMA HarmlessStep ==
  ASSUME AInv, NEW p \in Procs, Harmless(p)
  PROVE  AInv'
<1>1. Shape'
  BY DEF AInv, Shape, Harmless
<1>2. StillClear'
  BY DEF AInv, StillClear, Harmless, Emp, CheckedInElsewhere
<1>3. OneCheckInPerAccount'
  BY DEF AInv, OneCheckInPerAccount, Harmless
<1> QED BY <1>1, <1>2, <1>3 DEF AInv

LEMMA HarmlessSteps ==
  ASSUME AInv, NEW p \in Procs,
         \/ \E m \in Messages : Deliver(p, m) \/ TakeJob(p, m)
         \/ EnqueueJob(p) \/ ProcessInline(p) \/ Fetch(p) \/ Lock(p) \/ CheckSchedule(p)
         \/ Reconcile(p) \/ CheckIn(p) \/ TxRead(p) \/ Ensure(p) \/ Update(p)
         \/ BreakStep(p) \/ Unlock(p) \/ LinkCheck(p) \/ Mark(p) \/ Catch(p) \/ Settle(p)
         \/ SyncRead(p) \/ SyncWrite(p) \/ ScanParked(p) \/ Fault(p)
         \/ \E e \in Employees, cell \in {"none", "off", "work"} : SaveGrid(p, e, cell)
  PROVE  AInv'
<1> USE DEF callVars, dayVars, Harmless, Cleared, BeforeRow, Goto, AInv, Shape
<1>1. ASSUME NEW m \in Messages, Deliver(p, m) \/ TakeJob(p, m) PROVE Harmless(p)
  BY <1>1 DEF Deliver, TakeJob, StartProcessing
<1>2. CASE EnqueueJob(p) \/ ProcessInline(p)
  <2>1. Harmless(p)
    BY <1>2 DEF EnqueueJob, ProcessInline, Forget, StartProcessing
  <2> QED BY <2>1, HarmlessStep
<1>3. CASE Fetch(p) \/ Lock(p) \/ CheckSchedule(p)
  <2>1. Harmless(p)
    BY <1>3 DEF Fetch, Lock, CheckSchedule, Throw
  <2> QED BY <2>1, HarmlessStep
<1>4. CASE Reconcile(p) \/ CheckIn(p)
  <2>1. Harmless(p)
    BY <1>4 DEF Reconcile, CheckIn, Throw
  <2> QED BY <2>1, HarmlessStep
<1>5. CASE TxRead(p)
  <2>1. Harmless(p)
    BY <1>5 DEF TxRead, Throw
  <2> QED BY <2>1, HarmlessStep
<1>6. CASE Ensure(p) \/ SyncWrite(p) \/ SyncRead(p)
  <2>1. Harmless(p)
    BY <1>6 DEF Ensure, SyncWrite, SyncRead
  <2> QED BY <2>1, HarmlessStep
<1>8. CASE BreakStep(p)
  <2>1. UNCHANGED <<msg, fresh, checkIn, checkOut, status>> /\ pc' = [pc EXCEPT ![p] = "unlock"]
    BY <1>8 DEF BreakStep, CloseOpenBreakSession, Throw
  <2>2. Harmless(p)
    BY <2>1
  <2> QED BY <2>2, HarmlessStep
<1>9. CASE Unlock(p) \/ LinkCheck(p) \/ Mark(p) \/ Catch(p)
  <2>1. Harmless(p)
    BY <1>9 DEF Unlock, LinkCheck, Mark, Catch
  <2> QED BY <2>1, HarmlessStep
<1>10. CASE Settle(p) \/ ScanParked(p)
  <2>1. Harmless(p)
    BY <1>10 DEF Settle, ScanParked, GoOn, Forget, StartProcessing
  <2> QED BY <2>1, HarmlessStep
<1>11. CASE Fault(p)
  <2>1. Harmless(p)
    BY <1>11 DEF Fault, Throw, Forget
  <2> QED BY <2>1, HarmlessStep
<1>12. ASSUME NEW e \in Employees, NEW cell \in {"none", "off", "work"}, SaveGrid(p, e, cell)
       PROVE  Harmless(p)
  BY <1>12 DEF SaveGrid
<1>13. CASE Update(p)
  <2>1. /\ DOMAIN pc' = Procs /\ DOMAIN checkOut' = Employees /\ DOMAIN status' = Employees
        /\ \A q \in Procs \ {p} : pc'[q] = pc[q]
        /\ pc'[p] \in {"unlock", "break"} /\ UNCHANGED <<msg, fresh, checkIn>>
    BY <1>13 DEF Update, Throw
  <2>2. Shape'
    BY <2>1
  <2>3. StillClear' /\ OneCheckInPerAccount'
    BY <2>1 DEF StillClear, OneCheckInPerAccount, Emp, CheckedInElsewhere
  <2> QED BY <2>2, <2>3
<1> QED BY <1>1, <1>2, <1>3, <1>4, <1>5, <1>6, <1>8, <1>9, <1>10, <1>11, <1>12, <1>13,
           HarmlessStep

LEMMA ClearingStep ==
  ASSUME AInv, NEW p \in Procs, CrossCheck(p)
  PROVE  AInv'
<1>1. /\ UNCHANGED <<msg, fresh, checkIn, checkOut, status>>
      /\ \/ pc' = [pc EXCEPT ![p] = "unlock"]
         \/ pc' = [pc EXCEPT ![p] = "reconcile"] /\ ~CheckedInElsewhere(Emp(p))
  BY DEF CrossCheck, Throw, Goto, callVars, dayVars
<1>2. Shape' /\ OneCheckInPerAccount'
  BY <1>1 DEF AInv, Shape, OneCheckInPerAccount
<1>3. StillClear'
  BY <1>1 DEF AInv, Shape, StillClear, Cleared, BeforeRow, Emp, CheckedInElsewhere
<1> QED BY <1>2, <1>3 DEF AInv

LEMMA CheckInStep ==
  ASSUME AInv, Apart, NEW p \in Procs, TxCreate(p) \/ TxUpdate(p)
  PROVE  AInv'
<1> DEFINE e == Emp(p)
<1>1. /\ UNCHANGED <<msg, fresh, checkOut>> /\ pc[p] \in Cleared \cap Locked
      /\ DOMAIN checkIn' = Employees /\ DOMAIN status' = Employees /\ DOMAIN pc' = Procs
      /\ \A q \in Procs \ {p} : pc'[q] = pc[q]
      /\ pc'[p] \in {"unlock", "update"}
      /\ \A d \in Employees : d # e => checkIn'[d] = checkIn[d]
  BY DEF TxCreate, TxUpdate, Throw, Goto, callVars, Cleared, BeforeRow, Locked, AInv, Shape
<1>2. e \in Employees => ~CheckedInElsewhere(e)
  BY <1>1 DEF AInv, StillClear
<1>3. Shape'
  BY <1>1 DEF AInv, Shape
<1>4. OneCheckInPerAccount'
  BY <1>1, <1>2 DEF AInv, OneCheckInPerAccount, CheckedInElsewhere
<1>5. StillClear'
  <2> SUFFICES ASSUME NEW q \in Procs, pc'[q] \in Cleared, Emp(q)' \in Employees
               PROVE  ~CheckedInElsewhere(Emp(q))'
    BY <1>1 DEF StillClear, Emp
  <2>1. q # p /\ pc[q] \in Cleared /\ pc[q] \in Locked
    BY <1>1 DEF Cleared, BeforeRow, Locked
  <2>2. Emp(q)' = Emp(q) /\ Emp(q) \in Employees
    BY <1>1 DEF Emp
  <2>3. Account[Emp(q)] # Account[e]
    BY <1>1, <2>1 DEF Apart
  <2>4. ~CheckedInElsewhere(Emp(q))
    BY <2>1, <2>2 DEF AInv, StillClear
  <2> QED BY <1>1, <2>2, <2>3, <2>4 DEF CheckedInElsewhere
<1> QED BY <1>3, <1>4, <1>5 DEF AInv

LEMMA NextAInv ==
  ASSUME AInv, Apart, [Next]_vars
  PROVE  AInv'
<1>1. ASSUME NEW p \in Procs, Step(p) \/ Fault(p) PROVE AInv'
  BY <1>1, HarmlessSteps, ClearingStep, CheckInStep DEF Step
<1>2. ASSUME NEW a \in Procs, NEW m \in Messages, Deliver(a, m) \/ TakeJob(a, m) PROVE AInv'
  BY <1>2, HarmlessSteps
<1>3. ASSUME NEW a \in Procs, NEW e \in Employees, NEW cell \in {"none", "off", "work"},
             SaveGrid(a, e, cell)
      PROVE  AInv'
  BY <1>3, HarmlessSteps
<1>4. ASSUME NEW e \in Employees, SubmitTwoScan(e) \/ ReviewTwoScan(e) PROVE AInv'
  BY <1>4 DEF SubmitTwoScan, ReviewTwoScan, procVars, callVars, dayVars, AInv, Shape,
              StillClear, OneCheckInPerAccount, Emp, CheckedInElsewhere
<1>5. CASE CloseWindow \/ UNCHANGED vars
  BY <1>5 DEF CloseWindow, vars, procVars, callVars, dayVars, AInv, Shape,
              StillClear, OneCheckInPerAccount, Emp, CheckedInElsewhere
<1>6. ASSUME NEW group, Crash(group) PROVE AInv'
  <2>1. /\ UNCHANGED <<checkIn, checkOut, status>>
        /\ pc' = [p \in Procs |-> IF p \in group THEN "idle" ELSE pc[p]]
        /\ msg' = [p \in Procs |-> IF p \in group THEN Nobody ELSE msg[p]]
        /\ fresh' = [p \in Procs |-> IF p \in group THEN "none" ELSE fresh[p]]
    BY <1>6 DEF Crash, Without, dayVars
  <2> QED BY <2>1 DEF AInv, Shape, StillClear, OneCheckInPerAccount, Emp, CheckedInElsewhere,
                      Cleared, BeforeRow
<1> QED BY <1>1, <1>2, <1>3, <1>4, <1>5, <1>6 DEF Next, Procs

LEMMA InitAInv == Init => AInv
BY DEF Init, AInv, Shape, StillClear, Cleared, BeforeRow, OneCheckInPerAccount

(* An account checks in at one branch a day whenever no two calls are in   *)
(* the locked section for one account.  The code's lock is of an employee, *)
(* not of an account, and does not give that: the theorem says what would. *)
THEOREM OneCheckInIfApart == Spec /\ []Apart => []OneCheckInPerAccount
<1>1. AInv /\ Apart /\ [Next]_vars => AInv'
  BY NextAInv
<1>2. AInv => OneCheckInPerAccount
  BY DEF AInv
<1> QED BY <1>1, <1>2, InitAInv, PTL DEF Spec

\* One call at a time.
OneProcess == \A p, q \in Procs : p = q

(* When calls come one at a time no lock is needed for it: an account      *)
(* checks in at one branch a day (findCrossBranchAttendanceOnDate).        *)
THEOREM OneCheckInWhenSerial == OneProcess /\ Spec => []OneCheckInPerAccount
<1>1. OneProcess => Apart
  BY DEF OneProcess, Apart
<1>2. ASSUME OneProcess PROVE Spec => []OneCheckInPerAccount
  BY <1>1, <1>2, OneCheckInIfApart, PTL
<1> QED BY <1>2
------------------------------------------------------------------------------
(* A message parked on a day that has a shift is on its way out.           *)

\* The steps between fetching a message and recording its outcome.
Processing == {"fetch", "lock", "link", "mark", "marklink", "catch"} \cup Locked

Waking(m) ==
  \E p \in Procs :
    \/ pc[p] \in GridSteps /\ saved[p] = EmployeeOf[m]
    \/ pc[p] \in Processing /\ msg[p] = m
    \/ m \in todo[p]

Overdue(m) == sync[m] = "pending_schedule" /\ grid[EmployeeOf[m]] = "work"

WInv ==
  /\ \A m \in Messages : Overdue(m) => Waking(m)
  /\ \A p \in Procs : pc[p] \in GridSteps \cup {"idle", "enqueue"} => todo[p] = {}
  /\ \A p \in Procs : pc[p] \in {"unlock", "catch"} /\ result[p] = "pending_schedule" =>
       grid[Emp(p)] # "work"
  /\ \A p \in Procs : pc[p] \in Healthy => result[p] = "ok"
  /\ faults \in Nat /\ crashes \in Nat

\* Steps of the process p that leave the messages and the grid as they are.
Passes(p) ==
  /\ UNCHANGED <<sync, grid, todo>>
  /\ \/ pc'[p] \in Processing /\ pc[p] \in Processing /\ UNCHANGED msg
     \/ pc'[p] \in GridSteps /\ pc[p] \in GridSteps /\ UNCHANGED saved
     \/ pc[p] \in {"idle", "enqueue"} /\ pc'[p] \in {"idle", "enqueue", "fetch"}
  /\ pc'[p] \in {"unlock", "catch"} /\ result'[p] = "pending_schedule" => grid[Emp(p)] # "work"
  /\ pc'[p] \in Healthy => result'[p] = "ok"
  /\ faults' \in Nat /\ crashes' \in Nat

LEMMA PassKeeps ==
  ASSUME OneProcess, WInv, NEW p \in Procs, Passes(p)
  PROVE  WInv'
<1>1. \A q \in Procs : q = p
  BY DEF OneProcess
<1>2. ASSUME NEW m \in Messages, Overdue(m)' PROVE Waking(m)'
  <2>1. Waking(m)
    BY <1>2 DEF WInv, Overdue, Passes
  <2>2. pc[p] \notin {"idle", "enqueue"}
    BY <1>1, <2>1 DEF WInv, Waking, GridSteps, Processing, Locked
  <2>3. \/ pc[p] \in GridSteps /\ saved[p] = EmployeeOf[m]
        \/ pc[p] \in Processing /\ msg[p] = m
        \/ m \in todo[p]
    BY <1>1, <2>1 DEF Waking
  <2>4. GridSteps \cap Processing = {}
    BY DEF GridSteps, Processing, Locked
  <2> QED BY <2>2, <2>3, <2>4 DEF Passes, Waking
<1>3. \A q \in Procs : pc'[q] \in GridSteps \cup {"idle", "enqueue"} => todo'[q] = {}
  <2>1. Processing \cap (GridSteps \cup {"idle", "enqueue"}) = {}
    BY DEF GridSteps, Processing, Locked
  <2> QED BY <1>1, <2>1 DEF WInv, Passes
<1>4. \A q \in Procs : pc'[q] \in {"unlock", "catch"} /\ result'[q] = "pending_schedule" =>
        grid'[Emp(q)'] # "work"
  <2> SUFFICES ASSUME pc'[p] \in {"unlock", "catch"}, result'[p] = "pending_schedule"
               PROVE  grid'[Emp(p)'] # "work"
    BY <1>1
  <2>1. UNCHANGED msg
    BY DEF Passes, GridSteps
  <2> QED BY <2>1 DEF Passes, Emp
<1>5. \A q \in Procs : pc'[q] \in Healthy => result'[q] = "ok"
  BY <1>1 DEF Passes
<1> QED BY <1>2, <1>3, <1>4, <1>5 DEF WInv, Passes, Overdue, Emp

LEMMA PassSteps ==
  ASSUME IngestAssumption, Types, Aware, OneProcess, WInv, NEW p \in Procs,
         \/ EnqueueJob(p) \/ ProcessInline(p) \/ Fetch(p) \/ Lock(p) \/ CheckSchedule(p)
         \/ CrossCheck(p) \/ Reconcile(p) \/ CheckIn(p) \/ TxRead(p) \/ TxCreate(p)
         \/ TxUpdate(p) \/ Ensure(p) \/ Update(p) \/ BreakStep(p) \/ Unlock(p) \/ LinkCheck(p)
         \/ SyncRead(p) \/ SyncWrite(p) \/ \E m \in Messages : TakeJob(p, m)
  PROVE  WInv' \/ (Fetch(p) /\ sync[msg[p]] = "processed")
<1> USE DEF Goto, msgVars, planVars, callVars, envVars, Processing, Locked, GridSteps, WInv, Types, Healthy
<1>0. \A q \in Procs : q = p
  BY DEF OneProcess
<1>1. CASE EnqueueJob(p) \/ ProcessInline(p)
  <2>1. Passes(p)
    BY <1>1 DEF EnqueueJob, ProcessInline, Forget, StartProcessing, Passes
  <2> QED BY <2>1, PassKeeps
<1>2. ASSUME NEW m \in Messages, TakeJob(p, m) PROVE Passes(p)
  BY <1>2 DEF TakeJob, StartProcessing, Passes
<1>3. CASE Fetch(p) /\ sync[msg[p]] # "processed"
  <2>1. Passes(p)
    BY <1>3 DEF Fetch, Passes
  <2> QED BY <2>1, PassKeeps
<1>4. CASE Lock(p) \/ CrossCheck(p) \/ Reconcile(p)
  <2>1. Passes(p)
    BY <1>4 DEF Lock, CrossCheck, Reconcile, Throw, Passes
  <2> QED BY <2>1, PassKeeps
<1>5. CASE CheckSchedule(p)
  <2>1. /\ UNCHANGED <<sync, grid, todo, msg, faults, crashes>> /\ pc[p] = "check"
        /\ \/ pc' = [pc EXCEPT ![p] = "unlock"] /\ result' = [result EXCEPT ![p] = "out_of_range"]
           \/ /\ pc' = [pc EXCEPT ![p] = "unlock"] /\ grid[Emp(p)] = "none"
              /\ result' = [result EXCEPT ![p] = "pending_schedule"]
           \/ pc' = [pc EXCEPT ![p] = "cross"] /\ UNCHANGED result
    BY <1>5 DEF CheckSchedule, Throw
  <2>2. Passes(p)
    BY <2>1 DEF Passes
  <2> QED BY <2>2, PassKeeps
<1>6. CASE CheckIn(p)
  <2>1. Passes(p)
    BY <1>6 DEF CheckIn, Throw, Passes
  <2> QED BY <2>1, PassKeeps
<1>7. CASE TxRead(p)
  <2>1. Passes(p)
    BY <1>7 DEF TxRead, Throw, Passes
  <2> QED BY <2>1, PassKeeps
<1>8. CASE TxCreate(p) \/ TxUpdate(p) \/ Ensure(p)
  <2>1. Passes(p)
    BY <1>8 DEF TxCreate, TxUpdate, Ensure, Throw, Passes
  <2> QED BY <2>1, PassKeeps
<1>9. CASE Update(p)
  <2>1. Passes(p)
    BY <1>9 DEF Update, Throw, Passes
  <2> QED BY <2>1, PassKeeps
<1>10. CASE Unlock(p) \/ LinkCheck(p)
  <2>1. Passes(p)
    BY <1>10 DEF Unlock, LinkCheck, Passes, Emp
  <2> QED BY <2>1, PassKeeps
<1>11. CASE SyncRead(p) \/ SyncWrite(p)
  <2>1. Passes(p)
    BY <1>11 DEF SyncRead, SyncWrite, Passes
  <2> QED BY <2>1, PassKeeps
<1>12. CASE BreakStep(p)
  <2>1. /\ UNCHANGED <<sync, grid, todo, msg, faults, crashes>> /\ pc[p] = "break"
        /\ pc'[p] = "unlock" /\ result' \in {result, [result EXCEPT ![p] = "break_not_open"]}
    BY <1>12 DEF BreakStep, CloseOpenBreakSession, Throw
  <2>2. Passes(p)
    BY <2>1 DEF Passes
  <2> QED BY <2>2, PassKeeps
<1> QED BY <1>1, <1>2, <1>3, <1>4, <1>5, <1>6, <1>7, <1>8, <1>9, <1>10, <1>11, <1>12, PassKeeps
        DEF Fetch

\* A message's outcome is recorded, or it is found processed.
LEMMA OutcomeWakes ==
  ASSUME IngestAssumption, Types, Aware, OneProcess, WInv, NEW p \in Procs,
         \/ Mark(p) \/ Catch(p) \/ (Fetch(p) /\ sync[msg[p]] = "processed")
  PROVE  WInv'
<1> USE DEF Goto, msgVars, planVars, callVars, envVars, Types
<1>0. /\ \A q \in Procs : q = p
      /\ pc[p] \in Processing /\ msg[p] \in Messages
  BY DEF OneProcess, Mark, Catch, Fetch, Processing, Aware, GridSteps
<1>1. /\ UNCHANGED <<grid, todo, msg, faults, crashes>>
      /\ pc'[p] \in {"settle", "lock", "catch"}
      /\ pc'[p] = "lock" => UNCHANGED <<sync, result>> /\ pc[p] = "fetch"
      /\ pc'[p] = "catch" => UNCHANGED sync /\ result'[p] = "db_error"
      /\ \A m \in Messages : m # msg[p] => sync'[m] = sync[m]
      /\ pc'[p] = "settle" /\ sync'[msg[p]] = "pending_schedule" =>
           pc[p] = "catch" /\ result[p] = "pending_schedule"
  <2>1. CASE Mark(p)
    BY <1>0, <2>1 DEF Mark
  <2>2. CASE Catch(p)
    BY <1>0, <2>2 DEF Catch
  <2>3. CASE Fetch(p) /\ sync[msg[p]] = "processed"
    BY <1>0, <2>3 DEF Fetch
  <2> QED BY <2>1, <2>2, <2>3
<1>2. ASSUME NEW m \in Messages, Overdue(m)' PROVE Waking(m)'
  <2>1. CASE pc'[p] \in {"lock", "catch"}
    <3>1. Waking(m)
      BY <1>1, <1>2, <2>1 DEF WInv, Overdue
    <3>2. msg[p] = m \/ m \in todo[p]
      BY <1>0, <3>1 DEF Waking, Processing, GridSteps, Locked
    <3> QED BY <1>1, <2>1, <3>2 DEF Waking, Processing, Locked
  <2>2. CASE pc'[p] = "settle" /\ m # msg[p]
    <3>1. Waking(m)
      BY <1>1, <1>2, <2>2 DEF WInv, Overdue
    <3>2. m \in todo[p]
      BY <1>0, <2>2, <3>1 DEF Waking, Processing, GridSteps, Locked
    <3> QED BY <1>1, <3>2 DEF Waking
  <2>3. CASE pc'[p] = "settle" /\ m = msg[p]
    <3>1. pc[p] = "catch" /\ result[p] = "pending_schedule"
      BY <1>1, <1>2, <2>3 DEF Overdue
    <3>2. grid[Emp(p)] # "work"
      BY <3>1 DEF WInv
    <3> QED BY <1>1, <1>2, <2>3, <3>2 DEF Overdue, Emp
  <2> QED BY <1>1, <2>1, <2>2, <2>3
<1>3. \A q \in Procs :
        /\ pc'[q] \in GridSteps \cup {"idle", "enqueue"} => todo'[q] = {}
        /\ pc'[q] \in {"unlock", "catch"} /\ result'[q] = "pending_schedule" =>
             grid'[Emp(q)'] # "work"
        /\ pc'[q] \in Healthy => result'[q] = "ok"
  BY <1>0, <1>1 DEF WInv, GridSteps, Healthy, Locked
<1> QED BY <1>1, <1>2, <1>3 DEF WInv, Overdue, Emp

LEMMA LoopWakes ==
  ASSUME IngestAssumption, Types, Aware, OneProcess, WInv, NEW p \in Procs,
         Settle(p) \/ ScanParked(p)
  PROVE  WInv'
<1> USE DEF Goto, msgVars, planVars, callVars, envVars, Types
<1>0. \A q \in Procs : q = p
  BY DEF OneProcess
<1> DEFINE rest == IF pc[p] = "settle" THEN todo[p] ELSE Parked(saved[p])
<1>1. GoOn(p, rest) /\ UNCHANGED <<sync, grid, faults, crashes>> /\ pc[p] \in {"settle", "scan"}
  BY DEF Settle, ScanParked
<1>2. \A m \in Messages : Overdue(m) => m \in rest
  <2> SUFFICES ASSUME NEW m \in Messages, Overdue(m) PROVE m \in rest
    OBVIOUS
  <2>1. Waking(m)
    BY DEF WInv
  <2>2. CASE pc[p] = "settle"
    BY <1>0, <2>1, <2>2 DEF Waking, GridSteps, Processing, Locked
  <2>3. CASE pc[p] = "scan"
    <3>1. todo[p] = {}
      BY <2>3 DEF WInv, GridSteps
    <3>2. saved[p] = EmployeeOf[m]
      BY <1>0, <2>1, <2>3, <3>1 DEF Waking, Processing, Locked
    <3> QED BY <2>3, <3>2 DEF Parked, Overdue
  <2> QED BY <1>1, <2>2, <2>3
<1> HIDE DEF rest
<1>3. CASE rest = {} /\ Forget(p) /\ UNCHANGED todo
  <2>1. todo[p] = {}
    BY <1>1, <1>3 DEF WInv, GridSteps, rest
  <2>2. pc'[p] = "idle" /\ todo'[p] = {}
    BY <1>3, <2>1 DEF Forget
  <2>3. \A m \in Messages : ~Overdue(m)'
    BY <1>1, <1>2, <1>3 DEF Overdue
  <2> QED BY <1>0, <1>1, <2>2, <2>3 DEF WInv, Overdue, Healthy, Locked
<1>4. ASSUME NEW m \in Earliest(rest), StartProcessing(p, m, TRUE),
             todo' = [todo EXCEPT ![p] = rest \ {m}]
      PROVE  WInv'
  <2>1. pc'[p] = "fetch" /\ msg'[p] = m /\ todo'[p] = rest \ {m} /\ result'[p] = "ok"
    BY <1>4 DEF StartProcessing
  <2>2. \A n \in Messages : Overdue(n)' => Waking(n)'
    BY <1>1, <1>2, <2>1 DEF Overdue, Waking, Processing
  <2> QED BY <1>0, <1>1, <2>1, <2>2 DEF WInv, Overdue, GridSteps
<1> QED BY <1>1, <1>3, <1>4 DEF GoOn

LEMMA OutsideWakes ==
  ASSUME IngestAssumption, Types, Aware, OneProcess, WInv, MaxFaults = 0, MaxCrashes = 0,
         \/ \E p \in Procs, m \in Messages : Deliver(p, m)
         \/ \E p \in Procs, e \in Employees, cell \in {"none", "off", "work"} :
              SaveGrid(p, e, cell)
         \/ \E p \in Procs : Fault(p)
         \/ \E e \in Employees : SubmitTwoScan(e) \/ ReviewTwoScan(e)
         \/ CloseWindow \/ Crash(Workers) \/ Crash(Apis) \/ UNCHANGED vars
  PROVE  WInv'
<1> USE DEF Goto, msgVars, planVars, callVars, procVars, envVars
<1>1. ASSUME NEW p \in Procs, NEW m \in Messages, Deliver(p, m) PROVE WInv'
  <2>1. /\ pc[p] = "idle" /\ pc'[p] \in {"idle", "enqueue"} /\ \A q \in Procs : q = p
        /\ UNCHANGED <<grid, todo, faults, crashes>>
        /\ \A n \in Messages : Overdue(n)' => Overdue(n)
    BY <1>1 DEF Deliver, OneProcess, Overdue, Types
  <2>2. \A n \in Messages : ~Waking(n)
    BY <2>1 DEF WInv, Waking, GridSteps, Processing, Locked
  <2>3. \A n \in Messages : ~Overdue(n)'
    BY <2>1, <2>2 DEF WInv
  <2> QED BY <2>1, <2>3 DEF WInv, Overdue, Healthy, Locked
<1>2. ASSUME NEW p \in Procs, NEW e \in Employees, NEW cell \in {"none", "off", "work"},
             SaveGrid(p, e, cell)
      PROVE  WInv'
  <2>1. /\ pc[p] = "idle" /\ \A q \in Procs : q = p
        /\ UNCHANGED <<sync, todo, faults, crashes>> /\ grid' = [grid EXCEPT ![e] = cell]
        /\ cell = "work" => pc'[p] = "syncread" /\ saved'[p] = e
        /\ pc'[p] \in {"idle", "syncread"}
    BY <1>2 DEF SaveGrid, OneProcess, Types
  <2>2. \A n \in Messages : ~Waking(n)
    BY <2>1 DEF WInv, Waking, GridSteps, Processing, Locked
  <2>3. \A n \in Messages : Overdue(n)' => cell = "work" /\ EmployeeOf[n] = e
    BY <2>1, <2>2 DEF WInv, Overdue, Types
  <2>4. \A n \in Messages : Overdue(n)' => Waking(n)'
    BY <2>1, <2>3 DEF Waking, GridSteps
  <2> QED BY <2>1, <2>4 DEF WInv, Overdue, Healthy, Locked
<1>3. ASSUME NEW p \in Procs, Fault(p) PROVE FALSE
  BY <1>3 DEF Fault, WInv
<1>4. ASSUME NEW group, Crash(group) PROVE FALSE
  BY <1>4 DEF Crash, WInv
<1>5. CASE \/ \E e \in Employees : SubmitTwoScan(e) \/ ReviewTwoScan(e)
           \/ CloseWindow \/ UNCHANGED vars
  <2>1. UNCHANGED <<sync, grid, pc, msg, saved, todo, result, faults, crashes>>
    BY <1>5 DEF SubmitTwoScan, ReviewTwoScan, CloseWindow, vars
  <2> QED BY <2>1 DEF WInv, Overdue, Waking, Emp
<1> QED BY <1>1, <1>2, <1>3, <1>4, <1>5

LEMMA NextWInv ==
  ASSUME IngestAssumption, IInv, OneProcess, WInv, MaxFaults = 0, MaxCrashes = 0, [Next]_vars
  PROVE  WInv'
<1> USE DEF IInv
<1>1. ASSUME NEW p \in Procs, Step(p) PROVE WInv'
  BY <1>1, PassSteps, OutcomeWakes, LoopWakes DEF Step
<1>2. ASSUME NEW w \in Procs, NEW m \in Messages, TakeJob(w, m) PROVE WInv'
  <2>1. pc[w] = "idle"
    BY <1>2 DEF TakeJob
  <2> QED BY <1>2, <2>1, PassSteps DEF Fetch
<1> QED BY <1>1, <1>2, OutsideWakes DEF Next, Procs

LEMMA InitWInv == Init => WInv
BY DEF Init, WInv, Overdue, Healthy, Locked

(* When calls come one at a time and none fails or dies, a message parked  *)
(* for a missing schedule does not stay parked once the day has a working  *)
(* shift and nothing is running: each grid save processes all of them      *)
(* (reprocessPendingScheduleAfterGridUpdate).                              *)
THEOREM ParkedAreProcessed ==
  Serialised /\ OneProcess /\ MaxFaults = 0 /\ MaxCrashes = 0 /\ Spec => []NoneParkedOnScheduledDay
<1>1. ASSUME WInv PROVE NoneParkedOnScheduledDay
  BY <1>1 DEF NoneParkedOnScheduledDay, WInv, Overdue, Waking, GridSteps, Processing, Locked
<1>2. ASSUME OneProcess, MaxFaults = 0, MaxCrashes = 0, IInv, WInv, [Next]_vars PROVE WInv'
  BY <1>2, IngestAssumption, NextWInv
<1>3. ASSUME OneProcess, MaxFaults = 0, MaxCrashes = 0
      PROVE  Serialised /\ Spec => []NoneParkedOnScheduledDay
  BY <1>1, <1>2, <1>3, AlwaysIInv, InitWInv, IngestAssumption, PTL DEF Spec
<1> QED BY <1>3
=============================================================================
