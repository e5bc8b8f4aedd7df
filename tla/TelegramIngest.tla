---------------------------- MODULE TelegramIngest ----------------------------
(***************************************************************************)
(* The attendance ingest pipeline: BioFinger messages arrive over the      *)
(* Telegram webhook, the MTProto listeners or the machine endpoints, are   *)
(* stored once, queued in BullMQ and applied to the attendance row of one  *)
(* employee and one work date, under an advisory lock of that pair.  A     *)
(* message that arrives before the day is on the schedule grid is parked   *)
(* as pending_schedule and processed again when a manager saves the grid.  *)
(*                                                                         *)
(* A process is a worker slot of the queue or a request of the API (which  *)
(* receives messages, processes them inline when there is no queue, and    *)
(* saves the grid).  A step of a process is the code between two awaits of *)
(* database or queue calls, so that the steps of two processes interleave  *)
(* as the code's do.  One work date is modelled.                           *)
(***************************************************************************)
EXTENDS ScanSlots

CONSTANTS
  Employees,      \* employees, each with one attendance row for the work date
  Messages,       \* BioFinger messages (telegramGroupId, telegramMessageId)
  Workers,        \* worker slots of the queue (Worker concurrency)
  Apis,           \* concurrent API requests or listener events
  Nobody,         \* a null message or employee
  EmployeeOf,     \* EmployeeOf[m]: the employee m's NIK and branch lead to
  Text,           \* Text[m]: the times parsed from m's text
  Account,        \* Account[e]: accountCode of e
  BreakEnabled,   \* BreakEnabled[e]: resolveBreakAttendanceEnabled
  QueueEnabled,   \* env.queueEnabled
  Serialised,     \* does the advisory lock exclude (see PgAdvisoryLock)?
  FirstGrids,     \* bound: what the day's grid cell may be at the start
  Applicants,     \* bound: employees who may apply for a two-scan day
  MayExpire,      \* bound: may the work date become too old to ingest?
  MaxAttempts,    \* attempts of a job (5 in the code)
  MaxDeliveries,  \* bound: how often one message arrives
  MaxFaults,      \* bound: failing database or Redis calls
  MaxCrashes,     \* bound: crashes (BullMQ fails a job that stalls twice)
  MaxSaves        \* bound: grid saves

Procs == Workers \cup Apis

ASSUME IngestAssumption ==
  /\ Workers \cap Apis = {}
  /\ Nobody \notin Messages \cup Employees
  /\ EmployeeOf \in [Messages -> Employees]
  /\ Text \in [Messages -> ParsedTimes]
  /\ BreakEnabled \in [Employees -> BOOLEAN]
  /\ QueueEnabled \in BOOLEAN /\ Serialised \in BOOLEAN
  /\ FirstGrids \subseteq {"none", "off", "work"} /\ Applicants \subseteq Employees
  /\ MayExpire \in BOOLEAN
  /\ MaxAttempts \in Nat \ {0} /\ MaxDeliveries \in Nat
  /\ MaxFaults \in Nat /\ MaxCrashes \in {0, 1} /\ MaxSaves \in Nat

VARIABLES
  sync,        \* sync[m]: syncStatus of the telegram_messages row of m
  skipped,     \* skipped[m]: "duplicate" or "off_day" if errorMessage says so, else "no"
  link,        \* link[m]: the unique attendanceId of m, by its employee
  receivedAt,  \* receivedAt[m]: when m was stored, 0 if it was not
  checkIn,     \* checkIn[e]: checkInAt
  checkOut,    \* checkOut[e]: checkOutAt
  status,      \* status[e]: AttendanceRecord.status, "none" if there is no row
  breaks,      \* breaks[e]: the break_sessions of the row
  grid,        \* grid[e]: the EmployeeShift row of the day
  twoScan,     \* twoScan[e]: an approved early_leave or no_break request
  windowOpen,  \* is the work date within INGEST_MAX_PAST_DAYS of today?
  job,         \* job[m]: state of BullMQ job tg-msg-m
  attempts,    \* attempts[m]: attemptsMade of that job
  pc, msg,     \* pc[p], msg[p]: the step and the message process p is at
  force,       \* force[p]: processTelegramMessageById(id, {force: true})?
  parsed,      \* parsed[p]: the times p is about to apply
  result,      \* result[p]: "ok" or the error p is handling
  saved,       \* saved[p]: the employee whose grid cell p has saved
  todo,        \* todo[p]: pending_schedule messages p still has to reprocess
  fresh,       \* fresh[p]: status computed from p's snapshot of the row
  deliveries, faults, crashes, saves   \* what is spent of each bound

msgVars  == <<sync, skipped, link, receivedAt>>
dayVars  == <<checkIn, checkOut, status, breaks>>
planVars == <<grid, twoScan, windowOpen>>
jobVars  == <<job, attempts>>
callVars == <<msg, force, todo, fresh, saved>>
procVars == <<pc, parsed, result, callVars>>
envVars  == <<deliveries, faults, crashes, saves>>
vars == <<msgVars, dayVars, planVars, jobVars, procVars, envVars>>

SyncStatuses == {"absent", "pending", "processed", "failed", "pending_schedule"}
DayStatuses  == {"none", "absent", "present", "on_break", "left"}

NoTimes == [masuk |-> 0, pulang |-> 0, mulai |-> 0, selesai |-> 0]

\* applyParsedAttendanceLocked: the steps taken while the lock is held.
Locked == {"check", "cross", "reconcile", "checkin", "txread", "txcreate",
           "txupdate", "ensure", "update", "break", "unlock"}

Steps == Locked \cup
  {"idle", "enqueue", "fetch", "lock", "link", "mark", "marklink", "catch",
   "settle", "syncread", "syncwrite", "scan"}

Results == {"ok", "out_of_range", "pending_schedule", "duplicate", "off_day",
            "break_not_open", "db_error", "thrown"}

\* Errors that isTerminalIngestError keeps from being retried.
Terminal == {"out_of_range", "break_not_open"}

Init ==
  /\ sync = [m \in Messages |-> "absent"]
  /\ skipped = [m \in Messages |-> "no"]
  /\ link = [m \in Messages |-> Nobody]
  /\ receivedAt = [m \in Messages |-> 0]
  /\ checkIn = [e \in Employees |-> 0]
  /\ checkOut = [e \in Employees |-> 0]
  /\ status = [e \in Employees |-> "none"]
  /\ breaks = [e \in Employees |-> {}]
  /\ grid \in [Employees -> FirstGrids]
  /\ twoScan = [e \in Employees |-> "none"]
  /\ windowOpen = TRUE
  /\ job = [m \in Messages |-> "none"]
  /\ attempts = [m \in Messages |-> 0]
  /\ pc = [p \in Procs |-> "idle"]
  /\ msg = [p \in Procs |-> Nobody]
  /\ force = [p \in Procs |-> FALSE]
  /\ parsed = [p \in Procs |-> NoTimes]
  /\ result = [p \in Procs |-> "ok"]
  /\ todo = [p \in Procs |-> {}]
  /\ fresh = [p \in Procs |-> "none"]
  /\ saved = [p \in Procs |-> Nobody]
  /\ deliveries = [m \in Messages |-> 0]
  /\ faults = 0 /\ crashes = 0 /\ saves = 0
------------------------------------------------------------------------------
(* Small building blocks of the actions.                                   *)

\* The employee whose day process p works on.
Emp(p) == EmployeeOf[msg[p]]

Goto(p, step) == pc' = [pc EXCEPT ![p] = step]

\* An error thrown inside the locked section: the finally block unlocks.
Throw(p, error) ==
  /\ Goto(p, "unlock")
  /\ result' = [result EXCEPT ![p] = error]

\* processTelegramMessageById(m, force) is called by process p.
StartProcessing(p, m, forced) ==
  /\ msg' = [msg EXCEPT ![p] = m]
  /\ force' = [force EXCEPT ![p] = forced]
  /\ result' = [result EXCEPT ![p] = "ok"]
  /\ parsed' = [parsed EXCEPT ![p] = NoTimes]
  /\ Goto(p, "fetch")

\* The process forgets its local variables when a call returns.
Forget(p) ==
  /\ Goto(p, "idle")
  /\ msg' = [msg EXCEPT ![p] = Nobody]
  /\ force' = [force EXCEPT ![p] = FALSE]
  /\ parsed' = [parsed EXCEPT ![p] = NoTimes]
  /\ result' = [result EXCEPT ![p] = "ok"]
  /\ fresh' = [fresh EXCEPT ![p] = "none"]
  /\ saved' = [saved EXCEPT ![p] = Nobody]
------------------------------------------------------------------------------
(* Arrival: save, then enqueue.                                            *)

\* shouldEnqueueTelegramProcessing: a duplicate only if its row has failed or
\* was never processed.
ShouldEnqueue(m) == sync[m] \in {"absent", "pending", "failed"}

\* The rows of telegram_messages.
Stored == {m \in Messages : sync[m] # "absent"}

(* saveTelegramWebhookMessage: a new message is stored as pending; a known *)
(* one (found first, or met as a unique violation) is a duplicate.         *)
Deliver(a, m) ==
  /\ pc[a] = "idle"
  /\ deliveries[m] < MaxDeliveries
  /\ deliveries' = [deliveries EXCEPT ![m] = @ + 1]
  /\ sync' = [sync EXCEPT ![m] = IF @ = "absent" THEN "pending" ELSE @]
  /\ receivedAt' = [receivedAt EXCEPT ![m] =
                      IF sync[m] = "absent" THEN Cardinality(Stored) + 1 ELSE @]
  /\ IF ShouldEnqueue(m)
       THEN Goto(a, "enqueue") /\ msg' = [msg EXCEPT ![a] = m]
       ELSE UNCHANGED <<pc, msg>>
  /\ UNCHANGED <<skipped, link, dayVars, planVars, jobVars, force, parsed,
                 result, todo, fresh, saved, faults, crashes, saves>>

(* enqueueProcessTelegramMessage: queue.add with jobId tg-msg-<id> does    *)
(* nothing when a job of that id is still retained, whatever its state.    *)
EnqueueJob(a) ==
  /\ pc[a] = "enqueue" /\ QueueEnabled
  /\ job' = [job EXCEPT ![msg[a]] = IF @ = "none" THEN "waiting" ELSE @]
  /\ Forget(a)
  /\ UNCHANGED <<msgVars, dayVars, planVars, attempts, todo, envVars>>

(* Without a queue, or when the Redis call fails, the message is processed *)
(* inline by the request that received it.                                 *)
ProcessInline(a) ==
  /\ pc[a] = "enqueue"
  /\ IF QueueEnabled THEN faults < MaxFaults /\ faults' = faults + 1
                     ELSE UNCHANGED faults
  /\ StartProcessing(a, msg[a], FALSE)
  /\ UNCHANGED <<msgVars, dayVars, planVars, jobVars, todo, fresh, saved,
                 deliveries, crashes, saves>>

\* handleTelegramJob: a worker slot takes a waiting job.
TakeJob(w, m) ==
  /\ pc[w] = "idle" /\ job[m] = "waiting"
  /\ job' = [job EXCEPT ![m] = "active"]
  /\ StartProcessing(w, m, FALSE)
  /\ UNCHANGED <<msgVars, dayVars, planVars, attempts, todo, fresh, saved,
                 envVars>>
------------------------------------------------------------------------------
(* processTelegramMessageById and applyParsedAttendanceLocked.             *)

\* A message that is already processed is left alone unless forced.
Fetch(p) ==
  /\ pc[p] = "fetch"
  /\ Goto(p, IF sync[msg[p]] = "processed" /\ ~force[p] THEN "settle" ELSE "lock")
  /\ UNCHANGED <<msgVars, dayVars, planVars, jobVars, callVars, parsed,
                 result, envVars>>

\* Mutant: the section is entered without waiting for the lock.
LockAtOnce(p) ==
  /\ pc[p] = "lock" /\ Goto(p, "check")
  /\ UNCHANGED <<msgVars, dayVars, planVars, jobVars, callVars, parsed,
                 result, envVars>>

\* withPgAdvisoryLock(employeeDayIngestLockKey(employee, workDate), ...).
Lock(p) ==
  /\ pc[p] = "lock"
  /\ Serialised => \A q \in Procs \ {p} : pc[q] \in Locked => Emp(q) # Emp(p)
  /\ Goto(p, "check")
  /\ UNCHANGED <<msgVars, dayVars, planVars, jobVars, callVars, parsed,
                 result, envVars>>

\* assertIngestWorkDateAllowed, then assertGridScheduleForAttendance.
CheckSchedule(p) ==
  /\ pc[p] = "check"
  /\ CASE ~windowOpen                              -> Throw(p, "out_of_range")
       [] windowOpen /\ grid[Emp(p)] = "none"      -> Throw(p, "pending_schedule")
       [] windowOpen /\ grid[Emp(p)] # "none"      -> Goto(p, "cross")
                                                      /\ UNCHANGED result
  /\ UNCHANGED <<msgVars, dayVars, planVars, jobVars, callVars, parsed,
                 envVars>>

\* Mutant: only a finished day counts.
FinishedElsewhere(e) ==
  \E other \in Employees \ {e} : Account[other] = Account[e] /\ checkOut[other] # 0

\* findCrossBranchAttendanceOnDate: one account, one day.
CheckedInElsewhere(e) ==
  \E other \in Employees \ {e} : Account[other] = Account[e] /\ checkIn[other] # 0

CrossCheck(p) ==
  /\ pc[p] = "cross"
  /\ IF CheckedInElsewhere(Emp(p))
       THEN Throw(p, "duplicate")
       ELSE Goto(p, "reconcile") /\ UNCHANGED result
  /\ UNCHANGED <<msgVars, dayVars, planVars, jobVars, callVars, parsed,
                 envVars>>

\* Mutant: a request still under review already shortens the day.
ScanSlotOfApplicant(m) ==
  LET e == EmployeeOf[m]
  IN  ReconciledSlot(checkIn[e], checkOut[e], breaks[e],
                     twoScan[e] # "none", Text[m].masuk)

\* The slot of a bare scan of message m, in the day as it is now.
ScanSlotOf(m) ==
  LET e == EmployeeOf[m]
  IN  ReconciledSlot(checkIn[e], checkOut[e], breaks[e],
                     twoScan[e] = "approved", Text[m].masuk)

\* reconcileParsedScan; its result is only used when the slot is not "full".
ReconcileParsedScan(m) ==
  IF NeedsScanResolution(Text[m])
    THEN RemapParsedByScanSlot(ScanSlotOf(m), Text[m].masuk)
    ELSE Text[m]

AllSlotsFilled(m) == NeedsScanResolution(Text[m]) /\ ScanSlotOf(m) = "full"

\* The scan gets its slot; without break attendance its break times are
\* dropped.
Reconcile(p) ==
  /\ pc[p] = "reconcile"
  /\ LET r    == ReconcileParsedScan(msg[p])
         plan == IF BreakEnabled[Emp(p)] THEN r ELSE DropBreakTimes(r)
     IN  IF AllSlotsFilled(msg[p])
           THEN Throw(p, "duplicate") /\ UNCHANGED parsed
           ELSE /\ parsed' = [parsed EXCEPT ![p] = plan]
                /\ Goto(p, IF plan.masuk # 0 THEN "checkin" ELSE "ensure")
                /\ UNCHANGED result
  /\ UNCHANGED <<msgVars, dayVars, planVars, jobVars, callVars, envVars>>

\* isDuplicateAttendanceEvent(employee, jamMasuk, "check_in").
IsDuplicateCheckIn(p) == checkIn[Emp(p)] = parsed[p].masuk

\* A check-in that is already recorded is skipped; processCheckIn refuses an
\* off day and waits for a missing schedule.
CheckIn(p) ==
  /\ pc[p] = "checkin"
  /\ LET e == Emp(p)
         again == IsDuplicateCheckIn(p)
     IN  \/ again /\ Goto(p, "update") /\ UNCHANGED result
         \/ ~again /\ grid[e] = "off"  /\ Throw(p, "off_day")
         \/ ~again /\ grid[e] = "none" /\ Throw(p, "pending_schedule")
         \/ ~again /\ grid[e] = "work" /\ Goto(p, "txread") /\ UNCHANGED result
  /\ UNCHANGED <<msgVars, dayVars, planVars, jobVars, callVars, parsed,
                 envVars>>

(* processCheckIn's transaction reads the row, then writes it.  A check-in *)
(* at another time is CHECK_IN_ALREADY_RECORDED: the scan is reconciled    *)
(* once more.                                                              *)
TxRead(p) ==
  /\ pc[p] = "txread"
  /\ LET e == Emp(p)
         r == ReconcileParsedScan(msg[p])
     IN  \/ /\ checkIn[e] = 0
            /\ Goto(p, IF status[e] = "none" THEN "txcreate" ELSE "txupdate")
            /\ UNCHANGED <<parsed, result>>
         \/ /\ checkIn[e] = parsed[p].masuk
            /\ Goto(p, "update") /\ UNCHANGED <<parsed, result>>
         \/ /\ checkIn[e] \notin {0, parsed[p].masuk}
            /\ IF AllSlotsFilled(msg[p])
                 THEN Throw(p, "duplicate") /\ UNCHANGED parsed
                 ELSE /\ parsed' = [parsed EXCEPT ![p] = r]
                      /\ Goto(p, "ensure") /\ UNCHANGED result
  /\ UNCHANGED <<msgVars, dayVars, planVars, jobVars, callVars, envVars>>

\* No row was found: it is created, unless one appeared meanwhile (the
\* unique index on employee and work date fails the transaction).
TxCreate(p) ==
  /\ pc[p] = "txcreate"
  /\ LET e == Emp(p)
     IN  IF status[e] = "none"
           THEN /\ checkIn' = [checkIn EXCEPT ![e] = parsed[p].masuk]
                /\ status' = [status EXCEPT ![e] = "present"]
                /\ Goto(p, "update") /\ UNCHANGED result
           ELSE /\ Throw(p, "db_error")
                /\ UNCHANGED <<checkIn, status>>
  /\ UNCHANGED <<msgVars, checkOut, breaks, planVars, jobVars, callVars,
                 parsed, envVars>>

\* A row without check-in was found: it is updated by its id.
TxUpdate(p) ==
  /\ pc[p] = "txupdate"
  /\ checkIn' = [checkIn EXCEPT ![Emp(p)] = parsed[p].masuk]
  /\ status' = [status EXCEPT ![Emp(p)] = "present"]
  /\ Goto(p, "update")
  /\ UNCHANGED <<msgVars, checkOut, breaks, planVars, jobVars, callVars,
                 parsed, result, envVars>>

\* Without a row yet, one is created as absent.
Ensure(p) ==
  /\ pc[p] = "ensure"
  /\ status' = [status EXCEPT ![Emp(p)] = IF @ = "none" THEN "absent" ELSE @]
  /\ Goto(p, "update")
  /\ UNCHANGED <<msgVars, checkIn, checkOut, breaks, planVars, jobVars,
                 callVars, parsed, result, envVars>>

\* The check-out and the status are written; a second, different check-out
\* is refused.
Update(p) ==
  /\ pc[p] = "update"
  /\ LET e    == Emp(p)
         t    == parsed[p]
         brk  == BreakEnabled[e]
         out  == t.pulang # 0 /\ checkOut[e] # t.pulang
     IN  IF t.pulang # 0 /\ checkOut[e] \notin {0, t.pulang}
           THEN Throw(p, "duplicate") /\ UNCHANGED <<checkOut, status>>
           ELSE /\ checkOut' = [checkOut EXCEPT ![e] = IF out THEN t.pulang ELSE @]
                /\ status' = [status EXCEPT ![e] =
                     IF out \/ (brk /\ t.mulai + t.selesai # 0)
                     THEN IF t.pulang # 0 THEN "left"
                          ELSE IF brk /\ t.selesai # 0 THEN "present"
                          ELSE IF brk /\ t.mulai # 0 THEN "on_break"
                          ELSE @
                     ELSE @]
                /\ Goto(p, "break") /\ UNCHANGED result
  /\ UNCHANGED <<msgVars, checkIn, breaks, planVars, jobVars, callVars,
                 parsed, envVars>>

\* The open session that findFirst(breakEndAt: null, breakStartAt desc) finds.
LatestOpenBreak(e) ==
  CHOOSE b \in OpenBreaks(breaks[e]) :
    \A c \in OpenBreaks(breaks[e]) : c.from <= b.from

CloseBreak(e, t) ==
  breaks' = [breaks EXCEPT ![e] =
    (@ \ {LatestOpenBreak(e)}) \cup {[LatestOpenBreak(e) EXCEPT !.to = t]}]

\* upsertBreakSession(start, end): an open session is closed if the message
\* has an end, and swallows the start otherwise.
UpsertBreakSession(e, from, to) ==
  \/ OpenBreaks(breaks[e]) # {} /\ to # 0 /\ CloseBreak(e, to)
  \/ OpenBreaks(breaks[e]) # {} /\ to = 0 /\ UNCHANGED breaks
  \/ OpenBreaks(breaks[e]) = {}
     /\ breaks' = [breaks EXCEPT ![e] = @ \cup {[from |-> from, to |-> to]}]

\* closeOpenBreakSession: without an open session the message is refused.
CloseOpenBreakSession(p, e, t) ==
  \/ /\ OpenBreaks(breaks[e]) # {}
     /\ CloseBreak(e, t)
     /\ Goto(p, "unlock") /\ UNCHANGED result
  \/ /\ OpenBreaks(breaks[e]) = {}
     /\ Throw(p, "break_not_open") /\ UNCHANGED breaks

\* Break sessions follow the update of the row; a start or an end that the
\* day already has is not written again.
BreakStep(p) ==
  /\ pc[p] = "break"
  /\ LET e == Emp(p)
         t == parsed[p]
         start == BreakEnabled[e] /\ t.mulai # 0
         end   == BreakEnabled[e] /\ t.mulai = 0 /\ t.selesai # 0
         known == \/ start /\ \E b \in breaks[e] : b.from = t.mulai
                  \/ end /\ \E b \in breaks[e] : b.to = t.selesai
     IN  \/ /\ (~start /\ ~end) \/ known
            /\ Goto(p, "unlock") /\ UNCHANGED <<breaks, result>>
         \/ /\ start /\ ~known
            /\ UpsertBreakSession(e, t.mulai, t.selesai)
            /\ Goto(p, "unlock") /\ UNCHANGED result
         \/ /\ end /\ ~known
            /\ CloseOpenBreakSession(p, e, t.selesai)
  /\ UNCHANGED <<msgVars, checkIn, checkOut, status, planVars, jobVars,
                 callVars, parsed, envVars>>

\* The finally block of withPgAdvisoryLock.
Unlock(p) ==
  /\ pc[p] = "unlock"
  /\ Goto(p, IF result[p] = "ok" THEN "link" ELSE "catch")
  /\ UNCHANGED <<msgVars, dayVars, planVars, jobVars, callVars, parsed,
                 result, envVars>>

\* linkedByOther: is another message already linked to the row?
LinkCheck(p) ==
  /\ pc[p] = "link"
  /\ Goto(p, IF \E m \in Messages \ {msg[p]} : link[m] = Emp(p)
               THEN "mark" ELSE "marklink")
  /\ UNCHANGED <<msgVars, dayVars, planVars, jobVars, callVars, parsed,
                 result, envVars>>

\* The message becomes processed; linking it fails if another message was
\* linked to the row since the check (unique attendanceId).
Mark(p) ==
  /\ pc[p] \in {"mark", "marklink"}
  /\ LET m == msg[p]
         clash == /\ pc[p] = "marklink"
                  /\ \E n \in Messages \ {m} : link[n] = Emp(p)
     IN  IF clash
           THEN /\ Goto(p, "catch")
                /\ result' = [result EXCEPT ![p] = "db_error"]
                /\ UNCHANGED <<sync, skipped, link>>
           ELSE /\ sync' = [sync EXCEPT ![m] = "processed"]
                /\ skipped' = [skipped EXCEPT ![m] = "no"]
                /\ link' = [link EXCEPT ![m] =
                              IF pc[p] = "marklink" THEN Emp(p) ELSE @]
                /\ Goto(p, "settle") /\ UNCHANGED result
  /\ UNCHANGED <<receivedAt, dayVars, planVars, jobVars, callVars, parsed,
                 envVars>>

\* Mutant: every error but a missing schedule counts as a duplicate.
CatchAll(p) ==
  /\ pc[p] = "catch"
  /\ sync' = [sync EXCEPT ![msg[p]] =
               IF result[p] = "pending_schedule" THEN "pending_schedule" ELSE "processed"]
  /\ result' = [result EXCEPT ![p] = "ok"]
  /\ Goto(p, "settle")
  /\ UNCHANGED <<skipped, link, receivedAt, dayVars, planVars, jobVars, callVars,
                 parsed, envVars>>

\* The catch block: what an error leaves in the message row, and whether it
\* is thrown on to the caller.
Catch(p) ==
  /\ pc[p] = "catch"
  /\ LET m    == msg[p]
         skip == result[p] \in {"duplicate", "off_day"}
     IN  /\ sync' = [sync EXCEPT ![m] =
                       IF result[p] = "pending_schedule" THEN "pending_schedule"
                       ELSE IF skip THEN "processed" ELSE "failed"]
         /\ skipped' = [skipped EXCEPT ![m] = IF skip THEN result[p] ELSE "no"]
         /\ result' = [result EXCEPT ![p] =
                         IF skip \/ @ \in Terminal \cup {"pending_schedule"}
                         THEN "ok" ELSE "thrown"]
  /\ Goto(p, "settle")
  /\ UNCHANGED <<link, receivedAt, dayVars, planVars, jobVars, callVars,
                 parsed, envVars>>

\* BullMQ completes a job, retries it, or gives it up after MaxAttempts.
JobEnds(m, ok) ==
  /\ attempts' = [attempts EXCEPT ![m] = IF ok THEN @ ELSE @ + 1]
  /\ job' = [job EXCEPT ![m] =
               IF ok THEN "completed"
               ELSE IF attempts'[m] < MaxAttempts THEN "waiting"
               ELSE "failed"]

\* Of a set of stored messages, those with the least receivedAt.
Earliest(S) == {m \in S : \A n \in S : receivedAt[m] <= receivedAt[n]}

\* The loop over the parked messages goes on with the next one, or ends.
GoOn(p, rest) ==
  \/ rest = {} /\ Forget(p) /\ UNCHANGED todo
  \/ \E m \in Earliest(rest) :
       /\ StartProcessing(p, m, TRUE)
       /\ todo' = [todo EXCEPT ![p] = rest \ {m}]
       /\ UNCHANGED <<fresh, saved>>

(* The call returns.  BullMQ completes the job, retries it or gives it up; *)
(* a grid save goes on with the next parked message, whatever the outcome; *)
(* an inline request ends (an error becomes a 500 or a log line).          *)
Settle(p) ==
  /\ pc[p] = "settle"
  /\ IF p \in Workers
       THEN JobEnds(msg[p], result[p] = "ok")
       ELSE UNCHANGED jobVars
  /\ GoOn(p, todo[p])
  /\ UNCHANGED <<msgVars, dayVars, planVars, envVars>>
------------------------------------------------------------------------------
(* The schedule grid: saveBranchShiftSchedule for one employee's day.      *)

\* The transaction that writes the cell ("none" deletes the row).  Only a
\* working shift changes a checked-in row's status or wakes parked messages.
SaveGrid(a, e, cell) ==
  /\ pc[a] = "idle" /\ saves < MaxSaves
  /\ saves' = saves + 1
  /\ grid' = [grid EXCEPT ![e] = cell]
  /\ IF cell = "work"
       THEN Goto(a, "syncread") /\ saved' = [saved EXCEPT ![a] = e]
       ELSE UNCHANGED <<pc, saved>>
  /\ UNCHANGED <<msgVars, dayVars, twoScan, windowOpen, jobVars, msg,
                 force, parsed, result, todo, fresh, deliveries, faults,
                 crashes>>

\* Mutant: every row of the day is taken for a finished one.
SyncReadLeft(a) ==
  /\ pc[a] = "syncread"
  /\ fresh' = [fresh EXCEPT ![a] = "left"]
  /\ Goto(a, IF checkIn[saved[a]] = 0 THEN "scan" ELSE "syncwrite")
  /\ UNCHANGED <<msgVars, dayVars, planVars, jobVars, msg, force, parsed,
                 result, todo, saved, envVars>>

\* recalculateAttendanceKpiForShiftChange reads the row and decides the
\* status it will have under the new shift ...
SyncRead(a) ==
  /\ pc[a] = "syncread"
  /\ LET e == saved[a]
     IN  IF checkIn[e] = 0
           THEN Goto(a, "scan") /\ UNCHANGED fresh
           ELSE /\ fresh' = [fresh EXCEPT ![a] =
                               IF checkOut[e] # 0 THEN "left" ELSE "present"]
                /\ Goto(a, "syncwrite")
  /\ UNCHANGED <<msgVars, dayVars, planVars, jobVars, msg, force, parsed,
                 result, todo, saved, envVars>>

\* ... and writes it, whatever the row has become.
SyncWrite(a) ==
  /\ pc[a] = "syncwrite"
  /\ status' = [status EXCEPT ![saved[a]] = fresh[a]]
  /\ Goto(a, "scan")
  /\ UNCHANGED <<msgVars, checkIn, checkOut, breaks, planVars, jobVars,
                 callVars, parsed, result, envVars>>

\* Mutant: findFirst in the place of findMany.
ParkedFirst(e) ==
  Earliest({m \in Messages : sync[m] = "pending_schedule" /\ EmployeeOf[m] = e})

\* reprocessPendingScheduleAfterGridUpdate: the parked messages of the saved
\* day, which are processed again one after the other in receivedAt order.
Parked(e) ==
  {m \in Messages : sync[m] = "pending_schedule" /\ EmployeeOf[m] = e}

ScanParked(a) ==
  /\ pc[a] = "scan"
  /\ GoOn(a, Parked(saved[a]))
  /\ UNCHANGED <<msgVars, dayVars, planVars, jobVars, envVars>>
------------------------------------------------------------------------------
(* The surroundings: approvals, the calendar, failures.                    *)

(* createApprovalRequest for early_leave or no_break makes sure the day    *)
(* has a row (ensureAttendanceForDate), and then refuses the request if    *)
(* the day is closed or, unless it is still to come, has no check-in.      *)
SubmitTwoScan(e) ==
  /\ e \in Applicants /\ twoScan[e] = "none"
  /\ status' = [status EXCEPT ![e] = IF @ = "none" THEN "absent" ELSE @]
  /\ \/ checkOut[e] = 0 /\ twoScan' = [twoScan EXCEPT ![e] = "pending"]
     \/ status[e] = "none" /\ UNCHANGED twoScan
  /\ UNCHANGED <<msgVars, checkIn, checkOut, breaks, grid, windowOpen,
                 jobVars, procVars, envVars>>

\* reviewApprovalRequest; a rejected request may be made again.
ReviewTwoScan(e) ==
  /\ twoScan[e] = "pending"
  /\ \E verdict \in {"approved", "none"} :
       twoScan' = [twoScan EXCEPT ![e] = verdict]
  /\ UNCHANGED <<msgVars, dayVars, grid, windowOpen, jobVars, procVars,
                 envVars>>

\* The work date falls out of the days that may still be ingested.
CloseWindow ==
  /\ MayExpire /\ windowOpen /\ windowOpen' = FALSE
  /\ UNCHANGED <<msgVars, dayVars, grid, twoScan, jobVars, procVars,
                 envVars>>

\* A database call of a step fails.  Inside processTelegramMessageById's try
\* block the catch block runs; outside it the error goes to the caller.
Fault(p) ==
  /\ faults < MaxFaults /\ faults' = faults + 1
  /\ \/ pc[p] \in Locked \ {"unlock"} /\ Throw(p, "db_error")
        /\ UNCHANGED <<callVars, parsed>>
     \/ /\ pc[p] \in {"lock", "link", "mark", "marklink"}
        /\ Goto(p, "catch") /\ result' = [result EXCEPT ![p] = "db_error"]
        /\ UNCHANGED <<callVars, parsed>>
     \/ /\ pc[p] \in {"fetch", "catch"}
        /\ Goto(p, "settle") /\ result' = [result EXCEPT ![p] = "thrown"]
        /\ UNCHANGED <<callVars, parsed>>
     \/ pc[p] \in {"syncread", "syncwrite", "scan"} /\ Forget(p) /\ UNCHANGED todo
  /\ UNCHANGED <<msgVars, dayVars, planVars, jobVars, deliveries, crashes,
                 saves>>

\* The local variable f after the processes of group died.
Without(group, f, initial) ==
  [p \in Procs |-> IF p \in group THEN initial ELSE f[p]]

\* Mutant: nobody notices a stalled job.
ForgottenJobs(group) == job

\* The jobs that a dead worker was running are put back in the queue.
StalledJobs(group) ==
  [m \in Messages |->
     IF group = Workers /\ job[m] = "active" THEN "waiting" ELSE job[m]]

\* A process dies: its calls are gone, PostgreSQL drops its sessions' locks,
\* and BullMQ notices that its jobs have stalled.
Crash(group) ==
  /\ \E p \in group : pc[p] # "idle"
  /\ crashes < MaxCrashes /\ crashes' = crashes + 1
  /\ pc' = Without(group, pc, "idle")
  /\ msg' = Without(group, msg, Nobody)
  /\ force' = Without(group, force, FALSE)
  /\ parsed' = Without(group, parsed, NoTimes)
  /\ result' = Without(group, result, "ok")
  /\ todo' = Without(group, todo, {})
  /\ fresh' = Without(group, fresh, "none")
  /\ saved' = Without(group, saved, Nobody)
  /\ job' = StalledJobs(group)
  /\ UNCHANGED <<msgVars, dayVars, planVars, attempts, deliveries, faults,
                 saves>>
------------------------------------------------------------------------------
\* One step of a running call.
Step(p) ==
  \/ EnqueueJob(p) \/ ProcessInline(p)
  \/ Fetch(p) \/ Lock(p) \/ CheckSchedule(p) \/ CrossCheck(p) \/ Reconcile(p)
  \/ CheckIn(p) \/ TxRead(p) \/ TxCreate(p) \/ TxUpdate(p)
  \/ Ensure(p) \/ Update(p) \/ BreakStep(p) \/ Unlock(p)
  \/ LinkCheck(p) \/ Mark(p) \/ Catch(p) \/ Settle(p)
  \/ SyncRead(p) \/ SyncWrite(p) \/ ScanParked(p)

Next ==
  \/ \E a \in Apis, m \in Messages : Deliver(a, m)
  \/ \E a \in Apis, e \in Employees, cell \in {"none", "off", "work"} :
       SaveGrid(a, e, cell)
  \/ \E w \in Workers, m \in Messages : TakeJob(w, m)
  \/ \E p \in Procs : Step(p) \/ Fault(p)
  \/ \E e \in Employees : SubmitTwoScan(e) \/ ReviewTwoScan(e)
  \/ CloseWindow
  \/ Crash(Workers) \/ Crash(Apis)

\* Running calls go on, and a worker slot that is idle takes a waiting job.
Fairness ==
  /\ \A p \in Procs : WF_vars(Step(p))
  /\ \A w \in Workers, m \in Messages : SF_vars(TakeJob(w, m))

Spec == Init /\ [][Next]_vars

FairSpec == Spec /\ Fairness
------------------------------------------------------------------------------
TypeOK ==
  /\ sync \in [Messages -> SyncStatuses]
  /\ skipped \in [Messages -> {"no", "duplicate", "off_day"}]
  /\ link \in [Messages -> Employees \cup {Nobody}]
  /\ receivedAt \in [Messages -> Nat]
  /\ checkIn \in [Employees -> Nat]
  /\ checkOut \in [Employees -> Nat]
  /\ status \in [Employees -> DayStatuses]
  /\ breaks \in [Employees -> SUBSET BreakSession]
  /\ grid \in [Employees -> {"none", "off", "work"}]
  /\ twoScan \in [Employees -> {"none", "pending", "approved"}]
  /\ windowOpen \in BOOLEAN
  /\ job \in [Messages -> {"none", "waiting", "active", "completed", "failed"}]
  /\ attempts \in [Messages -> 0..MaxAttempts]
  /\ pc \in [Procs -> Steps]
  /\ msg \in [Procs -> Messages \cup {Nobody}]
  /\ force \in [Procs -> BOOLEAN]
  /\ parsed \in [Procs -> ParsedTimes]
  /\ result \in [Procs -> Results]
  /\ todo \in [Procs -> SUBSET Messages]
  /\ fresh \in [Procs -> DayStatuses]
  /\ saved \in [Procs -> Employees \cup {Nobody}]
  /\ deliveries \in [Messages -> 0..MaxDeliveries]
  /\ faults \in 0..MaxFaults /\ crashes \in 0..MaxCrashes /\ saves \in 0..MaxSaves

\* The messages that carry one bare time.
Scans == {m \in Messages : NeedsScanResolution(Text[m])}

(* Where the instant t stands in e's day; a session is named by its start. *)
Uses(e, t) ==
  {s \in {<<"check_in", 0>>} : checkIn[e] = t}
  \cup {s \in {<<"check_out", 0>>} : checkOut[e] = t}
  \cup {<<"break_start", b.from>> : b \in {c \in breaks[e] : c.from = t}}
  \cup {<<"break_end", b.from>> : b \in {c \in breaks[e] : c.to = t}}

(* However often one scan is delivered, retried after a partial failure or *)
(* reported by two channels, it fills one slot of the day.                 *)
ScanFillsOneSlot ==
  \A m \in Scans : Cardinality(Uses(EmployeeOf[m], Text[m].masuk)) <= 1

(* A scan that ends as processed (not skipped) has left its instant in the *)
(* day: nothing the machine reported is dropped silently.                  *)
ProcessedIsRecorded ==
  \A m \in Scans :
    sync[m] = "processed" /\ skipped[m] = "no" => Uses(EmployeeOf[m], Text[m].masuk) # {}

(* A scan is given up as a duplicate only when its account has checked in  *)
(* at another branch or its day has all four times, and this is still so   *)
(* long after the lock is gone, whatever is retried or applied meanwhile.  *)
SkippedOnlyWhenFull ==
  \A m \in Scans :
    LET e == EmployeeOf[m]
    IN  skipped[m] = "duplicate" =>
          \/ CheckedInElsewhere(e)
          \/ checkIn[e] # 0 /\ checkOut[e] # 0 /\ ClosedBreaks(breaks[e]) # {}

(* Explicit and bare messages, retries and partial failures in any order   *)
(* leave at most one break open (upsertBreakSession, closeOpenBreakSession)*)
(* and mark a day as left only if it has its check-out time.               *)
DayIsConsistent ==
  \A e \in Employees :
    /\ Cardinality(OpenBreaks(breaks[e])) <= 1
    /\ status[e] = "left" => checkOut[e] # 0

(* When nothing is running, no message is parked on a day that has a       *)
(* working shift: "Absensi disimpan dan akan diproses otomatis setelah     *)
(* jadwal diisi" (pendingScheduleError.ts).                                *)
NoneParkedOnScheduledDay ==
  (\A p \in Procs : pc[p] = "idle") =>
    \A m \in Messages : sync[m] = "pending_schedule" => grid[EmployeeOf[m]] # "work"

(* One account checks in at one branch a day ("satu akun = satu hari",     *)
(* findCrossBranchAttendanceOnDate).                                       *)
OneCheckInPerAccount ==
  \A d, e \in Employees :
    d # e /\ Account[d] = Account[e] => checkIn[d] = 0 \/ checkIn[e] = 0

(* The recorded check-in and check-out of a day are never overwritten, by  *)
(* no scan in no order (TC-022e).                                          *)
RecordedTimesStay ==
  [][\A e \in Employees :
       /\ checkIn[e] # 0 => checkIn'[e] = checkIn[e]
       /\ checkOut[e] # 0 => checkOut'[e] = checkOut[e]]_vars

(* A job the queue accepted ends, and then its message has an outcome.     *)
AcceptedJobsFinish ==
  \A m \in Messages :
    job[m] = "waiting" ~>
      job[m] \in {"completed", "failed"} /\ sync[m] # "pending"

(* The pipeline implements the day ledger.                                 *)
SlotsOf(e) ==
  LET first == CHOOSE b \in breaks[e] : TRUE
  IN  [s \in Slots |->
        CASE s = "check_in"    -> checkIn[e]
          [] s = "break_start" -> IF breaks[e] = {} THEN 0 ELSE first.from
          [] s = "break_end"   -> IF breaks[e] = {} THEN 0 ELSE first.to
          [] s = "check_out"   -> checkOut[e]]

Ledger == INSTANCE DayLedger WITH
  ScansOf <- [e \in Employees |->
                {Text[m].masuk : m \in {n \in Messages : EmployeeOf[n] = e}}],
  slot    <- [e \in Employees |-> SlotsOf(e)],
  short   <- [e \in Employees |-> twoScan[e] = "approved"]

ImplementsLedger == Ledger!Spec
=============================================================================
