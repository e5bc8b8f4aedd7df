# Attendance backend: a verification project

TLA+ models, TLC runs and TLAPS proofs for the attendance backend in `src/`: an
Express API, a BullMQ worker and a scheduler over one PostgreSQL database
(Prisma) and an optional Redis. BioFinger machines report scans as Telegram
messages; the backend stores them, turns them into the attendance row of an
employee's work date and scores the day. Around that core: a monthly grid of
shifts, requests that managers decide, accounts and branches, sessions, caches,
announcements and reminders, and a monthly ranking.

- [Inventory](#inventory): the system's parts, state, operations, interaction
- [Modules](#modules): what models what
- [Runs](#runs): what each TLC run asks, its bounds and why they suffice
- [Fairness, deadlock, symmetry](#fairness-deadlock-symmetry)
- [Proofs](#proofs): what holds for every value of the constants
- [Where the code disagrees with itself](#where-the-code-disagrees-with-itself)
- [Abstractions](#abstractions), [Not modelled](#not-modelled) and [Plan](#plan)

## Inventory

### Parts that carry the core logic

| part | code | state | operations | what makes it correct |
|---|---|---|---|---|
| Ingest lock | `lib/pgAdvisoryLock.ts` | session locks in PostgreSQL, the Prisma pool of each process | lock, run, unlock in `finally` | critical sections of a key exclude each other; an unlock never frees the lock under a running section |
| Scan slots | `telegramIngestService.ts` 34-140 | none (pure) | which of the four slots of a day a bare scan fills | slots are filled in order, no scan fills two |
| Ingest pipeline | `telegramIngestService.ts`, `attendanceService.ts`, `telegramEnqueue.ts`, `ingestErrors.ts`, `routes/webhooks/telegram.ts` | `telegram_messages`, `attendance_records`, `break_sessions` | save and deduplicate, enqueue, process, retry, mark | a scan is recorded once however often it arrives; recorded times stay; the status agrees with the times; nothing is dropped silently |
| Job queue | `lib/queue.ts`, `worker.ts` | BullMQ jobs `tg-msg-<id>` | add, take, complete, retry, stall; inline without Redis | an accepted job ends, also after a crash |
| Row and score | `attendanceKpiRecalcService.ts`, `attendanceService.ts`, `branchAttendanceService.ts`, `developerSupportAttendanceService.ts`, `forgotCheckoutService.ts` | `attendance_records`, `kpi_daily_scores` | check-in scoring, recalculation, reconciliation on a board read, corrections, nightly marking | total = points + adjustment; points are those of the check-in shown; a manager's adjustment survives |
| Scoring rules | `kpiScoringService.ts`, `defaultKpiRules.ts`, `organizationConfigService.ts`, `computeCheckInKpiFields` | `kpi_point_rules`, `gamification_settings`, their caches in API and worker | save, seed when empty, load, score | points, late minutes and status agree; an earlier check-in does not score less; rules are at most `CACHE_MS` old |
| KPI adjustment | `kpiAdjustmentService.ts` | `manager_evaluations` | adjust by -5..5 | at most 3 a manager, employee and day; the sum within -10..10; none lost |
| Approvals, shift swap, late excuses | `attendanceApprovalService.ts`, `lateExcuseService.ts` | `attendance_approval_requests`, `late_excuses`, the grid, the rows | request, peer answer, review, swap, confirmation, inboxes | one active request; decided once; no swap without consent; a pending request is in somebody's inbox |
| Shifts, grid, spreadsheet | `branchShiftConfigService.ts`, `employeeShiftScheduleService.ts`, `shiftScheduleTemplateService.ts`, `pendingScheduleReprocessService.ts` | `shifts`, `branch_shifts`, `employee_shifts`, types | settings, create, seed, delete; save, copy, down and upload | an old day keeps a readable shift; an upload leaves others' cells alone |
| Accounts, rows, branches | `branchUserService.ts`, `branchMembershipService.ts`, `employeeAccountService.ts`, `accountIdentityService.ts`, `branchAdminService.ts`, `branchPurgeService.ts`, `userImportService.ts`, `factoryResetService.ts` | `users`, `employees`, `user_branches`, `branches` | create, link, move, promote, demote, rename, deactivate, delete, import, purge, reset | one living row an account; its history under one code; what it sees is where it belongs |
| Sessions | `authService.ts`, `tokenSecurityService.ts`, `authUserCache.ts`, `presenceService.ts` | tokens, blacklist, login locks, presence (Redis or memory) | login, refresh, request, logout, lock, unlock | a token is exchanged once; a lock follows its failures; rights are current; a developer's session stays hidden |
| Caches | `branchAttendanceService.ts`, `leaderboardService.ts`, `publicDisplayService.ts`, `papanCacheInvalidation.ts` | Redis, memory of the API | fill, expire, invalidate | what is shown has a bounded age; a change shows at once when nothing overlaps it |
| Notices | `announcementService.ts`, `announcementReadService.ts`, `notificationService.ts`, `attendanceReminderService.ts`, `pushNotificationService.ts` | announcements, reads, notifications, reminders, push subscriptions | publish, read from either side, withdraw, remind, register a device | read agrees with read; one reminder a day; one device a person |
| Monthly ranking | `monthlyRankingService.ts`, `achievementService.ts`, `kpiQueryService.ts`, `leaderboardService.ts`, `leaderboardQuery.ts` | monthly aggregates, achievements, rewards | aggregate, rank, delete and create the month's rows | one award each, for those who earned it; page and leaderboard agree |

The other parts are under [Not modelled](#not-modelled).

### How the parts interact

```
 Telegram webhook / MTProto listeners / machine endpoint
        | save (pending)              manager: grid   approvals   board read
        | enqueue tg-msg-<id>            |               |            |
        v                                v               |            |
   BullMQ worker (5 slots) <-- parked messages reprocessed            |
        |                                |               |            |
        +--> advisory lock (employee, work date)         |            |
        |         -> attendance_records, break_sessions <+------------+
        |         -> kpi_daily_scores  <- adjustments, corrections, nightly job
        |                   |                  |
        |                   v                  v
        |            monthly aggregates   board caches (memory, Redis) -> displays
        |                   |
        |                   v
        |            achievements, rewards
        +--> telegram_messages: processed | failed | pending_schedule

 accounts, rows, branches -> who may log in, where a scan belongs, whose days
                             are ranked, who receives an announcement
```

Only the ingest path takes the advisory lock. Everything on the right writes the
same rows without it: the recalculation of a grid save, the reconciliation of a
board read, corrections, approvals and the nightly job all read first and write
later by id.

### What is hard about it

- *Order.* A machine scan says only when it happened; which slot it fills depends
  on the scans processed before it, and five worker slots, retries with backoff
  and inline calls process them in any order.
- *Delivery.* One scan can arrive several times, under one message id (delivered
  again) or under two (reported by two channels), and can be retried after a
  partial failure, since the row, the break session and the message are written
  in three calls and no transaction.
- *Exclusion.* The lock is taken and released by two statements that may run on
  two connections.
- *Stale reads.* Most writers of the row, the score, a request and a session
  compute from a snapshot, and most updates are by id, without a condition.
- *Failure.* Few handlers run in one transaction: a change of role is seven
  writes, a ranking a loop of them. A call fails or the process dies in between.
- *Several copies of a fact.* The grid and the day's row, the announcement and
  the notification about it, the account and the codes on its rows, the session
  in Redis and the blacklist in memory, the data and two layers of cache.
- *Long histories.* Shifts are renamed, removed, restored and deleted under old
  days; people move, are promoted and demoted; each handler is simple, and what
  a sequence of them leaves behind is not.

`PROJECT.json` lists each hazard at its line with the properties that would
catch it, and says why where none does.

## Modules

| module | models | correspondence |
|---|---|---|
| `PgAdvisoryLock` | `withPgAdvisoryLock` on the connection pools of its processes | one step a statement: `Ask` sends the lock statement, which occupies its connection until `Grant` or `Deadlocked`; `Query` is a statement of the section on whatever connection is free; `Unlock` is the `finally` block, `UnlockTimesOut` that block with no connection free. `Pool[c]` are the connections of the process that runs call `c`; a key is chosen by the call |
| `ScanSlots` | the pure functions that choose a scan's slot | one operator a function, instants are naturals, 0 is `NULL` |
| `DayLedger` | what the pipeline promises of a day: four slots, filled in order, each by a scan of its own, never rewritten | - |
| `TelegramIngest` | the pipeline, queue, parked messages and grid for one work date | `pc[p]` is the await at which process `p` (a worker slot or an API request) stands; each action is the code between two awaits. `sync`, `link`, `receivedAt` are `telegram_messages`; `checkIn`, `checkOut`, `status`, `breaks` the day; `job`, `attempts` BullMQ. `parsed`, `result`, `todo`, `fresh` are locals of a call: what it read and has not written yet |
| `DayScore` | the row and the score of one day, and everything that rewrites or deletes them | a call reads (`seen[c]`) and writes later (`at[c]` names the write); the write is the code's transaction, which is rolled back when the row it names has been deleted meanwhile (`RollBack`). `phase`: before 07:00 of the work date (00:00 UTC, where the count of evaluations begins), after it, and past midnight; boards and adjustments concern today only, the nightly job yesterday, grid saves and corrections any day. `evals` are the evaluations that there are, `counted` those the code counts |
| `Approvals` | requests of every type about one day, late excuses among them | `at[c]` is the await, `arg[c]` what the call has read and does not read again. `request`, `grid`, `row` are tables; the queries behind the views (`Incoming`, `BranchInbox`, `CanSubmit`, ...) are operators. Scans, the nightly job, grid saves and a crash are actions of the surroundings |
| `Schedule` | shifts and types of the branches, the monthly grid, its copy and its spreadsheet, the views of it | handlers run one at a time; a handler is the sequence of tables (`plan`) it leaves at its awaits, and a fault stops it after any of them. `sheet` is what a manager has downloaded and perhaps edited |
| `Accounts` | accounts, employee rows, branches, types | as in `Schedule`: `Commit` for a transaction, `Run` for a handler of several writes; `db` are the tables, `halfway` the accounts with a call that stopped, `stalled` that some call has, `relinked` the rows linked to an account by a lookup by number |
| `Sessions` | login, refresh, request, logout, locks, presence, changes of rights | `sat[c]` is the await. Redis, the memory of the process and the database are three variables; `Outage`, `Back` and `Restart` are steps, and so is each expiry. `ChangeRights` is a change that drops the cached account after its commit (`Forget`), `SetUserActive` and `UpdateEmployeeType` are changes that leave it (`LeaveCache`) |
| `KpiRules` | the score of a check-in from its seconds, the rules and the threshold; their caches in each process, how they are saved, and created when there are none | the pure functions are operators of a delta, a threshold and the active rules; `ask[c]`, `fill[<<c, k>>]` are where a score stands with loading the settings and the rules (`Promise.all`), `saving[n]` a save of the owner; an `await` on the database ends a step |
| `Boards` | the caches behind boards, leaderboards and displays | data is the number of its last change; a cache entry has the number it was computed from and the time it expires; `codes` is the memory of the shifts that the rows are read with (`getShiftsById`), good for changes that do not touch the shifts; `bcall[c]` is where a request stands between memory, Redis and the database. `Edit` is a change of the day or of the shifts, which an invalidation follows, or a quiet one, which none does (a grid save that rescores no row) |
| `Notices` | announcements, notifications, reminders, devices | `todo[c]` is what call `c` has left to write |
| `Ranking` | `calculateMonthlyRanks`, the deletion of a day, the two ways a person's days are counted | `job[j]` is where a run stands; `Kill` stops it anywhere; `employed` are the active rows, which is what the leaderboard sums of a person, while the page sums them all |
| `MCTelegramIngest`, `MCLock`, `MCKpi`, `MCPlanning`, `MCOutput`, `MCPeople` | small instances for TLC | messages, shifts, points, ranks; the last four put two or three modules side by side |
| `PgAdvisoryLockProofs`, `TelegramIngestProofs`, `KpiProofs`, `ApprovalsProofs`, `SessionsProofs`, `ScheduleProofs`, `AccountsProofs`, `OutputProofs` | proofs (`KpiProofs` of `DayScore`, `KpiRules` and `Ranking`, `OutputProofs` of `Boards` and of `Notices`) | see below |

`TelegramIngest` takes the lock as a guard (`Serialised`), which is what the code
means it to be and what it would be if the connection of the lock were kept for
the call; `PgAdvisoryLock` says what a pool gives instead. With
`Serialised = FALSE` the guard is gone. `TelegramIngest` in turn implements
`DayLedger` under the mapping `SlotsOf`.

`MCKpi` (`DayScore`, `Ranking`, `PgAdvisoryLock`), `MCPlanning` (`Schedule`, `Approvals`), `MCOutput`
(`Notices`, `Boards`) and `MCPeople` (`Accounts`, `Sessions`, `KpiRules`) check several
modules in one run. They share no state: the variable `part` says which of them
moves, and the others rest in a fixed initial state.

In every module an operator introduced by "Mutant:" (or "a mutant") is not part
of the model. It is a plausible bug of the definition it precedes or follows,
kept beside it to show that the property named in `PROJECT.json` would notice.

## Runs

| run | asks | instance and bounds |
|---|---|---|
| `ingest_scans` | In whatever order four slots are claimed: do recorded times stay, is the day a ledger? | 3 scans, 2 worker slots, 1 API request, a two-scan request submitted and reviewed at any time. With 3 scans and an approval the day can run full |
| `ingest_retries` | Does one scan fill one slot and never get lost, when two channels report it, a call fails, a process dies, jobs are retried? Does every accepted job end? | 3 messages for 2 instants, 1 failing call, 1 crash, 2 attempts a job (5 in the code: with at most one fault and one crash, further attempts repeat the second) |
| `ingest_events` | Do bare scans, explicit `ISTIRAHAT`, `PULANG` and a grid save leave status, times and breaks in agreement? | 4 messages: bare, break end, break start and end, check-out; 1 failing call, 1 save |
| `ingest_serial` | One call at a time: is nothing parked on a scheduled day, does only one row of an account check in? | 2 employee rows of one account, no queue (every message is processed by the request that received it), any first grid cell, 2 saves, messages delivered twice, the date may expire |
| `kpi` | Score, whatever overlaps: is the adjustment changed by an adjustment or the deletion of the day only, is there a score exactly with a check-in, and is every bonus in the adjustment unless two adjustments were under way at once? One call at a time: are the points those of the check-in? Ranking: after runs that die, corrections, leavers and deleted days, are podium, rewards and ranks right? Do the page and the leaderboard of somebody with rows at two branches agree, while a best row of each date is active? Lock: do sections that overlap share one session, which keeps the lock for each of them? | Score: 2 concurrent calls, 3 in all when they overlap, from 07:00 on (before it only the count of evaluations differs) and with one shift or none in the grid at first; 6 in a row otherwise; 2 managers, 2 shifts, 2 instants; limits scaled down (2 for 10, 1 for 3) so that they can be reached; 3 phases of the day. Ranking: 3 rows, two of them one person's at two branches, either of which may become inactive, 2 dates, 2 runs, 1 correction, 1 kill. Lock: 3 calls on a pool of 2 connections, so that waiters exhaust it, and 1 on another process's; 2 keys, so that sessions can deadlock; a session holds a lock at most twice |
| `planning` | Schedule: does an old cell stay readable, does an upload leave others' cells alone? Approvals: consent, one active request, final decisions, inboxes, the day under the grid's shift | Schedule: 2 branches, 2 employees, 3 shift ids and OFF, 2 months, 3 calls, 1 stopped half way. Approvals: 2 employees and 2 managers, one of whom is one of the employees; 2 requests; 3 calls that may overlap, or 4 one after the other, one of which may die |
| `output` | Notices: is read on one side read on the other, is a reminder sent once a day, is there one device? Boards: how old may what is shown be, and is it up to date when nothing overlaps? | Notices: an employee and his superior (a head of branch, or the owner where calls overlap), 2 branches, 1 announcement, 2 devices, 2 overlapping or 3 serial calls, 1 move, 1 restart. Boards: 2 calls, rows and ranks that live 2 units of a clock of 3 and displays that live 1, so that every bound of `StaleBound` is shorter than the run; 1 change, of the day, of the shifts or quiet, or 2 where calls do not overlap, one of them quiet; 2 overlapping or 3 serial reads (2 with two changes), among the latter 1 lost deletion (a load that overlaps a deletion leaves the same behind) |
| `people` | Accounts: after any calls, is each account placed where it sees and is listed, has it one living row, under one code? Sessions: is a token exchanged once, are locks, rights (with changes that drop the cached account and changes that do not, overlapping and through a restart) and presence right? KpiRules: does an earlier check-in never score less than a later one, how old may the rules of a score be? | Accounts: 2 accounts, 3 rows, 2 branches, 2 numbers, 2 types, 4 calls, 1 stopped half way. Sessions: 1 account with its two login names, 2 calls at once, 3 pairs of tokens, 3 overlapping or 4 serial calls, outages of Redis at any time, restarts; the 4 serial calls while Redis has missed nothing, which is when the properties about them apply (`RefreshOnce` is proved besides). KpiRules: 2 processes, 2 overlapping scores; deltas on both sides of the threshold and of ends of rules (-300, -299, 30, 300 s); a save of a threshold (300 is accepted, 301 refused) or of a table with a rule gone and another switched off (or of two rules, which is refused); `CACHE_MS` of 2 ticks. Either 2 saves, 1 score and 1 failing query, or 1 save and 2 scores with 2 ticks, so that an entry grows too old, or an empty table that two loads fill, one of which may fail |
| `lock_pool_exclusive`, `ingest_no_break`, `kpi_limit`, `purge_employees` | see [below](#where-the-code-disagrees-with-itself) | an instance that shows it |

Points and late minutes of the score are tables chosen so that every pair of
shift and instant has its own points, late and on time both occur, and the OFF
shift has points as well (the code does score a correction on it).

The bounds are on how often the surroundings act: deliveries, failing calls,
crashes, saves, calls of handlers. Nothing in the code counts them, so each bound
needs only to be large enough for the events that matter to meet. Where a module
has an `overlap` variable, its initial value is arbitrary: a run contains both the
behaviours in which calls interleave at every await (fewer of them) and those in
which each call ends before the next begins (more of them). Properties that the
code keeps under any interleaving are stated without it; the others say "one
call at a time", and [a section below](#where-the-code-disagrees-with-itself)
lists how an overlap breaks them.

The sequential modules (`Accounts`, `Schedule`) need long enough histories rather
than interleavings: with 4 calls an account can be created, moved, promoted and
demoted, and a shift be created, put in the grid and deleted with 3; the fault
stops the last or any of them between two writes.

## Fairness, deadlock, symmetry

`TelegramIngest.FairSpec`: a call that has started goes on (weak fairness of
`Step(p)`: an await returns or throws), and an idle worker slot takes a waiting
job (strong fairness, since the slot is busy in between; BullMQ takes jobs in
order). Nothing is assumed of deliveries, saves, approvals, failures or crashes.
`ingest_retries` runs under it, which leaves its safety properties unchanged.

No fairness is assumed elsewhere: the other modules are request-driven and end
when requests do. Of the advisory lock no liveness is claimed: the code gives
none (see [below](#where-the-code-disagrees-with-itself)).

`CHECK_DEADLOCK FALSE` is set where the bounds on deliveries, saves and calls let
the system come to rest; a request-driven backend may.

Symmetry is used in runs without liveness properties only: over worker slots in
`ingest_scans`, over calls, managers, branches, employees of the grid, request
ids, numbers, devices in the composed runs (the `...Symmetry` operators of the MC
modules). No constant of those runs tells them apart, and no property names one.

## Proofs

All proofs are of the specification as TLC checks it, for every value of the
constants that satisfies the module's named assumption.

| theorem | says | argument |
|---|---|---|
| `SharedSession` | however the pools route, run dry or are cut off by a deadlock, for any number of keys, processes and connections: overlapping sections share one session that holds the lock for each of them, so a lost unlock leaks the lock and never frees it under a running section, and two processes are never inside together | a count of holds against the calls that were granted them, over finite sets; the property is inductive with the types and where each call's connection comes from |
| `TimesAreFinal` | if the lock excludes, no recorded check-in or check-out is overwritten, for any number of messages, employees, workers, retries, crashes, saves | `PInv`: no two calls in the locked section of a day; what a call saw blank is still blank when it writes; a day with a check-in has a row, so that it is not created again; a grid save never writes "no row". `CarefulStep` reduces each action to: it moves one process, enters no section, and writes only the day it has locked |
| `DayStaysConsistent`, `SkipsAreRight`, `NothingIsDropped` | if the lock excludes: at most one break of a day is open and a left day has its check-out; a scan is given up as a duplicate only when its account has checked in at another branch or its day has all four times, and this stays so whatever fails, is retried or saved later; where breaks are recorded, a scan that ends as processed is in the day | `IInv` (see below) |
| `OneSlotPerScan`, `LedgerIsImplemented` | if besides all messages are bare scans: a scan fills at most one slot, and every step of the pipeline is a step of `DayLedger` or leaves the day alone | `LInv`: the slots of a day are filled in order, each with another instant |
| `OneCheckInIfApart`, `OneCheckInWhenSerial` | one row of an account checks in on a day, whenever no two rows of it are in the locked section at once; so always when calls do not overlap | `AInv`: after the cross-branch check has passed, the account stays free until this call writes (`StillClear`). The hypothesis is what the code's lock, which is of a row, does not give |
| `ParkedAreProcessed` | if calls do not overlap, fail or die, no message is parked on a day with a shift once all is quiet | `WInv`: a parked message of a scheduled day is in the hands of a grid save that is under way, or of the call that is processing it |
| `ScoresFit`, `EarlierNeverLess` | for every delta, every threshold from 0 to 300 and every choice of default rules with the one for being on time: points, late minutes and status of a score agree, and an earlier check-in never scores less | `PointsTable`: what `PointsFromRules` yields as one table of ranges, from a lemma on the rules and one on the minutes; the rest is arithmetic |
| `RecentRules`, `SavedThenCached` | a score uses settings and rules that were in force less than `CACHE_MS` before it was asked for; a process caches what it saved | `KInv` (see below) |
| `TypeCorrect` | types of `DayScore` | `DInv` adds what each call knows when it is about to write (`CallOK`) and that there is no adjustment without a score |
| `AdjustmentBounded`, `AdjustmentPreserved` | the limit of the adjustment, and that only adjustments and deletions of the day change it, under any overlap | `DInv`: a call at its write has checked the sum it will write, so it stays in range although it is computed from a stale score |
| `BonusesAddUp` | the adjustment is the sum of all evaluations since the day has a score, whatever else overlaps, unless two adjustments were ever under way at once | `BInv`: the one adjustment under way has read the adjustment as it still is, or its row is gone and it will be rolled back |
| `SerialSums` | one call at a time: the total is the sum of its parts | `SInv` adds that the one running call's snapshot is the score as it is |
| `ConsentFirst` | no swap is written to the grid without the colleague's consent, for any overlap of calls, any crashes, employees and managers | `IInv`: the shapes of requests and calls, a swap whose `peer` is "accepted" has been consented to, and a call on its way to the write (`swap`) stands on a consented request (`CallInv`). `ConsentBeforeSwap` alone is not inductive: the write trusts a check made awaits before |
| `NoRequestIsLost` | every pending request is in the inbox of the colleague who is asked or of a manager, under any overlap and crashes | `OInv`: a request stands in one of the forms in which some query finds it, and so does what each call is about to write |
| `DecidedOnce` | one call at a time: a decision is not taken again | `DInv` adds that the one running call has read the request as it is, pending; only `ReviewWrite`, `RespondWrite` and the confirmation decide (`OnlyDecidersWrite`) |
| `OneAtATime` | one call at a time: an employee has one active request a day | `UInv`: what the running call found free is still free when it creates (`StillFree`), and a request that is not pending stays so |
| `PointsFollowCheckIn` | whatever overlaps, a day has a score exactly when it has a check-in; one call at a time, the points are those of the check-in that its row records | `DInv` for the first, with what each call knows of a row that may be deleted under it; `SInv` for the second: what the one running call has read is still so, and the points are those of the row's check-in on some shift |
| `SwapsAreApproved` | one call at a time, none lost: a swap in the grid ends as approved | `MInv`: a swap that is in the grid is approved, or the running call is on its way to marking it |
| `GridIsFollowed` | one call at a time, none lost: days that have begun stand under the shift of the grid | `GInv`: a day that does not follow the grid is among those the running call will still put right, and its list names shifts of the grid; nobody swaps with himself |
| `CreatedWasOffered` | one call at a time: nothing is created that the employee's views do not offer | `FInv`: what a call about to create has checked of the row and the grid still holds |
| `RefreshedOnce` | a refresh that begins after its token was exchanged is refused, however calls overlap and Redis comes and goes, unless the process restarted and Redis missed a step | `RInv`: an exchanged token is known to the memory of a process that has not restarted and to a Redis that has missed nothing (`ExchangedIsBanned`); a late refresh stands before its first check (`LateIsStopped`). `RefreshOnce` alone says nothing of the stores that the check asks |
| `LatestRefreshes`, `StrikesLock`, `MasterHidden` | one call at a time: only the latest refresh token is good for a refresh; too many failures lock; no overview shows the developer's master login | `CInv`: the shapes of sessions and marks, and what the call at each await is about; `SerialInv`: what the only call relies on, of the latest pair, the counted failures and the master's mark |
| `RightsCurrent` | under any overlap and through restarts: once a change of rights that drops the user from the cache has returned, no request works with what it replaced, but for users in `doubtful` | a resolution that has read the account and not yet filled the cache has read it as it is, or a change that will drop the entry is under way, or the user is doubtful |
| `NothingTooOld` | how long ago what is shown may have ceased to be true, for every kind of screen, under any overlap and deletions lost or never made | `BInv`: for each await of a call, each entry of a cache and the memory of the shifts, the age that the sources of its value allow, an entry's at the time when it expires. `StaleBound` is about what is shown only, and says nothing of entries |
| `NothingOldAfterChange` | one call at a time, in one process, no deletion lost and the shifts as they were: what is shown includes the last change that invalidates, and all before it | `LInv`: what any cache holds is that old at most, save for the entries that the running call has yet to delete, and the memory of the shifts is right |
| `ReadAsOne`, `RemindedOnce`, `LastDeviceOnly` | announcement and notification are read together (one call at a time, none lost); nobody is reminded twice a day; at most one device a person | `RInv`, `MInv`, `DInv`: the gap that a call leaves open between two writes is open only while the call that closes it is there (`InHand`), reminders of one person are made by one visit at a time (`Apiece`), and two devices are kept only while a deletion is due |
| `RankingPodium` | when a run has ended, whatever died before it, left, was corrected or deleted: achievements, rewards and ranks are those of the values it read | `PInv`: what each stage of the one run under way has left in the tables (`Stage`), with ranks claimed only of rows of which no day was deleted since it began. `RankIsPlace`: the code's comparison is the order its tests state, and a rank is one more than the number of rows before it. The sums themselves do not matter to it |
| `RankingPageIsBoard` | of a person with rows at several branches, the leaderboard never counts more days than his page, and where a best row of each date is active, both show the same points and days | a row kept of the active ones, on a date with an active best row, has the points of the row kept of all (`SummariesAgree`), so the sums over the dates are equal; the dates of the active rows are among those of all |
| `ScheduleHistoryIsReadable` | whatever is renamed, removed, restored or deleted, and wherever a call stops: cells and attendance are listed and read under a code | `SInv`: the tables are `Sound` (a shift to which a link, a cell or an attendance points exists; the branch of an employee who stayed keeps a link to the shifts of his cells) after every statement of every handler, so also after one that stops half way. Readability asks only for a code, and would not survive the deletion of a shift |
| `ScheduleUploadKeepsOthers` | an upload leaves the cells alone that nobody has changed since the download | `SInv`: what a sheet shows of a cell that was not filled in is what the server held (`SheetOK`) |
| `AccountsFitTogether`, `AccountsAreTyped`, `AccountsStayPlaced`, `OneRowAlive`, `HistoryReachesRow` | for any number of accounts, rows, branches and calls, of which any number stop half way: links and unique indexes hold; an account that no call has left half way is where its row is, and its row bears its code; while no call has stopped half way, an account is alive on one row | `AInv` (see below) |

`TimesAreFinal` says what the pipeline needs of the lock, `SharedSession` what it
gets; `lock_pool_exclusive` shows that this is less. The other theorems about
`TelegramIngest` that assume a lock which excludes (`Serialised`) need the same.

*The day's invariant.* None of the properties of the ingest runs is inductive:
a message is marked many awaits after the row was written, without the lock, and
a call may die and be retried between any two writes. `IInv` says for each await
of a call what it may rely on there (`CallOK`): once the slot of a scan is
decided, the day can still take it (its instant is nowhere, or already in the
very slot that was decided, left by an earlier attempt); past each write, the
instant is there; past the lock, the scan is recorded for good. What makes this
stable under the steps of others is two-sided: a step of another call changes
only the day that call has locked (`OwnDay`), and no step takes back a recorded
time, a closed break or an approval (`Grows`). Each action is proved once to
respect this `Frame`, and once to establish what its own call knows next. The
parts of `IInv` were checked by TLC on the ingest runs before they were proved.

*The rules' invariant.* A step of the database either leaves what is live alone or
retires it with the time at which it went (`Later`). A value that has been read
was live at or after the request (`Since`), and stays so as things go on; a cached
value is younger by `CACHE_MS` when it is used (`Recent`). The proof never looks at
what a value is.

*The accounts' invariant.* `AInv` holds of the tables after every call, those that
stop half way included, so the proof has to follow each handler through the
writes between its awaits. A call works for one account `u` on a set of rows `es`
that no other account is linked to (`Own`). `Mid` is what its tables satisfy after
each write: they differ from the first ones in `u` and `es` only, nobody and
nothing is lost, and the indexes hold. `Fin` is what the tables it ends with
satisfy besides: the rows of `es` are inactive but the one that `u` is linked to,
and `u` is placed and recorded if it was. `RunKeeps` concludes once, from `Mid`
after each write and `Fin` after the last (`Sound`), that `AInv` is kept however
far the call gets; each handler then needs only its writes. Deletions, purges and
changes of tables without people go through `Kept`: what is left is as it was.
`OneLiveRow` is not inductive by itself: that the row a handler wakes has been put
to rest everywhere else depends on links, indexes and codes.

The attempt to prove `OneLiveRow` corrected it. It used to except accounts that
had been linked by number, and to apply when no account was half way. Histories
longer than those of the run refute that: an account whose call stopped half way
may be deleted, and so leave `halfway`, while the row that the call has woken goes
on living; and an account linked by number to a row that another account left may
be deleted after that row was woken. The exception is now made for the rows that
were linked by number (`relinked`), and the property is about histories in which
no call has stopped half way (`stalled`).

Every safety and action property of the passing runs is stated by a theorem. Only
model-checked is the liveness property `AcceptedJobsFinish`: liveness under
fairness is out of the prover's reach. Where a
property has to do with slots of bare scans or with a lock that excludes, its
theorem assumes what the instance of its run fixes (`Serialised`, `OnlyScans`, and
so on, as the table says). There is no `RECURSIVE` operator in the project.

## Where the code disagrees with itself

Four are runs that TLC ends with a counterexample, against a line of the
repository that says otherwise.

- `lock_pool_exclusive`: lock and unlock run on any connection of the pool, and
  PostgreSQL grants a second lock to the same session at once, so two clients can
  run the section together ("serialisasi ingest per karyawan + tanggal kerja").
  What still holds is `SharedSession`. When it happens, `RecordedTimesStay` fails
  with it: `processCheckIn` updates by id without asking whether `check_in_at` is
  still null.
- `kpi_limit`: the evaluations that a manager has given "hari ini" are counted by
  `createdAt`, from `workDate` on, which is 00:00 UTC and 07:00 WIB
  (`kpiAdjustmentService.ts:57-66`). Those given from midnight to 07:00, after an
  early check-in, are not counted, and more than the limit (`:69`) can be given with
  one call at a time.
- `ingest_no_break`: on a branch without breaks the second scan of a day becomes a
  break start, whose time is dropped, and the message ends as processed: the
  check-out is lost.
- `purge_employees`: the purge of a branch's employees ("Hapus semua karyawan +
  akun login karyawan", `branchPurgeService.ts:174`) selects every account linked
  to one of the rows that is not the owner's (`:146`), so a manager who is linked
  to a row there, a head of branch for instance, loses his account.

Met on the way, and kept out of the runs by a named condition of the property:

- A call finds no schedule; the grid is saved and looks for parked messages; the
  call parks its message. Nobody looks again (`telegramIngestService.ts:270`,
  against "akan diproses otomatis setelah jadwal diisi",
  `pendingScheduleError.ts:14`). `NoneParkedOnScheduledDay` holds one call at a time.
- The cross-branch check of an account (`telegramIngestService.ts:743`,
  `accountIdentityService.ts:103`) runs under the lock of one of its rows.
- Waiting for the advisory lock may never end: an unlock that lands on another
  connection leaves the lock with its session until the process closes it, and
  waiters occupy the connections that the section they wait for needs, so that a
  pool as large as their number is exhausted and the section's own statements
  time out. Sections of two employees can deadlock over two sessions that hold
  more than one lock. All of these are behaviours of `PgAdvisoryLock`; that the
  end of a process frees its locks is not.
- Two overlapping adjustments: one is lost (`EveryBonusCounts`), or one more than
  the limit is made. A bonus between the read and the write of a recalculation
  leaves a wrong total (`TotalIsSum` holds one call at a time). A break or a
  check-out that comes during a board's reconciliation is overwritten
  (`branchAttendanceService.ts:391`); the code promises nothing here, and no
  property claims it.
- Support's deletion of a day (`developerSupportAttendanceService.ts:557`) drops the
  score with its adjustment and keeps the manager's evaluations: a day that is
  filled again starts at adjustment 0, although evaluations of it exist, and they
  still use up the limit. `EveryBonusCounts` counts from the score on.
- The leaderboard sums a person's active rows, his page all of them
  (`leaderboardService.ts:85-115`, `kpiQueryService.ts:151`): whoever has left his best
  day at a former branch has different points on the two (`PageIsBoard` then only
  compares the days).
- Two reviewers overlapping: the last decision stands, and the effects of the
  first stay (`DecisionIsFinal`); two submissions create two requests
  (`OneActiveRequest`). A crash after the transaction of a swap leaves it in the
  grid and pending (`SwapIsApproved`).
- `confirmShiftSwapApproval` (`attendanceApprovalService.ts:1355`) approves a swap
  which the colleague has not answered, though nothing is swapped then; the review
  refuses one with "menunggu persetujuan rekan" (`:1130`).
- The forgotten-check-out job sets no `check_out_at`, though its comment says it
  checks out at 23:59; since the recalculation keeps `forgot_checkout` only on rows
  with a check-out, a grid save of that past day turns the row back to present or
  late.
- Two refreshes of one token that overlap are both accepted. A refresh renews the
  session and not the mark of a developer's login (`authService.ts:436`), so the
  user shows as online again once the mark expires.
- A deactivation (`branchUserService.ts:1471`), a permanent deletion or purge, and a
  change of an employee's type (`organizationConfigService.ts:975`), which decides
  permissions and branches, do not invalidate the cached account: its user works on
  with the old rights until the entry expires, a minute at most. A fill that read
  the account before a change of rights and comes after its invalidation has the
  same effect. `RightsAreCurrent` excepts such users by name (`doubtful`).
- The worker process invalidates its own memory and not the API's, and a load that
  overlaps an invalidation puts the old rows back. The rows take the codes of the
  shifts from a memory of five minutes that nothing invalidates
  (`branchAttendanceService.ts:127`), so a renamed shift shows under its old code, and
  a new one as "?". `FreshAfterChange` excludes these three.
- A grid save invalidates only when a row was rescored
  (`employeeShiftScheduleService.ts:476`, and the reprocessing returns early,
  `pendingScheduleReprocessService.ts:29`), so a board goes on showing the old schedule,
  "off" or absence of those who have not checked in. `FreshAfterChange` is about the
  last change that does invalidate; `StaleBound` says for how long at most the others
  are unseen.
- A notification to an employee without an account links the account with his
  number to his row and leaves its code alone (`HistoryIsComplete` and `OneLiveRow`
  except such rows).
- The spreadsheet's legend (`shiftScheduleTemplateService.ts:507`, "Strip = tidak
  diubah saat upload") says that a dash changes nothing; an uploaded dash is a
  blank cell, and clears the schedule (`:660`).
- A check-in that no active rule matches is scored by whole minutes
  (`kpiScoringService.ts:146`), and a late one of 1 to 59 seconds becomes minute 0 and
  scores 0, like one that is early; the default rules, "seed & fallback"
  (`defaultKpiRules.ts:3`), give it -1. It takes an owner who has switched the rule
  of the first two minutes off, or a load that reads the rules while another one is
  still creating them.
- The types of a branch keep a deleted shift when another branch still has it
  (`branchShiftConfigService.ts:614`), or when the deletion fails before its last
  statement.
- The public schedule picks the morning and the afternoon team by the digits of
  the shift's code (`publicScheduleService.ts:36-39`, `:98`), which a branch may
  have changed.

## Abstractions

Shared by the modules:

- *One work date* in `TelegramIngest`, `DayScore`, `Approvals`, `Notices`. A row is
  not moved to another date, and no scan changes its date by when it is processed
  (`telegramDateSkew`). In `Schedule` a month has one day.
- *Wording, names, photos, e-mails, passwords, signatures* are left out.

`TelegramIngest`, `PgAdvisoryLock`:

- *Employees are resolved.* `EmployeeOf[m]` is what NIK and branch lead to; a
  message is the four times its text yields.
- *One lock key a day.* Hash collisions of keys would only exclude more.
- *Status.* `TelegramIngest` does not tell `late` from `present`, `DayScore` does;
  `forgot_checkout` and the other writers of the row are `DayScore`'s subject,
  where the order of scans is not (`Scan`).
- *A grid save* writes one cell; rows of other employees do not share state.
- *The queue* keeps finished jobs for ever (`removeOnComplete` keeps 1000,
  `removeOnFail` 5000): a message delivered again finds its job.
- *A crash* kills all worker slots, or all API requests, as the processes do.
  BullMQ fails a job that stalls twice; at most one crash is modelled.

`PgAdvisoryLock`:

- A process does not end, so that a leaked lock stays; a deadlock cancels a lock
  statement of any session in the cycle.

`DayScore`, `Ranking`:

- *Other deletions* of rows and scores, by the developer's test tools, a purge of
  people or branches, the factory reset, and the move of a row to another date when a
  message is corrected (`telegramIngestService.ts:515-530`), are not actions of
  `DayScore`; of them it has support's deletion.
- *Evaluations* are counted from the clock only: given before 07:00, not counted.

- *Scores.* Points and late minutes are tables (`Points`, `Lateness`), any tables
  in the proofs; which tables the rules can yield is in `KpiRules`.
- A run's writes of the global and of the branch rank are one step, as are the
  read and the write of the recomputation after a deleted day. A run starts when
  no other is under way, as the scheduler does.

`KpiRules`: an owner's table holds default rules only, kept or removed, switched on
or off; rules with ranges or points of his own are left out (nothing holds of
them: the code checks that a range is not empty). A rule that was created twice by two
loads scores as one. The other callers of `invalidateConfigCache`, who change a
switch of a feature, only empty caches.

`Approvals`: lateness in minutes, attachments and the date range of the views
are left out; `early_leave` stands for `no_break` too, which the code treats alike.
The inbox of swaps shows the first 20 (`attendanceApprovalService.ts:534`) and the
employee's own list 100 requests; `Incoming` has no such limit.

`Notices`: the list of announcements shows 30 (`announcementReadService.ts:20`), the
lists of the publishers 100, and the look-up of today's reminders reads 20
notifications (`attendanceReminderService.ts:93`); the model has none of these limits,
and its bounds stay below them.

`Schedule`, `Accounts`: handlers run one at a time, what overlaps is not asked
here; the caller is the owner. The flag that marks made-up cells
(`shiftScheduleAssigned`) is left out, and OFF is not in the tables, since it is
linked everywhere and cannot be changed.

`Sessions`: an expiry is a step that may come at any time; a pair of tokens is a
number; rights are one value that each change flips; a deletion of the account is to
its tokens what a deactivation is.

`Boards`: the parts of an entry are fetched one after the other, in either order
(the code fetches them side by side); no call lasts as long as a unit of the clock;
the reconciliation inside a load is `DayScore`'s subject; the memory of the shifts is
filled in the step in which the rows are read; the early return for an
empty branch, which is not cached, is left out. That calls do not overlap includes
the deletions that the code does not await.

## Not modelled

| part | why |
|---|---|
| Message parser, date skew, work dates | work on strings and clock arithmetic without state of its own |
| BioFinger machine endpoints, Telegram listeners | they end in the same save and enqueue calls as the webhook; connection handling is the library's |
| Telegram photos, avatars, files and storage | file I/O |
| Attendance queries, late healing, live board | read-only views, apart from the healing of late minutes, which is the write of `HealWrite` |
| Reports, dashboards, Odoo export | read-only aggregations of what is modelled; how a person's days are counted is in `Ranking` |
| Which permission allows what | tables without a state machine; that a change of rights takes effect is in `Sessions` |
| Organisation settings other than types, threshold and scoring rules | values |
| Developer tools, routes, CLI, start-up | HTTP wiring, test data, process start |

## Plan

Done: the lock, scan slots, the pipeline with queue and grid, row and score, the
scoring rules and their caches; approvals with swaps and excuses; sessions;
accounts and branches; shifts, grid and spreadsheet; caches; notices; ranking.
Proofs of all of them.

Left, in this order:

1. `WorkDate`: the date correction of a message as operators.
2. Two work dates in `TelegramIngest`, so that a late retry can meet the date
   correction.
3. `Accounts` with two handlers at a time, and with callers below the owner.
