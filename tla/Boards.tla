-------------------------------- MODULE Boards ---------------------------------
(***************************************************************************)
(* What is shown of a branch today and this month, through the caches: the *)
(* attendance rows (in the memory of the API process, and in Redis), the   *)
(* leaderboards and the public display (in Redis), and how a change of the *)
(* branch invalidates them, if it does (branchAttendanceService,           *)
(* leaderboardService, publicDisplayService, papanCacheInvalidation).      *)
(* The rows name the shifts as another memory of the process has them,     *)
(* which nothing invalidates.                                              *)
(*                                                                         *)
(* The branch's data is the number of its last change; what is shown is    *)
(* the number that it was computed from, the least where it is computed    *)
(* from several.  An await on Redis or the database ends a step.           *)
(***************************************************************************)
EXTENDS Naturals, FiniteSets

CONSTANTS
  BCalls,      \* concurrent requests and jobs
  Ttl,         \* Ttl[k]: the life of a Redis entry k
  RowsMemTtl,  \* ROWS_MEM_CACHE_MS
  ShiftsTtl,   \* SHIFTS_CACHE_MS
  MaxEdits,    \* bound: changes of the branch, by whether calls may overlap
  MaxReads,    \* bound: requests that read, likewise
  MaxClock,    \* bound: time
  MaxMisses,   \* bound: deletions that Redis does not get
  NoEntry

\* The entries: branch:attendance:today, leaderboard:branch, leaderboard:global,
\* public:display:branch, public:display:branches, public:display.
Entries == {"rows", "ranks", "global", "board", "picker", "wall"}

\* What an entry is computed from, besides the database.
PartsOf(k) == CASE k \in {"board", "wall"} -> {"rows", "ranks"}
                [] k = "picker" -> {"rows"}
                [] OTHER -> {}

ASSUME BoardsAssumption ==
  /\ Ttl \in [Entries -> Nat \ {0}] /\ RowsMemTtl \in Nat \ {0} /\ ShiftsTtl \in Nat \ {0}
  /\ MaxEdits \in [BOOLEAN -> Nat] /\ MaxReads \in [BOOLEAN -> Nat] /\ MaxClock \in Nat /\ MaxMisses \in Nat
  /\ NoEntry \notin Nat

VARIABLES
  boverlap,  \* may calls overlap?
  fact,      \* the number of changes so far
  ended,     \* ended[v]: when v was no longer the last change
  mem,       \* rowsMemCache of the API process
  codes,     \* its shiftsCache; ver: the last change after which it is still right
  redis,     \* the entries
  inflight,  \* rowsInflight: the call that loads the rows, or NoEntry
  bcall,     \* bcall[c]: where call c stands
  shown,     \* the answer of the last step, or NoEntry
  announced, \* history: the last change that was followed by an invalidation
  renamed,   \* history: has a shift been added, removed or renamed?
  byWorker,  \* history: has the worker process changed the branch?
  clock, asks, misses

changes == <<fact, ended, announced, renamed, byWorker>>
bvars == <<boverlap, changes, codes, mem, redis, inflight, bcall, shown, clock, asks, misses>>

Rest == [do |-> "rest"]
Fresh(e) == e # NoEntry /\ clock < e.till

BoardsInit ==
  /\ boverlap \in BOOLEAN
  /\ fact = 0 /\ ended = [v \in 0 .. MaxEdits[boverlap] |-> 0]
  /\ mem = NoEntry /\ redis = [k \in Entries |-> NoEntry] /\ inflight = NoEntry
  /\ codes = NoEntry /\ announced = 0 /\ renamed = FALSE /\ byWorker = FALSE
  /\ bcall = [c \in BCalls |-> Rest] /\ shown = NoEntry
  /\ clock = 0 /\ asks = 0 /\ misses = 0
------------------------------------------------------------------------------
Goto(c, next) ==
  /\ bcall' = [bcall EXCEPT ![c] = next]
  /\ UNCHANGED <<boverlap, clock>>

\* No call answers in this step.
Silent == shown' = NoEntry

MayBegin(c) == bcall[c] = Rest /\ (boverlap \/ \A d \in BCalls : bcall[d] = Rest)

\* Mutant of Till: the entry is set without a life.
TillDropped(k) == MaxClock + 1
\* When an entry set now expires.
Till(k) == clock + Ttl[k]

\* A call that shows k, and still needs parts; got is what it was computed from.
Showing(do, k, parts, got) == [do |-> do, show |-> k, parts |-> parts, got |-> got]
Got(b, ver) == Showing("next", b.show, b.parts, b.got \cup {ver})
Least(S) == CHOOSE v \in S : \A w \in S : v <= w

\* GET of a display, a leaderboard or the attendance of the branch.  The rows
\* have a cache of their own, so that the request starts with that part.
Ask(c, k) ==
  /\ MayBegin(c) /\ asks < MaxReads[boverlap] /\ asks' = asks + 1
  /\ Goto(c, IF k = "rows" THEN Showing("rows", k, {}, {})
                           ELSE [do |-> "entry", show |-> k])
  /\ Silent /\ UNCHANGED <<changes, codes, mem, redis, inflight, misses>>

\* getPublicDisplayBranch, getPublicDisplayBranches, getPublicDisplay,
\* getBranchLeaderboard, getGlobalLeaderboard: the entry, or its parts
CacheGet(c) ==
  /\ bcall[c].do = "entry"
  /\ LET k == bcall[c].show
     IN  IF Fresh(redis[k])
         THEN /\ shown' = [kind |-> k, ver |-> redis[k].ver]
              /\ Goto(c, Rest)
         ELSE /\ Goto(c, Showing("next", k, PartsOf(k), {fact}))
              /\ Silent
  /\ UNCHANGED <<changes, codes, mem, redis, inflight, asks, misses>>

\* The next part, in either order, or the answer.
NextPart(c) ==
  /\ bcall[c].do = "next"
  /\ LET b == bcall[c]
     IN  \/ \E k \in b.parts : Goto(c, [b EXCEPT !.do = k, !.parts = @ \ {k}])
         \/ /\ b.parts = {}
            /\ Goto(c, [do |-> "set", show |-> b.show, ver |-> Least(b.got)])
  /\ Silent /\ UNCHANGED <<changes, codes, mem, redis, inflight, asks, misses>>

\* The answer goes to Redis; that the rows do is a step of loadBranchRows.
CacheSet(c) ==
  /\ bcall[c].do = "set"
  /\ LET k == bcall[c].show
     IN  /\ redis' = IF k = "rows" THEN redis
                     ELSE [redis EXCEPT ![k] = [ver |-> bcall[c].ver, till |-> Till(k)]]
         /\ shown' = [kind |-> k, ver |-> bcall[c].ver]
  /\ Goto(c, Rest)
  /\ UNCHANGED <<changes, codes, mem, inflight, asks, misses>>

\* getBranchLeaderboardBase
BranchLeaderboardBase(c) ==
  /\ bcall[c].do = "ranks"
  /\ LET b == bcall[c]
     IN  Goto(c, IF Fresh(redis["ranks"]) THEN Got(b, redis["ranks"].ver)
                 ELSE [do |-> "ranked", show |-> b.show, parts |-> b.parts, got |-> b.got,
                       ver |-> fact])
  /\ Silent /\ UNCHANGED <<changes, codes, mem, redis, inflight, asks, misses>>

SetRanks(c) ==
  /\ bcall[c].do = "ranked"
  /\ redis' = [redis EXCEPT !["ranks"] = [ver |-> bcall[c].ver, till |-> Till("ranks")]]
  /\ Goto(c, Got(bcall[c], bcall[c].ver))
  /\ Silent /\ UNCHANGED <<changes, codes, mem, inflight, asks, misses>>
------------------------------------------------------------------------------
(* loadBranchRows.                                                          *)
RowsFromMemory(c) ==
  /\ bcall[c].do = "rows"
  /\ Goto(c, IF Fresh(mem) THEN Got(bcall[c], mem.ver) ELSE [bcall[c] EXCEPT !.do = "askredis"])
  /\ Silent /\ UNCHANGED <<changes, codes, mem, redis, inflight, asks, misses>>

RowsFromRedis(c) ==
  /\ bcall[c].do = "askredis"
  /\ Goto(c, [do |-> "redis", show |-> bcall[c].show, parts |-> bcall[c].parts,
              got |-> bcall[c].got,
              found |-> IF Fresh(redis["rows"]) THEN redis["rows"].ver ELSE NoEntry])
  /\ Silent /\ UNCHANGED <<changes, codes, mem, redis, inflight, asks, misses>>

MemEntry(ver) == [ver |-> ver, till |-> clock + RowsMemTtl]

\* A hit is put in memory; of several misses the first loads, the others wait.
RowsOrLoad(c) ==
  /\ bcall[c].do = "redis"
  /\ \/ /\ bcall[c].found # NoEntry
        /\ mem' = MemEntry(bcall[c].found)
        /\ Goto(c, Got(bcall[c], bcall[c].found)) /\ UNCHANGED inflight
     \/ /\ bcall[c].found = NoEntry /\ inflight # NoEntry
        /\ Goto(c, [bcall[c] EXCEPT !.do = "wait"]) /\ UNCHANGED <<mem, inflight>>
     \/ /\ bcall[c].found = NoEntry /\ inflight = NoEntry
        /\ inflight' = c
        /\ Goto(c, [bcall[c] EXCEPT !.do = "load"]) /\ UNCHANGED mem
  /\ Silent /\ UNCHANGED <<changes, codes, redis, asks, misses>>

\* getShiftsById, with the rows that are then read: they are as right as the
\* shifts of the memory are.
ReadRows(c) ==
  /\ bcall[c].do = "load"
  /\ codes' = IF Fresh(codes) THEN codes ELSE [ver |-> fact, till |-> clock + ShiftsTtl]
  /\ Goto(c, [bcall[c] EXCEPT !.do = "loaded", !.found = codes'.ver])
  /\ Silent /\ UNCHANGED <<changes, mem, redis, inflight, asks, misses>>

RowsToMemory(c) ==
  /\ bcall[c].do = "loaded"
  /\ mem' = MemEntry(bcall[c].found)
  /\ Goto(c, [bcall[c] EXCEPT !.do = "store"])
  /\ Silent /\ UNCHANGED <<changes, codes, redis, inflight, asks, misses>>

\* The rows go to Redis, and those who waited get them too.
RowsToRedis(c) ==
  /\ bcall[c].do = "store"
  /\ LET ver == bcall[c].found
     IN  /\ redis' = [redis EXCEPT !["rows"] = [ver |-> ver, till |-> Till("rows")]]
         /\ bcall' = [d \in BCalls |->
              IF d = c \/ bcall[d].do = "wait" THEN Got(bcall[d], ver) ELSE bcall[d]]
  /\ inflight' = NoEntry
  /\ Silent /\ UNCHANGED <<boverlap, changes, codes, mem, clock, asks, misses>>
------------------------------------------------------------------------------
(* A change of the branch, in one of the two processes.                     *)

\* A change of the day; of the branch's shifts; and a "quiet" one, which nothing
\* follows: a schedule that is saved, as long as no day of it has a check-in.
EditKinds == {"day", "shifts", "quiet"}

Edit(c, worker, kind) ==
  /\ MayBegin(c) /\ fact < MaxEdits[boverlap]
  /\ kind # "day" => ~worker
  /\ fact' = fact + 1 /\ ended' = [ended EXCEPT ![fact] = clock]
  /\ byWorker' = (byWorker \/ worker)
  /\ renamed' = (renamed \/ kind = "shifts")
  /\ codes' = IF kind # "shifts" /\ codes # NoEntry /\ codes.ver = fact
                THEN [ver |-> fact + 1, till |-> codes.till] ELSE codes
  /\ IF kind = "quiet" THEN UNCHANGED <<announced, bcall>>
     ELSE /\ announced' = fact + 1
          /\ bcall' = [bcall EXCEPT ![c] = [do |-> "edited", worker |-> worker]]
  /\ Silent /\ UNCHANGED <<boverlap, mem, redis, inflight, clock, asks, misses>>

\* Mutant of Stale: the leaderboard of the branch is forgotten.
StaleButRanks == {"rows", "board", "picker", "wall"}
\* The entries that invalidateLeaderboardCachesForBranch and
\* invalidateBranchAttendanceCache delete.
Stale == {"rows", "ranks", "board", "picker", "wall"}

\* invalidatePapanCaches: the memory of this process at once, Redis by calls
\* that run side by side; that for the rows is not awaited.
InvalidatePapanCaches(c) ==
  /\ bcall[c].do = "edited"
  /\ mem' = IF bcall[c].worker THEN mem ELSE NoEntry
  /\ Goto(c, [do |-> "delete", keys |-> Stale])
  /\ Silent /\ UNCHANGED <<changes, codes, redis, inflight, asks, misses>>

\* A failed deletion is ignored.
CacheDelete(c) ==
  /\ bcall[c].do = "delete"
  /\ \E k \in bcall[c].keys :
       /\ \/ redis' = [redis EXCEPT ![k] = NoEntry] /\ UNCHANGED misses
          \/ misses < MaxMisses /\ misses' = misses + 1 /\ UNCHANGED redis
       /\ Goto(c, IF bcall[c].keys = {k} THEN Rest ELSE [bcall[c] EXCEPT !.keys = @ \ {k}])
  /\ Silent /\ UNCHANGED <<changes, codes, mem, inflight, asks>>

\* No call takes as long as a unit of time.
Tick ==
  /\ clock < MaxClock /\ clock' = clock + 1
  /\ \A c \in BCalls : bcall[c] = Rest
  /\ Silent /\ UNCHANGED <<boverlap, changes, codes, mem, redis, inflight, bcall, asks, misses>>

BoardsNext ==
  \/ \E c \in BCalls :
       \/ \E k \in Entries : Ask(c, k)
       \/ CacheGet(c) \/ NextPart(c) \/ CacheSet(c) \/ BranchLeaderboardBase(c) \/ SetRanks(c)
       \/ RowsFromMemory(c) \/ RowsFromRedis(c) \/ RowsOrLoad(c) \/ ReadRows(c)
       \/ RowsToMemory(c) \/ RowsToRedis(c)
       \/ \E worker \in BOOLEAN, kind \in EditKinds : Edit(c, worker, kind)
       \/ InvalidatePapanCaches(c) \/ CacheDelete(c)
  \/ Tick

BoardsSpec == BoardsInit /\ [][BoardsNext]_bvars
------------------------------------------------------------------------------
(* Properties                                                               *)
Longest(S) == CHOOSE n \in S : \A m \in S : m <= n

\* How long ago what is shown may have ceased to be true: what is kept n units
\* of time is still shown n - 1 units later, and an entry is written from parts
\* that were about to expire themselves.
Age(k) == Ttl[k] - 1
AgeOfRows == ShiftsTtl - 1 + Age("rows") + RowsMemTtl - 1
Oldest(k) ==
  CASE k = "rows" -> AgeOfRows
    [] k = "picker" -> AgeOfRows + Age(k)
    [] k \in {"board", "wall"} -> Longest({AgeOfRows, Age("ranks")}) + Age(k)
    [] OTHER -> Age(k)

\* However reads and changes overlap, in whichever process, and whatever
\* deletion is lost or never made: nothing is shown that was no longer true
\* longer ago than its caches live, one after the other
\* (branchAttendanceService.ts:131, 441, 553; publicDisplayService.ts:16;
\* leaderboardService.ts:12).
StaleBound ==
  [][shown' # NoEntry /\ shown'.ver < fact =>
       clock - ended[shown'.ver] <= Oldest(shown'.kind)]_bvars

\* Calls that do not overlap, in one process, with Redis there and the shifts as
\* they were: the last change that invalidates is shown, and all before it, but
\* for the leaderboard of all branches (papanCacheInvalidation.ts:7).
FreshAfterChange ==
  [][shown' # NoEntry /\ ~boverlap /\ misses = 0 /\ ~byWorker /\ ~renamed
       /\ shown'.kind # "global" => shown'.ver >= announced]_bvars
===============================================================================
