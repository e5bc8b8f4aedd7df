SPECIFICATION KpiSpec
CONSTANTS
  early = early
  night = night
  t1 = t1
  t2 = t2
  Off = Off
  None = None
  Shifts = {early, night}
  Times = {t1, t2}
  Points <- SomePoints
  Lateness <- SomeLateness
  Bonuses <- SomeBonuses
  Calls = {c1, c2}
  Managers = {d1, d2}
  MaxAdjust = 2
  MaxEvals = 1
  MaxCalls <- SomeMaxCalls
  x = x
  y = y
  Staff = {1, 2, 3}
  Person <- SomePerson
  Store <- SomeStore
  Dates = {d1, d2}
  Marks <- SomeMarks
  Histories <- SomeHistories
  Jobs = {c1, c2}
  MaxFixes = 1
  MaxKills = 1
  NoMark = NoMark
  k1 = k1
  s1 = s1
  s2 = s2
  s3 = s3
  Clients = {1, 2, 3, 4}
  Keys = {k1, k2}
  Conns = {s1, s2, s3}
  Pool <- SomePool
  NoConn = NoConn
  MaxHolds = 2
INVARIANTS EveryBonusCounts PointsMatchCheckIn PodiumIsRight PageIsBoard OverlapSharesSession
PROPERTIES AdjustmentKept
SYMMETRY KpiSymmetry
CHECK_DEADLOCK FALSE
