SPECIFICATION PeopleSpec
CONSTANTS
  Users = {1, 2}
  Rows = {1, 2, 3}
  Branches = {b1, b2}
  Niks = {n1, n2}
  TypeCodes = {crew, head}
  HeadTypes = {head}
  None = None
  Gone = Gone
  MaxCalls = 4
  MaxFaults = 1
  SCalls = {c1, c2}
  SUsers = {u}
  MaxFails = 2
  MaxPairs = 3
  MaxSCalls <- SomeMaxSCalls
  NoOne = NoOne
  Nodes = {b1, b2}
  KCalls = {c1, c2}
  Deltas <- SomeDeltas
  Thresholds <- SomeThresholds
  AskedTables <- SomeTables
  CacheMs = 2
  Bounds <- SomeBounds
  NoValue = NoValue
INVARIANTS AccountsArePlaced OneLiveRow HistoryIsComplete RefreshOnce OnlyLatestRefreshes LockedAfterStrikes RightsAreCurrent MasterIsHidden EarlierScoresNoLess RulesAreRecent
SYMMETRY PeopleSymmetry
CHECK_DEADLOCK FALSE
