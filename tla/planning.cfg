SPECIFICATION PlanningSpec
CONSTANTS
  Shops = {s1, s2}
  Crew = {w1, w2}
  ShiftIds = {1, 2, 4}
  OffId = 3
  Legacy = {1, 2}
  Words = {pagi}
  Months = {1, 2}
  MaxTurns = 3
  MaxStops = 1
  Nil = Nil
  amy = amy
  ben = ben
  m1 = m1
  m2 = m2
  early = early
  night = night
  Planned <- SomePlan
  Off = Off
  None = None
  Calls = {w1, w2}
  Employees = {amy, ben}
  Managers = {m1, m2}
  EmployeeOf <- SomeEmployeeOf
  Shifts = {early, night}
  Ids = {i1, i2}
  MaxCalls <- SomeMaxCalls
  MaxCrashes <- SomeMaxCrashes
INVARIANTS HistoryIsReadable ConsentBeforeSwap OneActiveRequest SwapIsApproved RowsFollowGrid PendingHasOwner
PROPERTIES UploadKeepsOthers DecisionIsFinal OnlyOfferedIsCreated
SYMMETRY PlanningSymmetry
CHECK_DEADLOCK FALSE
