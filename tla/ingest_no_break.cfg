SPECIFICATION Spec
CONSTANTS
  e1 = e1
  e2 = e2
  m1 = m1
  m2 = m2
  m3 = m3
  m4 = m4
  Nobody = Nobody
  Employees = {e1}
  Messages = {m1, m2}
  Workers = {w1, w2}
  Apis = {a1}
  EmployeeOf <- OneEmployee
  Text <- FourScans
  Account <- OwnAccount
  BreakEnabled <- NoBreaks
  QueueEnabled = TRUE
  Serialised = TRUE
  FirstGrids = {"work"}
  Applicants = {}
  MayExpire = FALSE
  MaxAttempts = 2
  MaxDeliveries = 1
  MaxFaults = 0
  MaxCrashes = 0
  MaxSaves = 0
INVARIANTS ProcessedIsRecorded
CHECK_DEADLOCK FALSE
