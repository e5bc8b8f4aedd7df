SPECIFICATION FairSpec
CONSTANTS
  e1 = e1
  e2 = e2
  m1 = m1
  m2 = m2
  m3 = m3
  m4 = m4
  Nobody = Nobody
  Employees = {e1}
  Messages = {m1, m2, m3}
  Workers = {w1}
  Apis = {a1}
  EmployeeOf <- OneEmployee
  Text <- SharedScan
  Account <- OwnAccount
  BreakEnabled <- Breaks
  QueueEnabled = TRUE
  Serialised = TRUE
  FirstGrids = {"work"}
  Applicants = {}
  MayExpire = FALSE
  MaxAttempts = 2
  MaxDeliveries = 1
  MaxFaults = 1
  MaxCrashes = 1
  MaxSaves = 0
INVARIANTS ScanFillsOneSlot ProcessedIsRecorded
PROPERTIES AcceptedJobsFinish
CHECK_DEADLOCK FALSE
