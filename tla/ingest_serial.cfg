SPECIFICATION Spec
CONSTANTS
  e1 = e1
  e2 = e2
  m1 = m1
  m2 = m2
  m3 = m3
  m4 = m4
  Nobody = Nobody
  Employees = {e1, e2}
  Messages = {m1, m2, m3}
  Workers = {}
  Apis = {a1}
  EmployeeOf <- TwoAndOne
  Text <- FourScans
  Account <- SameAccount
  BreakEnabled <- Breaks
  QueueEnabled = FALSE
  Serialised = TRUE
  FirstGrids = {"none", "off", "work"}
  Applicants = {}
  MayExpire = TRUE
  MaxAttempts = 2
  MaxDeliveries = 2
  MaxFaults = 0
  MaxCrashes = 0
  MaxSaves = 2
INVARIANTS NoneParkedOnScheduledDay OneCheckInPerAccount
CHECK_DEADLOCK FALSE
