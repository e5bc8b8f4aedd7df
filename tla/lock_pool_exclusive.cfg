SPECIFICATION LockSpec
CONSTANTS
  s1 = s1
  s2 = s2
  s3 = s3
  Clients = {1, 2, 3, 4}
  Keys = {k1, k2}
  Conns = {s1, s2, s3}
  Pool <- SomePool
  NoConn = NoConn
  MaxHolds = 2
INVARIANT Exclusive
CHECK_DEADLOCK FALSE
