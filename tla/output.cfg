SPECIFICATION OutputSpec
CONSTANTS
  amy = amy
  ben = ben
  NCalls = {c1, c2}
  Folk = {amy, ben}
  Sites = {s1, s2}
  Ranks <- SomeRanks
  Posts = {a1}
  Devices = {d1, d2}
  MaxNCalls <- SomeMaxNCalls
  MaxMoves = 1
  MaxRestarts = 1
  Nobody = Nobody
  BCalls = {c1, c2}
  Ttl <- SomeTtl
  RowsMemTtl = 1
  ShiftsTtl = 2
  MaxEdits <- SomeMaxEdits
  MaxReads <- SomeMaxReads
  MaxClock = 3
  MaxMisses = 1
  NoEntry = NoEntry
INVARIANTS ReadTogether OneReminderADay OneDevice
PROPERTIES StaleBound FreshAfterChange
SYMMETRY OutputSymmetry
CHECK_DEADLOCK FALSE
