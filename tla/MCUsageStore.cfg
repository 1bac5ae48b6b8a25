CONSTANTS
  Devices = {d1}
  Labels = {k1}
  Members = {m1, m2}
  Admins = {a1}
  None = None
  MaxAdds = 1
  MaxOrders = 1
  MaxFailures = 1
  MaxCrashes = 1
SPECIFICATION Spec
SYMMETRY Interchangeable
INVARIANTS
  UsageIsExact
  UsageIsSaved
PROPERTIES
  NoRollback
CHECK_DEADLOCK FALSE
