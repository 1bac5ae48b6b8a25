CONSTANTS
  Devices = {d1, d2}
  Labels = {}
  Members = {m1, m2}
  Admins = {a1}
  None = None
  MaxAdds = 1
  MaxOrders = 1
  MaxFailures = 0
  MaxCrashes = 0
SPECIFICATION Spec
SYMMETRY Interchangeable
INVARIANTS
  ShutdownSaves
CHECK_DEADLOCK FALSE
