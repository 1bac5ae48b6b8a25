CONSTANTS
  Endpoints = {e1, e2}
  Leases <- TwoLeases
  Indexes = {i1, i2, i3}
  Names = {n1, n2}
  Hardware = {h1}
  Tables = {"t1", "t2"}
  AdminRoutes = {e1, e2}
  None = None
  MaxActions = 11
  MaxEndpoints = 2
  MaxEvents = 3
SPECIFICATION NetworkSpec
SYMMETRY Interchangeable
INVARIANTS
  NetworkIsSafe
PROPERTIES
  ReadyWhenReached
CHECK_DEADLOCK FALSE
