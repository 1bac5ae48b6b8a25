CONSTANTS
  Clients = {c1}
  Requests = {r1, r2}
  MaxSessions = 1
  MaxPerLogin = 1
  SessionTtl = 1
  TicketTtl = 0
  Sizes = {0, 2}
  Offsets = {0, 1, 3}
  MaxTime = 1
  MaxIds = 2
  MaxTokens = 2
  Admin = Admin
  None = None
  Writers = {r1, r2}
  Snapshotters = {q1}
  Stoppers = {q2}
  WritersMask = 3
  LoadsMaySink = FALSE
  MaxUpdates = 2
SYMMETRY Alike
SPECIFICATION SpecBoth
INVARIANTS
  
  StopIsFinal
  PortalIsSound
CHECK_DEADLOCK FALSE
