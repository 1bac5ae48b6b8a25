CONSTANTS
  Accounts = {a1}
  Bootstrap = a1
  Devices = {Proxy}
  Proxy = Proxy
  Nonces = {n1}
  MaxDeviceNonces = 2
  MaxDevices = 1
  Attempts = {t1}
  Admins = {x1}
  Workers = {w1, w2}
  Closer = Closer
  Nobody = Nobody
  Events = {"durability", "io", "daemon_crash", "machine_crash", "close"}
  MaxTime = 3
  MaxToken = 1
  MaxEpoch = 2
  Endpoints = {v4, v6}
  SixEndpoints = {v6}
  Leases <- TwoLeases
  g1 = g1  p1 = p1  i1 = i1
  Adapters = {g1, g2}
  Physical = {p1, p2}
  Indexes = {i1, i2}
  None = None
  MaxEvents = 3
  Profiles = {c1}
  Tasks = {k1, k2}
  MaxLines = 2
  MaxLog = 2
  Nothing = Nothing
SPECIFICATION SpecAll
INVARIANTS
  FileIsKept
  WindowsIsSafe
  DesktopIsSound
