CONSTANTS
  Accounts = {a1, a2}
  Bootstrap = a1
  Devices = {d1, Proxy}
  Proxy = Proxy
  Nonces = {n1}
  MaxDeviceNonces = 2
  MaxDevices = 1
  Attempts = {t1, t2}
  Admins = {x1, x2}
  Workers = {}
  Closer = Closer
  Nobody = Nobody
  Events = {}
  MaxTime = 1
  MaxToken = 2
  MaxEpoch = 4
  Addresses = {k1, k2, k3}
  Shards = {1, 2}
  Callers = {t1, t2}
  MaxEntries = 2
  Burst = 2
  Interval = 1
  IdleExpiry = 3
  PruneInterval = 1
  HandlerTime = 1
  None = None
SYMMETRY Alike
SPECIFICATION SpecBoth
INVARIANTS
  RegistryIsSound
  RevokedSessionsEnd
  ForgettingGivesNothing
CHECK_DEADLOCK FALSE
