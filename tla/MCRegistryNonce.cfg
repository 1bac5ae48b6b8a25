CONSTANTS
  Accounts = {a1}
  Bootstrap = a1
  Devices = {d1, Proxy}
  Proxy = Proxy
  Nonces = {n1, n2}
  MaxDeviceNonces = 3
  MaxDevices = 1
  Attempts = {t1, t2}
  Admins = {x1}
  Workers = {}
  Closer = Closer
  Nobody = Nobody
  Events = {}
  MaxTime = 2
  MaxToken = 1
  MaxEpoch = 2
SYMMETRY Alike
SPECIFICATION Spec
PROPERTY NonceIsAcceptedOnce
CHECK_DEADLOCK FALSE
