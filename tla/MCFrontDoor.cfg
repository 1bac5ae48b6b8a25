CONSTANTS
  Requests = {r1, r2, r3}
  Connections = {c1, c2}
  Conns = {k1, k2, k3}
  Sources = {a}
  Kinds <- SomeKinds
  MaxGlobal = 2
  MaxPerSource = 1
  MaxUnverified = 1
  RetryThreshold = 1
  RetryBurst = 1
  SourceBurst = 1
  MaxRequests = 2
  Nobody = Nobody
  Absent = Absent
  Streams = {s1, s2}
  InitialTimeout = 1
  StreamIdleTimeout = 2
  GraceTime = 1
  Connects = {p1, p2}
  Hosts = {h1, h2}
  Answers <- SomeAnswers
  PublicV4 = {"v4", "w4"}
  PublicV6 = {"v6"}
  MaxConnections = 1
  CacheEntries = 1
  Ttl = 2
  DialTimeout = 3
  Stagger = 1
  Camouflage = FALSE
  MaxTime = 6
  ClientBytes = 3
  ServerBytes = 5
  ReadSize = 3
  BufferSize = 2
  Window = 2
  FlushInterval = 1
  IdleTimeout = 2
  PollInterval = 1
  NoDeadline = NoDeadline
SPECIFICATION FairAll
INVARIANTS
  DrainIsExact
  AdmissionIsExact
  RelayIsExact
  ProxyIsConfined
PROPERTIES
  NothingHangs
  IdleMeansIdle
CHECK_DEADLOCK FALSE
