CONSTANTS
  Clients = {c1}
  GroupIds = {g1}
  Handles = {t1, t2}
  NoGroup = NoGroup
  NoClient = NoClient
  NoTunnel = NoTunnel
  Lanes <- TwoLanes
  LaneCounts = {2, 3}
  Broadcast = 3
  MaxGeneration = 3
  Packets <- SomePackets
  QueueConfigs <- SomeConfigs
  MaxSent = 5
  MaxTime = 3
SPECIFICATION FairBoth
INVARIANTS
  TunnelsAreSound
  QueueIsOrdered
  NoLostWakeup
PROPERTIES
  RoutesMoveForward
  TunnelsReturn
  PreferredStay
  WaitingEnds
CHECK_DEADLOCK FALSE
