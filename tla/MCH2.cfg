CONSTANTS
  LaneCount = 3
  TcpFlows = {t}
  DatagramFlows = {}
  ControlFlows = {c}
  Leases = {a, b}
  FirstLease = a
  Absent = Absent
  QueuePackets = 1
  FlowLimit = 1
  Scenarios <- SomeScenarios
  UpLane = 1
  Sizes = {1, 2}
  MaxAge <- Ages
  StreamQueuePackets = 2
  QueueBytes = 3
  BatchPackets = 2
  BatchBytes = 2
  StreamPackets = 1
  ResponseChunks = 1
  ChannelPackets = 2
  ControlBurst = 1
  Loads <- SomeLoads
  MaxTime = 2
  Scripts <- SomeScripts
  Own = 8
  LeaseBytes <- Address
  MaxCapsule = 80
  OutChunks = 2
SPECIFICATION FairAll
INVARIANTS
  
  FramingIsSound
PROPERTIES
  TunnelMovesOn
  StreamsAreSound
CHECK_DEADLOCK FALSE
