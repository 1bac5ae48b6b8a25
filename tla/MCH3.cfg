CONSTANTS
  Mtus = {1152}
  ControlCommands = 1
  DataCommands = 1
  InboundSlots = 1
  MaxProbes = 16
  MaxPackets = 1
  Traffics <- SmallTraffics
  Capacities = {0, 60, 68, 100, 140}
  Ceiling = 140
  Retries = 1
  MaxFlows = 1
  Grace = 3
  Idle = 4
  MaxTime = 4
SPECIFICATION FairBoth
INVARIANTS
  TunnelIsAgreed
PROPERTIES
  TunnelsEnd
  PacketsAreSized
CHECK_DEADLOCK FALSE
