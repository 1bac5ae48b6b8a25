CONSTANTS
  Clients = {c1, c2, c3, c4}
  GroupIds = {g1, g2}
  Handles = {h1, h2, h3}
  NoGroup = NoGroup
  NoClient = NoClient
  Broadcast = 4
  MaxGeneration = 5
  Flows = {c1, c2, c3, c4}
  NoFlow = NoFlow
  LaneCount = 3
  Capacity = 3
  Hash <- OneHash
  MaxLoad = 1
SYMMETRY Alike
SPECIFICATION SpecBoth
INVARIANTS
  GrantsAreKept
  GenerationsAreFresh
  ActiveIffHeld
  LanesAreChosen
PROPERTIES
  
  ImplementsPinning
