SPECIFICATION Spec
CONSTANTS
  None = None
  Domains <- MCDomains
  Streams <- OwnStreams
  StreamsOf <- OwnStreamsOf
  Scope <- MCScope
  Pilots <- MCPilots
  MaxLevel = 2
  Changing = {"s1"}
  MaxEdits = 1
INVARIANTS
  TypeOK
  CutOverSealed
  FrozenForCutover
  
