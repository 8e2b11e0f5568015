SPECIFICATION Spec
CONSTANTS
  None = None
  Domains <- MCDomains
  Streams <- OneStream
  StreamsOf <- OneStreamOf
  Scope <- MCScope
  Pilots <- MCPilots
  MaxLevel = 2
  Changing = {"s1"}
  MaxEdits = 1
PROPERTIES
  AcceptsNoFurther
