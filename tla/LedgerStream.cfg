SPECIFICATION Spec
CONSTANTS
  Claims <- MCClaims
  Refs <- MCRefs
  RefOf <- MCRefOf
  Exists <- MCExists
  Dependable <- MCDependable
  Contents <- MCContents
  Versions <- MCVersions
  Parse <- MCParse
  GuardShare = 50
  GuardMin = 2
  MaxAt = 2
  MaxRevisions = 3
INVARIANTS
  TypeOK
  ReplaySound
  HeldAhead
  ProjectionFollowsHead
PROPERTIES
  NothingPassableLeft
  FrozenStandsStill
  
CHECK_DEADLOCK FALSE
