SPECIFICATION Spec
CONSTANTS
  None = None
  Commands <- MCCommands
  CreatedAt <- MCCreatedAt
  Needs <- MCNeeds
  HomeOf <- MCHomeOf
  WithFile = {"photo"}
  Workspaces = {"plant"}
  MaxAttempts = 1
  MaxRestarts = 1
INVARIANTS
  TypeOK
  DraftKept
  AcceptedIsFact
  AfterItsNeeds
CHECK_DEADLOCK FALSE
