SPECIFICATION FairSpec
CONSTANTS
  None = None
  Commands = {"photo"}
  CreatedAt <- PhotoCreatedAt
  Needs <- PhotoNeeds
  HomeOf <- PhotoHomeOf
  WithFile = {"photo"}
  Workspaces = {"plant", "lab"}
  MaxAttempts = 2
  MaxRestarts = 1
PROPERTIES
  Settles
CHECK_DEADLOCK FALSE
