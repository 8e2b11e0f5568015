SPECIFICATION Spec
CONSTANTS
  People = {ann, bob}
  None = None
  MaxRevisions = 2
SYMMETRY Symmetry
INVARIANTS
  TypeOK
  OneInForce
  PublishedAsApproved
PROPERTIES
  KeptOnceOut
CHECK_DEADLOCK FALSE
