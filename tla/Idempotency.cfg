SPECIFICATION Spec
CONSTANTS
  first = first
  second = second
  other = other
  key = key
  None = None
  Keys = {key}
  Requests <- MCRequests
  Captured = {key}
  KeyOf <- MCKeyOf
  DigestOf <- MCDigestOf
SYMMETRY Attempts
INVARIANTS
  TypeOK
  OncePerReservation
  AnswersOwnCommand
  OneAnswer
CHECK_DEADLOCK FALSE
