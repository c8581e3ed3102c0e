SPECIFICATION Spec
CONSTANTS
  a = a
  b = b
  Places = {a, b}
  Retries = 2
  MaxRequests = 2
  MaxInFlight = 4
SYMMETRY PlaceSymmetry
INVARIANTS
  TypeOK
  OwnReply
  BlockIsOwn
  ConfirmedOnce
  RepliesAreUsed
CHECK_DEADLOCK FALSE
