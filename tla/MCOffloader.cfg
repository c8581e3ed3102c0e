SPECIFICATION Spec
CONSTANTS
  p1 = p1
  p2 = p2
  Ports = {p1, p2}
  Once = TRUE
  MaxPlugs = 2
  MaxCtrlC = 2
INVARIANTS
  TypeOK
  NoJobForgotten
  NobodyAbandoned
  ExitStatusComplete
PROPERTIES
  NotesReachSummary
  CtrlCEnds
  SeenGoneIsServed
CHECK_DEADLOCK FALSE
