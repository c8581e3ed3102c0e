SPECIFICATION Spec
CONSTANTS
  p1 = p1
  p2 = p2
  Ports = {p1}
  Once = FALSE
  MaxPlugs = 2
  MaxCtrlC = 0
PROPERTIES
  ReconnectIsServed
CHECK_DEADLOCK FALSE
