CONSTANTS
  Procs = {p1, p2}
  MaxLife = 1
SPECIFICATION Spec
INVARIANTS OneDriver
CHECK_DEADLOCK FALSE
