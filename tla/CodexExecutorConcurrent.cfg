CONSTANTS
  j1 = j1
  j2 = j2
  u1 = u1
  u2 = u2
  c1 = c1
  c2 = c2
  Jobs <- OneJob
  NoJob = NoJob
  Units <- MCUnits
  NoUnit = NoUnit
  Callers <- TwoCallers
  Access <- WritersOnly
  MaxReads = 2
  MaxExits = 1
  MaxCrashes = 1
SPECIFICATION Spec
INVARIANTS WriterOwnsWorkspace
SYMMETRY Symmetry
CHECK_DEADLOCK FALSE
