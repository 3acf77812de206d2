SPECIFICATION ConnSpec
CONSTANTS
  Callers = {"x"}
  MaxKids = 2
  MaxCalls = 2
INVARIANTS ExitIsOwn
CHECK_DEADLOCK FALSE
