CONSTANTS
  j1 = j1
  j2 = j2
  u1 = u1
  u2 = u2
  c1 = c1
  c2 = c2
  Jobs <- TwoJobs
  NoJob = NoJob
  Units <- MCUnits
  NoUnit = NoUnit
  Callers <- OneCaller
  Access <- EitherAccess
  MaxReads = 2
  MaxExits = 1
  MaxCrashes = 0
  \* legacy task
  Hosts = {"h1"}
  MaxHosts = 1
  PlanSteps = {"p1", "p2"}
  Mandatory = {"p1", "p2"}
  Unverifiable = {"p2"}
  LooseStep <- MCLoose
  MaxRounds = 2
  \* Direct run
  k1 = k1
  k2 = k2
  k3 = k3
  ControlIds = {k1, k2, k3}
  RunSteps = {"s1", "s2"}
  MaxSequence = 3
  MaxUpsets = 1
SPECIFICATION TasksSpec
INVARIANTS
  WriterOwnsWorkspace TerminalIsOwn BindingIsTrue
  NeverReruns CompletedIsEarned
  ResultsAreAcknowledged AcceptanceIsBacked
SYMMETRY TasksSymmetry
CHECK_DEADLOCK FALSE
